------------------------------- MODULE Campaigns -------------------------------
(***************************************************************************)
(* Marketing campaigns: the partners on a campaign are its lines, and a    *)
(* line is what payments, promised posts and gifts refer to.               *)
(*                                                                         *)
(* A campaign's dates, costs and batches are its label; a line that was    *)
(* taken off is never used again, as its oid never is.                     *)
(***************************************************************************)
EXTENDS Forms

CONSTANTS
    Campaigns_,     \* campaign
    Partners,       \* partner
    Lines,          \* campaign_partner
    Payments,       \* partner_payment
    Deliverables,   \* campaign_deliverable
    NoLine          \* what a gift given for no campaign refers to

CampaignRows == Campaigns_ \cup Partners \cup Lines \cup Payments \cup Deliverables

ASSUME CampaignsAssumption ==
    /\ CampaignRows \subseteq Rows /\ NoLine \notin Lines
    /\ Campaigns_ \cap (Partners \cup Lines \cup Payments \cup Deliverables) = {}
    /\ Partners \cap (Lines \cup Payments \cup Deliverables) = {}
    /\ Lines \cap (Payments \cup Deliverables) = {} /\ Payments \cap Deliverables = {}

CampaignRowType(r) ==
    CASE r \in Campaigns_ -> [is : {"None", "Planned", "Live", "Completed", "Cancelled"}, by : Nat, label : Nat, version : Nat]
      [] r \in Partners -> [is : {"None", "Active", "Inactive"}, label : Nat, version : Nat]
      [] r \in Lines -> [is : {"None", "On", "Off"}, campaign : Campaigns_, partner : Partners, fee : Nat, version : Nat]
      [] r \in Payments -> [is : {"None", "Paid"}, line : Lines, amount : Nat, version : Nat]
      [] OTHER -> [is : {"None", "Pending", "Posted", "Missed", "Removed"}, line : Lines, version : Nat]

Running == {"Planned", "Live"}

-----------------------------------------------------------------------------
(* The campaign and who is on it *)

LinesOf(t, c) == {l \in Lines : View(t, l).is = "On" /\ View(t, l).campaign = c}
PartnersOn(t, c) == {View(t, l).partner : l \in LinesOf(t, c)}

\* What keeps a partner on the campaign; kept are the lines gifts are given for.
OnRecord(t, l, kept) ==
    \/ \E p \in Payments : View(t, p).is = "Paid" /\ View(t, p).line = l
    \/ \E d \in Deliverables : View(t, d).is \notin {"None", "Removed"} /\ View(t, d).line = l
    \/ l \in kept

\* Faulty form of LockLines: the lines are looked at and not locked.
ReadLines(t, c, next) == Look(t, next)

LockLines(t, c, next) == Change(t, [l \in LinesOf(t, c) |-> View(t, l)], next)

\* The partners a form adds, and the rows they may get.
Added(t, c) == DOMAIN Sent(t).fees \ PartnersOn(t, c)
UnusedLines(t) == {l \in Lines : View(t, l).is = "None"}

\* A kept partner keeps its row, and its fee is updated; a new one gets a row of its own.
PartnersWritten(t, c, rowFor) ==
    LET fees == Sent(t).fees        \* the agreed fee of each partner sent
        kept == {l \in LinesOf(t, c) : View(t, l).partner \in DOMAIN fees}
        given(p) == [is |-> "On", campaign |-> c, partner |-> p, fee |-> fees[p], version |-> 1]
    IN  [l \in {k \in kept : View(t, k).fee # fees[View(t, k).partner]} |-> Updated(View(t, l), [fee |-> fees[View(t, l).partner]])]
        ++ [l \in LinesOf(t, c) \ kept |-> Updated(View(t, l), [is |-> "Off"])]
        ++ [l \in {rowFor[p] : p \in DOMAIN rowFor} |-> given(CHOOSE p \in DOMAIN rowFor : rowFor[p] = l)]

\* An inactive partner may stay and is never added; one with records is never taken off.
save_partners(t, kept) ==
    LET c == Row(t)
        sent == DOMAIN Sent(t).fees
    IN  \/ Check(t, "partners", \A p \in sent \ PartnersOn(t, c) : View(t, p).is = "Active", "lines")
        \/ At(t, "lines") /\ LockLines(t, c, To(t, "records"))
        \/ Check(t, "records", \A l \in LinesOf(t, c) : View(t, l).partner \in sent \/ ~OnRecord(t, l, kept), "write")
        \/ /\ At(t, "write")
           /\ \E rowFor \in Injection(Added(t, c), UnusedLines(t)) : Change(t, PartnersWritten(t, c, rowFor), To(t, "commit"))

create_campaign(t, kept) ==
    /\ Asks(t, "plan", Campaigns_)
    /\ \/ /\ At(t, "begin") /\ IsNew(t, Row(t))
          /\ Change(t, Version(Row(t), [is |-> "Planned", by |-> By(t), label |-> Sent(t).label, version |-> 1]), To(t, "partners"))
       \/ At(t, "begin") /\ Exists(t, Row(t)) /\ IF Own(t).by = By(t) THEN Look(t, To(t, "commit")) ELSE Refuse(t)
       \/ save_partners(t, kept)

update_campaign(t, kept) ==
    /\ Asks(t, "save", Campaigns_)
    /\ \/ At(t, "check") /\ Own(t).is \notin Running /\ Refuse(t)
       \/ /\ At(t, "check") /\ Own(t).is \in Running
          /\ Change(t, Version(Row(t), Updated(Own(t), [label |-> Sent(t).label])), To(t, "partners"))
       \/ save_partners(t, kept)

status_change(t) ==
    \/ Button(t, "start", Campaigns_, {"Planned"}, "Live", To(t, "commit"))
    \/ Button(t, "complete", Campaigns_, {"Live"}, "Completed", To(t, "commit"))
    \/ Button(t, "cancel", Campaigns_, Running, "Cancelled", To(t, "commit"))

-----------------------------------------------------------------------------
(* What refers to a line *)

\* The line is found, with its campaign's status as the statement's snapshot has it, ...
FindLine(t, from, l, next) ==
    /\ At(t, from)
    /\ IF View(t, l).is = "On" THEN Look(t, [To(t, next) EXCEPT !.fit = View(t, View(t, l).campaign).is]) ELSE Refuse(t)

\* ... and locked; it may have been taken off meanwhile.  A cancelled campaign is a record.
LockLine(t, at, l, next) ==
    /\ At(t, at)
    /\ IF View(t, l).is = "On" /\ tx[t].fit # "Cancelled"
       THEN Change(t, Version(l, View(t, l)), To(t, next))
       ELSE Free(t, l) /\ Refuse(t)

\* A payment sent again is the same payment, or refused when its details differ.
create_partner_payment(t) ==
    LET payment == [is |-> "Paid", line |-> Sent(t).line, amount |-> Sent(t).amount, version |-> 1]
    IN  /\ Asks(t, "pay partner", Payments)
        /\ \/ FindLine(t, "begin", Sent(t).line, "line")
           \/ LockLine(t, "line", Sent(t).line, "write")
           \/ At(t, "write") /\ IsNew(t, Row(t)) /\ Change(t, Version(Row(t), payment), To(t, "commit"))
           \/ /\ At(t, "write") /\ Exists(t, Row(t))
              /\ IF Own(t).line = payment.line /\ Own(t).amount = payment.amount THEN Look(t, To(t, "commit")) ELSE Refuse(t)

create_campaign_deliverable(t) ==
    /\ Asks(t, "promise", Deliverables)
    /\ \/ FindLine(t, "begin", Sent(t), "line")
       \/ LockLine(t, "line", Sent(t), "write")
       \/ At(t, "write") /\ IsNew(t, Row(t)) /\ Change(t, Version(Row(t), [is |-> "Pending", line |-> Sent(t), version |-> 1]), To(t, "commit"))
       \/ At(t, "write") /\ Exists(t, Row(t)) /\ Look(t, To(t, "commit"))

update_campaign_deliverable(t) ==
    /\ Asks(t, "save", Deliverables)
    /\ \/ FindLine(t, "check", Own(t).line, "line")
       \/ LockLine(t, "line", Own(t).line, "write")
       \/ At(t, "write") /\ Change(t, Version(Row(t), Updated(Own(t), Sent(t))), To(t, "commit"))

\* Only a promise with no outcome yet is removed.
delete_campaign_deliverable(t) ==
    /\ Asks(t, "remove", Deliverables)
    /\ \/ FindLine(t, "begin", Own(t).line, "line")
       \/ LockLine(t, "line", Own(t).line, "write")
       \/ At(t, "write") /\ Press(t, {"Pending"}, "Removed", To(t, "commit"))

create_partner(t) == Asks(t, "enlist", Partners) /\ At(t, "begin") /\ Insert(t, To(t, "commit"))

update_partner_details(t) == Asks(t, "save", Partners) /\ At(t, "check") /\ Save(t, << >>, "commit")

CampaignStep(t, kept) ==
    \/ create_campaign(t, kept) \/ update_campaign(t, kept) \/ status_change(t)
    \/ create_partner_payment(t) \/ create_campaign_deliverable(t)
    \/ update_campaign_deliverable(t) \/ delete_campaign_deliverable(t)
    \/ create_partner(t) \/ update_partner_details(t)

\* The rows the next statement of t has to lock.
CampaignNeeds(t) ==
    CASE At(t, "begin") /\ Do(t) \in {"plan", "start", "complete", "cancel"} -> {Row(t)}
      [] At(t, "lines") -> LinesOf(t, Row(t))
      [] At(t, "line") /\ Do(t) \in {"pay partner", "promise", "save", "remove"} ->
            {IF Do(t) = "pay partner" THEN Sent(t).line ELSE IF Do(t) = "promise" THEN Sent(t) ELSE Own(t).line}
      [] At(t, "write") /\ Do(t) \in {"pay partner", "promise", "remove"} -> {Row(t)}
      [] OTHER -> {}
=============================================================================
