------------------------------ MODULE BackOffice ------------------------------
(***************************************************************************)
(* The back office at work: the handlers of Catalogue, Purchasing and      *)
(* Corrections on the same rows at the same time.                          *)
(***************************************************************************)
EXTENDS Corrections

CONSTANTS
    Starts,     \* what the requests may ask for together
    Openings    \* where the rows may stand at the start

\* A request that creates a row has an id of its own for it, except that a purchase order's form sends
\* its id, so that the same create can come twice.
ASSUME OwnIdsAssumption ==
    \A start \in Starts : \A t, u \in Requests :
        t # u /\ start[t].do = "create" /\ start[u].do = "create" /\ start[t].row = start[u].row =>
            start[t].row \in PurchaseOrders

vars == <<db, lock, tx, job, shared>>

Init ==
    /\ db \in Openings
    /\ Begun("begin")
    /\ NothingShared
    /\ job \in Starts

Needs(t) == FormNeeds(t) \cup CatalogueNeeds(t) \cup PurchasingNeeds(t) \cup CorrectionsNeeds(t)
Wants(t) == CatalogueWants(t) \cup CorrectionsWants(t)

Next ==
    \/ \E t \in Requests :
        \/ FormStep(t) \/ CatalogueStep(t) \/ PurchasingStep(t) \/ CorrectionsStep(t)
        \/ Finish(t) \/ LoseConnection(t) \/ BreakCycle(t, Needs, Wants)
    \/ AllAnswered /\ UNCHANGED shared

Spec == Init /\ [][Next]_vars

-----------------------------------------------------------------------------
(* Properties *)

\* Every row holds what its table may, a row has at most one writer and then no other reader FOR SHARE,
\* and a request has its own version of exactly the rows it locked.
TypeOK ==
    /\ \A r \in Rows : db[r] \in RowType(r)
    /\ \A r \in Rows : lock[r] # NoRequest => shared[r] \subseteq {lock[r]}
    /\ \A t \in Requests : {r \in Rows : lock[r] = t} = DOMAIN tx[t].mine

\* A product's category is always the one its sub-category is under, however the moves of a sub-category
\* meet the products that are put in it or taken out (update-sub-category-details.js: "Left behind, the
\* old category's page would keep counting these products").
CategoryOfItsSubCategory ==
    \A p \in Products : db[p].is # "None" => db[p].category = db[db[p].subCategory].category

\* The rows are well formed, and the catalogue's two ways to a category lead to one.
CatalogueAgrees == TypeOK /\ CategoryOfItsSubCategory

\* The rows of R that this step puts under another parent have, from now on, one that is Active.
ActiveParents(R, parent) ==
    \A r \in R :
        LET new == db'[r] # db[r] /\ (db[r].is = "None" \/ (db'[r])[parent] # (db[r])[parent])
        IN  new => (db'[r])[parent] = Nothing \/ db'[(db'[r])[parent]].is = "Active"

\* A row is put under a parent only while that parent is Active: none is turned Inactive between the
\* check and the write (the FOR SHARE locks of parent.js and parents.js).
OnlyUnderActive ==
    [][/\ ActiveParents(Aisles, "warehouse") /\ ActiveParents(SubCategories, "category")
       /\ ActiveParents(Products, "subCategory") /\ ActiveParents(Products, "category")
       /\ ActiveParents(Products, "brand")]_vars

\* Nobody's change is overwritten unseen: a form that is saved was opened on the row as it stands
\* (refuse_stale).
NoLostEdit ==
    [][\A t \in Requests : Do(t) \in {"save", "pay"} /\ At(t, "commit") /\ tx'[t].pc = "done" =>
        db[Row(t)].version = tx[t].seen]_vars

\* Whatever a save was checked against, the parent's state or the form as it was opened, still stands when it is written.
ChecksStillStand == OnlyUnderActive /\ NoLostEdit

\* How often lines in `way` name batch b.
Times(lines, way, b) == Cardinality({i \in DOMAIN lines : lines[i].way = way /\ lines[i].batch = b})
OfBatch(lines) == SelectSeq(lines, LAMBDA line : line.way # "new")

\* The units at the start: a batch's and, with those a document had applied then, what it is made of.
Applied(b) ==
    LET verified == {a \in Adjustments : db[a].is = "Verified"}
        into == MapThenSumSet(LAMBDA a : Times(OfBatch(db[a].lines), "in", b), verified)
        out == MapThenSumSet(LAMBDA a : Times(OfBatch(db[a].lines), "out", b), verified)
        thrown == MapThenSumSet(LAMBDA d : Times(db[d].lines, "out", b), {d \in Disposals : db[d].is = "Approved"})
    IN  into - out - thrown

\* Stock is what the documents say: every verified or approved one is applied once and in full, the
\* others not at all, whoever presses the button twice, edits or cancels meanwhile (the guarded
\* UPDATE that comes first in verify and approve).
DocumentsAppliedOnce ==
    /\ \E start \in Openings : \A b \in Batches : db[b] = start[b] + Applied(b)
    /\ \A o \in PurchaseOrders : Len(db[o].made) <= IF db[o].is = "Verified" THEN Len(db[o].lines) ELSE 0
    /\ \A a \in Adjustments : db[a].made = IF db[a].is = "Verified" THEN NewPlaces(db[a].lines) ELSE << >>
    /\ \A p \in Products :
        db[Stats[p]] = MapThenSumSet(LAMBDA d : Cardinality({i \in DOMAIN db[d].lines : LineProduct(db[d].lines[i]) = p}),
                                     {d \in Disposals : db[d].is = "Approved"})

\* No correction leaves units on a deleted product: putting stock back waits for a delete in flight, and
\* a delete refuses a product with stock (stock-movement.js on refuseDeletedProduct).
DeletedGetsNoStock ==
    \A p \in Products : db[p].is = "Deleted" =>
        /\ \A b \in Batches : ProductOf[b] = p => db[b] = 0
        /\ \A a \in Adjustments, i \in 1..9 : i \in DOMAIN db[a].made => db[a].made[i].product # p
=============================================================================
