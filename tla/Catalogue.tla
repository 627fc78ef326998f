------------------------------ MODULE Catalogue ------------------------------
(***************************************************************************)
(* The configuration handlers: categories, sub-categories, brands,         *)
(* products, warehouses, aisles and suppliers are created, edited on a     *)
(* form and, products, deleted.                                            *)
(*                                                                         *)
(* Names, codes and photos are left out: that they are unique is the       *)
(* business of the database's indexes.                                     *)
(*                                                                         *)
(* The rows here are all the back office's: also where stock lies, and the *)
(* documents that change it, whose handlers Purchasing and Corrections     *)
(* have.  A line stands for one unit.  A document's lines are kept with    *)
(* it: they are replaced wholesale, under the lock of the document's row.  *)
(* The batches a document makes are its `made`: rows nobody else locks.    *)
(***************************************************************************)
EXTENDS Forms

CONSTANTS
    Categories, SubCategories, Brands, Products,    \* configuration: what is sold
    Warehouses, Aisles, Suppliers,                  \* configuration: where, and from whom
    PurchaseOrders, Disposals, Adjustments,         \* documents
    Batches,            \* batches there at the start, numbered as approvals sort them
    ProductOf,          \* their products
    Stats,              \* Stats[p] is the product_stats row of product p
    Nothing             \* NULL: no brand, no aisle, no batch

Roots == Categories \cup Brands \cup Warehouses \cup Suppliers
StockRows ==
    Roots \cup SubCategories \cup Aisles \cup Products \cup PurchaseOrders \cup Disposals \cup Adjustments
    \cup Batches \cup {Stats[p] : p \in Products}

ASSUME BackOfficeAssumption ==
    /\ Batches \subseteq Nat
    /\ ProductOf \in [Batches -> Products]
    /\ StockRows \subseteq Rows

Kept == {"None", "Active", "Inactive"}

\* Where a unit was put, by a purchase order's line or a line of an adjustment that opens a batch.
Place == [product : Products, warehouse : Warehouses, aisle : Aisles \cup {Nothing}]

\* A line of an adjustment: units out of a batch, into a batch, or into a new one.
AdjustmentLine ==
    [way : {"in", "out"}, batch : Batches] \cup [way : {"new"}, at : Place]

\* Every row one may edit has a version, its xmin; `is` is "None" until it is inserted.
RowType(r) ==
    CASE r \in Roots -> [is : Kept, version : Nat]
      [] r \in SubCategories -> [is : Kept, category : Categories, version : Nat]
      [] r \in Aisles -> [is : Kept, warehouse : Warehouses, version : Nat]
      [] r \in Products -> [is : Kept \cup {"Deleted"}, subCategory : SubCategories, category : Categories,
                            brand : Brands \cup {Nothing}, version : Nat]
      [] r \in PurchaseOrders -> [is : {"None", "Draft", "Submitted", "Verified", "Cancelled"}, supplier : Suppliers,
                                  lines : Seq(Place), made : Seq(Place), paid : BOOLEAN, version : Nat]
      [] r \in Disposals -> [is : {"None", "Draft", "Submitted", "Approved", "Rejected", "Cancelled"},
                             lines : Seq([way : {"out"}, batch : Batches]), version : Nat]
      [] r \in Adjustments -> [is : {"None", "Draft", "Submitted", "Verified", "Rejected", "Cancelled"},
                               lines : Seq(AdjustmentLine), made : Seq(Place), version : Nat]
      [] OTHER -> Nat       \* a batch's units, a product's figures

\* What a statement counts: the orders a product is on, its units, the lines and batches that name an aisle.
OnOrder(t, p) ==
    {o \in PurchaseOrders : View(t, o).is = "Submitted" /\ \E i \in DOMAIN View(t, o).lines : View(t, o).lines[i].product = p}

MadeOf(t, p) ==
    {<<d, i>> \in (PurchaseOrders \cup Adjustments) \X (1..9) :
        i \in DOMAIN View(t, d).made /\ View(t, d).made[i].product = p}

OnHand(t, p) ==
    MapThenSumSet(LAMBDA b : View(t, b), {b \in Batches : ProductOf[b] = p}) + Cardinality(MadeOf(t, p))

Names(places, a) == \E i \in DOMAIN places : places[i].aisle = a

-----------------------------------------------------------------------------
(* What has no parent *)

CreateRoot(t, R) == At(t, "begin") /\ Asks(t, "create", R) /\ Insert(t, To(t, "commit"))
UpdateRoot(t, R) == At(t, "check") /\ Asks(t, "save", R) /\ Save(t, << >>, "commit")

create_category(t) == CreateRoot(t, Categories)
create_brand(t) == CreateRoot(t, Brands)
create_warehouse(t) == CreateRoot(t, Warehouses)
create_supplier(t) == CreateRoot(t, Suppliers)

update_category_details(t) == UpdateRoot(t, Categories)
update_brand_details(t) == UpdateRoot(t, Brands)
update_warehouse_details(t) == UpdateRoot(t, Warehouses)
update_supplier_details(t) == UpdateRoot(t, Suppliers)

-----------------------------------------------------------------------------
(* Aisles: under a warehouse *)

create_aisle(t) ==
    /\ Asks(t, "create", Aisles)
    /\ \/ At(t, "begin") /\ RequireActive(t, Sent(t).warehouse, "write")
       \/ At(t, "write") /\ Insert(t, To(t, "commit"))

\* A line or a batch names the aisle.
HasStock(t) ==
    \/ \E o \in PurchaseOrders : Names(View(t, o).lines, Row(t))
    \/ \E d \in PurchaseOrders \cup Adjustments : Names(View(t, d).made, Row(t))

refuse_move_with_stock(t) == IF HasStock(t) THEN Refuse(t) ELSE Look(t, To(t, "parent"))

update_aisle_details(t) ==
    LET moves == Sent(t).warehouse # Own(t).warehouse
    IN  /\ Asks(t, "save", Aisles)
        /\ \/ At(t, "check") /\ ~moves /\ Save(t, << >>, "commit")
           \/ At(t, "check") /\ moves /\ refuse_move_with_stock(t)
           \/ At(t, "parent") /\ RequireActive(t, Sent(t).warehouse, "write")
           \/ At(t, "write") /\ Save(t, << >>, "commit")

-----------------------------------------------------------------------------
(* Sub-categories: under a category; their products carry it too *)

create_sub_category(t) ==
    /\ Asks(t, "create", SubCategories)
    /\ \/ At(t, "begin") /\ RequireActive(t, Sent(t).category, "write")
       \/ At(t, "write") /\ Insert(t, To(t, "commit"))

\* Faulty form of FindProducts: it takes the Active ones only.
FindActiveProducts(t) ==
    LET found == {p \in Products : View(t, p).is = "Active" /\ View(t, p).subCategory = Row(t)}
    IN  Look(t, [To(t, IF found = {} THEN "commit" ELSE "move") EXCEPT !.todo = found])

\* The products that the UPDATE's snapshot finds under the sub-category.
FindProducts(t) ==
    LET found == {p \in Products : View(t, p).is # "None" /\ View(t, p).subCategory = Row(t)}
    IN  Look(t, [To(t, IF found = {} THEN "commit" ELSE "move") EXCEPT !.todo = found])

\* Each is locked, and moves along unless it left the sub-category meanwhile.
MoveProduct(t, p) ==
    LET left == tx[t].todo \ {p}
        product == View(t, p)
    IN  /\ p \in tx[t].todo
        /\ Change(t,
               p :> IF product.subCategory = Row(t) THEN Updated(product, [category |-> Sent(t).category]) ELSE product,
               [To(t, IF left = {} THEN "commit" ELSE "move") EXCEPT !.todo = left])

update_sub_category_details(t) ==
    LET moves == Sent(t).category # Own(t).category
    IN  /\ Asks(t, "save", SubCategories)
        /\ \/ At(t, "check") /\ ~moves /\ Save(t, << >>, "commit")
           \/ At(t, "check") /\ moves /\ RequireActive(t, Sent(t).category, "write")
           \/ At(t, "write") /\ Save(t, << >>, "find")
           \/ At(t, "find") /\ FindProducts(t)
           \/ At(t, "move") /\ \E p \in Products : MoveProduct(t, p)

-----------------------------------------------------------------------------
(* Products: under a sub-category and its category, and perhaps a brand *)

\* The statement's snapshot joins the sub-category with its category ...
FindParents(t) == Look(t, [To(t, "parents") EXCEPT !.fit = db[Sent(t).subCategory].category])

\* ... and locks both, one after the other in the code; a sub-category that was moved meanwhile no
\* longer joins, and is refused like one that is missing.
require_active_sub_category(t, next) ==
    LET parents == {Sent(t).subCategory, tx[t].fit}
    IN  IF db[Sent(t).subCategory].category = tx[t].fit /\ \A r \in parents : db[r].is = "Active"
        THEN Share(t, parents, To(t, next))
        ELSE (\A r \in parents : Free(t, r)) /\ Refuse(t)

AfterParents(t, brand) == IF Sent(t).brand \in {Nothing, brand} THEN "write" ELSE "brand"

create_product(t) ==
    /\ Asks(t, "create", Products)
    /\ \/ At(t, "begin") /\ FindParents(t)
       \/ At(t, "parents") /\ require_active_sub_category(t, AfterParents(t, Nothing))
       \/ At(t, "brand") /\ RequireActive(t, Sent(t).brand, "write")
       \/ /\ At(t, "write")
          /\ Change(t, Row(t) :> [Sent(t) EXCEPT !.category = tx[t].fit, !.version = 1] @@ Stats[Row(t)] :> 0, To(t, "commit"))

update_product_details(t) ==
    LET category == IF Sent(t).subCategory = Own(t).subCategory THEN Own(t).category ELSE tx[t].fit
        next == AfterParents(t, Own(t).brand)
    IN  /\ Asks(t, "save", Products)
        /\ \/ At(t, "check") /\ Own(t).is = "Deleted" /\ Refuse(t)
           \/ /\ At(t, "check") /\ Own(t).is # "Deleted"
              /\ IF Sent(t).subCategory = Own(t).subCategory THEN Look(t, To(t, next)) ELSE FindParents(t)
           \/ At(t, "parents") /\ require_active_sub_category(t, next)
           \/ At(t, "brand") /\ RequireActive(t, Sent(t).brand, "write")
           \/ At(t, "write") /\ Save(t, [category |-> category], "commit")

\* A product in stock or on a submitted order is refused (one that is held too: StockTx has the holds).
delete_product(t) ==
    LET there == Own(t).is \in {"Active", "Inactive"}
        gone == OnOrder(t, Row(t)) = {} /\ OnHand(t, Row(t)) = 0
    IN  /\ Asks(t, "delete", Products)
        /\ \/ At(t, "begin") /\ there /\ Change(t, Row(t) :> Own(t), To(t, "count"))
           \/ At(t, "begin") /\ ~there /\ Refuse(t)
           \/ At(t, "count") /\ gone /\ Change(t, Row(t) :> Updated(Own(t), [is |-> "Deleted"]), To(t, "commit"))
           \/ At(t, "count") /\ ~gone /\ Refuse(t)

CatalogueStep(t) ==
    \/ create_category(t) \/ create_brand(t) \/ create_warehouse(t) \/ create_supplier(t)
    \/ update_category_details(t) \/ update_brand_details(t) \/ update_warehouse_details(t) \/ update_supplier_details(t)
    \/ create_aisle(t) \/ update_aisle_details(t)
    \/ create_sub_category(t) \/ update_sub_category_details(t)
    \/ create_product(t) \/ update_product_details(t) \/ delete_product(t)

CatalogueNeeds(t) ==
    CASE At(t, "move") -> tx[t].todo
      [] At(t, "begin") /\ Do(t) = "delete" -> {Row(t)}
      [] OTHER -> {}

CatalogueWants(t) ==
    CASE At(t, "begin") /\ Asks(t, "create", Aisles) -> {Sent(t).warehouse}
      [] At(t, "begin") /\ Asks(t, "create", SubCategories) -> {Sent(t).category}
      [] At(t, "check") /\ Asks(t, "save", SubCategories) -> {Sent(t).category}
      [] At(t, "parent") -> {Sent(t).warehouse}
      [] At(t, "parents") -> {Sent(t).subCategory, tx[t].fit}
      [] At(t, "brand") -> {Sent(t).brand}
      [] OTHER -> {}
=============================================================================
