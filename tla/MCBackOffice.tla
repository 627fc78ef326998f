---------------------------- MODULE MCBackOffice ----------------------------
(***************************************************************************)
(* An instance of BackOffice for TLC: one sub-category that moves between  *)
(* two categories, a product in stock and one that is not, an aisle that   *)
(* moves between two warehouses, and documents about them.                 *)
(***************************************************************************)
EXTENDS BackOffice

CONSTANTS
    c1, c2, c3,         \* categories, the last to be created
    s1, s2,             \* sub-categories
    b1, b2,             \* brands
    p, q, n,            \* products
    w1, w2, w3,         \* warehouses
    a1, a2,             \* aisles
    v1, v2,             \* suppliers
    o1, o2, o3,         \* purchase orders
    d1, d2, d3,         \* disposals
    j1, j2, j3,         \* adjustments
    fp, fq, fn          \* figures of the products

MCProductOf == [b \in {1, 2, 3} |-> IF b = 3 THEN q ELSE p]
MCStats == (p :> fp) @@ (q :> fq) @@ (n :> fn)
MCRows == {c1, c2, c3, s1, s2, b1, b2, p, q, n, w1, w2, w3, a1, a2, v1, v2,
           o1, o2, o3, d1, d2, d3, j1, j2, j3, fp, fq, fn, 1, 2, 3}

Root(is) == [is |-> is, version |-> 0]
Out(batch) == [way |-> "out", batch |-> batch]
Spot(product, warehouse, aisle) == [product |-> product, warehouse |-> warehouse, aisle |-> aisle]

\* Only o1 names the aisle or not, as the opening has it.
Stand(aisle) ==
    [r \in MCRows |->
        CASE r \in {c3, b2, w3, v2} -> Root("None")
          [] r \in {c1, c2, b1, w1, w2, v1} -> Root("Active")
          [] r \in {s1, s2} -> [is |-> IF r = s1 THEN "Active" ELSE "None", category |-> c1, version |-> 0]
          [] r \in {p, q} -> [is |-> "Active", subCategory |-> s1, category |-> c1, brand |-> Nothing, version |-> 0]
          [] r = n -> [is |-> "None", subCategory |-> s1, category |-> c1, brand |-> Nothing, version |-> 0]
          [] r \in {a1, a2} -> [is |-> IF r = a1 THEN "Active" ELSE "None", warehouse |-> w1, version |-> 0]
          [] r = o1 -> [is |-> "Submitted", supplier |-> v1, lines |-> <<Spot(p, w1, aisle)>>, made |-> << >>, paid |-> FALSE, version |-> 0]
          [] r \in {o2, o3} -> [is |-> IF r = o2 THEN "Draft" ELSE "None", supplier |-> v1, lines |-> << >>, made |-> << >>, paid |-> FALSE, version |-> 0]
          [] r \in {d1, d2} -> [is |-> "Submitted", lines |-> IF r = d1 THEN <<Out(2)>> ELSE <<Out(2), Out(1)>>, version |-> 0]
          [] r = d3 -> [is |-> "None", lines |-> << >>, version |-> 0]
          [] r = j1 -> [is |-> "Submitted", lines |-> <<[way |-> "new", at |-> Spot(q, w1, a1)], Out(2)>>, made |-> << >>, version |-> 0]
          [] r = j2 -> [is |-> "Draft", lines |-> <<[way |-> "in", batch |-> 3]>>, made |-> << >>, version |-> 0]
          [] r = j3 -> [is |-> "None", lines |-> << >>, made |-> << >>, version |-> 0]
          [] r \in {1, 2} -> r
          [] OTHER -> 0]

MCOpenings == {Stand(Nothing)}

Ask(do, r, to) == [do |-> do, row |-> r, to |-> to]

Create(r, to) == Ask("create", r, to)
Save_(r, to) == Ask("save", r, to)
Click(do, r) == Ask(do, r, << >>)
Hide(r) == Save_(r, [is |-> "Inactive"])

Order(is, lines) == [is |-> is, supplier |-> v1, lines |-> lines, made |-> << >>, paid |-> FALSE, version |-> 0]
NewO3 == Create(o3, Order("Submitted", <<Spot(q, w1, a1)>>))
SubmitO2 == Save_(o2, [is |-> "Submitted", supplier |-> v1, lines |-> <<Spot(q, w1, Nothing), Spot(p, w1, a1)>>, paid |-> TRUE])
EditO1 == Save_(o1, [is |-> "Submitted", supplier |-> v1, lines |-> <<Spot(p, w2, Nothing)>>])
MoveA1 == Save_(a1, [is |-> "Active", warehouse |-> w2])
MoveS1 == Save_(s1, [is |-> "Active", category |-> c2])
HideQ == Save_(q, [is |-> "Inactive", subCategory |-> s2, brand |-> Nothing])
DeleteQ == Click("delete", q)
HideP == Save_(p, [is |-> "Inactive", subCategory |-> s1, brand |-> Nothing])
New(product, warehouse, aisle) == [way |-> "new", at |-> Spot(product, warehouse, aisle)]
SubmitJ2 == Save_(j2, [is |-> "Submitted", lines |-> <<New(q, w2, Nothing), New(q, w1, a1)>>])

\* Requests meet only on the rows they share: the catalogue, the places, the orders, the stock.
MCGroups == <<
    <<Hide(c2), Hide(b1), MoveS1, Save_(s1, [is |-> "Inactive", category |-> c1]), HideP, HideQ, DeleteQ, DeleteQ,
      Save_(q, [is |-> "Active", subCategory |-> s1, brand |-> b1]),
      Create(s2, [is |-> "Active", category |-> c2, version |-> 0]),
      Create(n, [is |-> "Active", subCategory |-> s1, category |-> c1, brand |-> b1, version |-> 0])>>,
    <<Hide(w2), Hide(v1), MoveA1, MoveA1, NewO3, SubmitO2, EditO1, SubmitJ2, Click("verify", j1),
      Create(a2, [is |-> "Active", warehouse |-> w2, version |-> 0])>>,
    <<EditO1, Save_(o1, [is |-> "Draft", supplier |-> v1, lines |-> << >>, paid |-> FALSE]), Ask("pay", o1, [paid |-> TRUE]), Click("cancel", o1), Click("verify", o1), Click("verify", o1),
      NewO3, NewO3, SubmitO2, DeleteQ>>,
    <<Save_(d1, [is |-> "Submitted", lines |-> <<Out(1)>>]), Click("approve", d1), Click("approve", d1), Click("approve", d2),
      Click("reject", d1), Click("cancel", d1), Create(d3, [is |-> "Submitted", lines |-> <<Out(1)>>, version |-> 0]),
      Save_(j2, [is |-> "Submitted", lines |-> <<[way |-> "in", batch |-> 3]>>]), Click("verify", j2), Click("verify", j1),
      Click("verify", j1), Click("reject", j1), Click("cancel", j1),
      Create(j3, [is |-> "Submitted", lines |-> <<Out(3)>>, made |-> << >>, version |-> 0]), DeleteQ, HideP>>,
    <<Create(c3, Root("Active")), Create(b2, Root("Active")), Create(w3, Root("Active")), Create(v2, Root("Active"))>> >>

\* Three requests of a group; which of them asks for what does not matter.
MCRequests == 1..3
MCStarts ==
    UNION {{[t \in MCRequests |-> group[f[t]]] : f \in {g \in [MCRequests -> DOMAIN group] : g[1] < g[2] /\ g[2] < g[3]}} :
        group \in {MCGroups[i] : i \in DOMAIN MCGroups}}
=============================================================================
