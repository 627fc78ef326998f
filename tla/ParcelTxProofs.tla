--------------------------- MODULE ParcelTxProofs ---------------------------
(***************************************************************************)
(* Whatever buttons are pressed at once on orders, their parcels, returns  *)
(* and delivery batches, the committed rows agree on where every parcel is,*)
(* every COMMIT is one press in the abstract shop of Parcels, which itself *)
(* keeps orders and batches in agreement, and nobody waits for each other  *)
(* in a circle but those who put orders in batches, and those who count    *)
(* units in rows of stock and figures.                                     *)
(*                                                                         *)
(* What a request knows between its statements is about the committed rows *)
(* and its own record (Knows); what it knows at its COMMIT is enough for   *)
(* the rows to agree after it (CommitAgrees), and leaves what the others   *)
(* know (Spares, KnowledgeOutlives).                                       *)
(***************************************************************************)
EXTENDS ParcelTx, FiniteSetTheorems, TLAPS

-----------------------------------------------------------------------------
(* Rows *)

\* Rows of different tables differ, and rows of one table differ with what they are about.
LEMMA RowNames ==
    /\ \A a, b : Order(a) = Order(b) => a = b
    /\ \A a, b : Parcel(a) = Parcel(b) => a = b
    /\ \A a, b : Batch(a) = Batch(b) => a = b
    /\ \A a, b, c, e : Entry(a, b) = Entry(c, e) => a = c /\ b = e
    /\ \A a, b, c, e : Return(a, b) = Return(c, e) => a = c /\ b = e
    /\ \A a, b : Order(a) # Parcel(b) /\ Order(a) # Batch(b) /\ Parcel(a) # Batch(b)
    /\ \A a, b, c : Order(a) # Entry(b, c) /\ Order(a) # Return(b, c)
    /\ \A a, b, c : Parcel(a) # Entry(b, c) /\ Parcel(a) # Return(b, c)
    /\ \A a, b, c : Batch(a) # Entry(b, c) /\ Batch(a) # Return(b, c)
    /\ \A a, b, c, e : Entry(a, b) # Return(c, e)
BY DEF Order, Parcel, Batch, Entry, Return

\* Rows of stock and figures are none of these.
LEMMA StockNames ==
    /\ \A a : Order(a) \notin StockRows /\ Parcel(a) \notin StockRows /\ Batch(a) \notin StockRows
    /\ \A a, b : Entry(a, b) \notin StockRows /\ Return(a, b) \notin StockRows
BY DEF Order, Parcel, Batch, Entry, Return, Units, StockRows

\* The rows of known orders, batches and returns are rows of the database.
LEMMA RowsExist ==
    /\ \A o \in Orders : Order(o) \in Rows /\ Parcel(o) \in Rows
    /\ \A d \in DeliveryBatches : Batch(d) \in Rows /\ \A o \in Orders : Entry(d, o) \in Rows
    /\ \A o \in Orders, n \in 1..MaxReturns : Return(o, n) \in Rows
    /\ StockRows \subseteq Rows
BY ParcelRowsAssumption DEF ParcelRows

\* A standing is one pair of an order and its parcel.
LEMMA StandingPairs ==
    ASSUME NEW a, NEW b
    PROVE  (\E s \in DOMAIN Standings : Standings[s] = <<a, b>>) <=>
             \/ a = "Pending" /\ b = "None"
             \/ a = "Confirmed" /\ b = "Preparing"
             \/ a = "Dispatched" /\ b = "WithCourier"
             \/ a = "Delivered" /\ b = "Delivered"
             \/ a = "Dispatched" /\ b = "Failed"
             \/ a = "Returned" /\ b = "BackInShop"
BY DEF Standings

\* A new version hides the older one.
Newest(h, f, g) ==
    /\ DOMAIN h = DOMAIN f \cup DOMAIN g
    /\ \A r \in DOMAIN f : h[r] = f[r]
    /\ \A r \in DOMAIN g : r \notin DOMAIN f => h[r] = g[r]

\* `++` gives the newest version of every row.
LEMMA NewestCounts == ASSUME NEW f, NEW g PROVE Newest(f ++ g, f, g)
BY DEF ++, Newest

\* A statement that writes one row writes that row.
LEMMA OneVersion ==
    ASSUME NEW r, NEW v
    PROVE  DOMAIN Version(r, v) = {r} /\ Version(r, v)[r] = v
BY DEF Version

\* What an order's move writes: its row and its parcel's.
LEMMA MovedIs ==
    ASSUME NEW o, NEW s, NEW v
    PROVE  /\ DOMAIN Moved(o, s, v) = {Order(o), Parcel(o)}
           /\ Moved(o, s, v)[Order(o)] = s /\ Moved(o, s, v)[Parcel(o)] = v
<1> DEFINE f == Version(Order(o), s)
           g == Version(Parcel(o), v)
<1>1. DOMAIN f = {Order(o)} /\ f[Order(o)] = s /\ DOMAIN g = {Parcel(o)} /\ g[Parcel(o)] = v
  BY OneVersion
<1>2. Order(o) # Parcel(o)
  BY RowNames
<1>3. Newest(Moved(o, s, v), f, g)
  BY NewestCounts DEF Moved
<1> HIDE DEF f, g
<1> QED
  BY <1>1, <1>2, <1>3 DEF Newest

\* What freeing the orders S of batch d writes.
LEMMA FreeingIs ==
    ASSUME NEW d, NEW S
    PROVE  /\ DOMAIN Freeing(d, S) = {Entry(d, o) : o \in S}
           /\ \A o \in S : Freeing(d, S)[Entry(d, o)] = "Freed"
BY DEF Freeing

-----------------------------------------------------------------------------
(* The invariant *)

\* The orders a batch has, as committed.
Contents(rows, d) == {o \in Orders : rows[Entry(d, o)] = "Active"}

\* The shape of a request's own record.
IsTx(x) == x \in [pc : {x.pc}, mine : {x.mine}, todo : SUBSET Orders, fit : SUBSET Orders, seen : {x.seen}]

\* The orders a batch's request has worked through.
Worked(x) == IF x.pc \in {"work", "stock", "commit"} THEN x.fit \ x.todo ELSE {}

\* What a request knows between its statements, by its kind, as a predicate of the committed rows, its own
\* record x and what it is about. Here: that the order is still Pending, being locked.
KnowsConfirm(rows, x, o) ==
    /\ rows[Order(o)] = "Pending" /\ x.mine[Order(o)] = "Confirmed"
    /\ \/ x.pc = "parcel" /\ DOMAIN x.mine = {Order(o)}
       \/ x.pc = "commit" /\ DOMAIN x.mine = {Order(o), Parcel(o)} /\ x.mine[Parcel(o)] = "Preparing"

\* The order a request cancels is still in the shop.
KnowsCancel(rows, x, o) ==
    /\ x.pc = "commit" /\ DOMAIN x.mine = {Order(o)}
    /\ rows[Order(o)] \in {"Pending", "Confirmed"} /\ x.mine[Order(o)] = "Cancelled"

\* The request that reports a parcel undelivered has the order unchanged; once it has marked the parcel
\* failed, the parcel is with the courier for everybody else and one return is raised.
KnowsNotDelivered(rows, x, o) ==
    /\ x.mine[Order(o)] = rows[Order(o)]
    /\ \/ x.pc = "parcel" /\ DOMAIN x.mine = {Order(o)}
       \/ /\ x.pc = "commit" /\ rows[Parcel(o)] = "WithCourier"
          /\ \E n \in 1..MaxReturns :
                /\ DOMAIN x.mine = {Order(o), Parcel(o), Return(o, n)}
                /\ x.mine[Parcel(o)] = "Failed" /\ x.mine[Return(o, n)] = "Pending"

\* A request counts units only in rows of stock and figures, and has none of them locked before that.
Stocked(x) ==
    /\ x.pc = "stock" => x.seen \subseteq StockRows
    /\ x.pc \notin {"work", "stock", "commit"} => DOMAIN x.mine \cap StockRows = {}

\* Nothing is to be known of them before the first unit is counted.
LEMMA NotCounting ==
    ASSUME NEW x, x.pc # "stock", DOMAIN x.mine \cap StockRows = {}
    PROVE  Stocked(x)
BY DEF Stocked

\* The return to confirm still waits. At the COMMIT the return, the order and the parcel have all moved.
KnowsConfirmReturn(rows, x, o, n) ==
    /\ rows[Return(o, n)] = "Pending" /\ x.todo = {}
    /\ \/ x.pc \in {"snapshot", "lock"} /\ DOMAIN x.mine = {Return(o, n)}
       \/ x.pc = "parcel" /\ DOMAIN x.mine = {Return(o, n), Order(o)}
       \/ /\ x.pc \in {"stock", "commit"} /\ DOMAIN x.mine \ StockRows = {Return(o, n), Order(o), Parcel(o)}
          /\ x.mine[Return(o, n)] = "Returned" /\ x.mine[Order(o)] = "Returned" /\ x.mine[Parcel(o)] = "BackInShop"
    /\ Stocked(x)

\* The return to cancel still waits. At the COMMIT its parcel goes back to the courier.
KnowsCancelReturn(rows, x, o, n) ==
    /\ rows[Return(o, n)] = "Pending" /\ x.mine[Return(o, n)] = "Cancelled"
    /\ \/ x.pc = "parcel" /\ DOMAIN x.mine = {Return(o, n)}
       \/ x.pc = "commit" /\ DOMAIN x.mine = {Return(o, n), Parcel(o)} /\ x.mine[Parcel(o)] = "WithCourier"

\* A batch is cancelled with all the orders it had, while it is open.
KnowsCancelBatch(rows, x, d) ==
    /\ x.pc = "commit" /\ DOMAIN x.mine = {Batch(d)} \cup {Entry(d, o) : o \in Contents(rows, d)}
    /\ rows[Batch(d)] = "Open" /\ x.mine[Batch(d)] = "Cancelled"
    /\ \A o \in Contents(rows, d) : x.mine[Entry(d, o)] = "Freed"

\* Rows a batch's request may have locked.
OnTrip(x, d) ==
    /\ Batch(d) \in DOMAIN x.mine
    /\ \A r \in DOMAIN x.mine :
        r = Batch(d) \/ r \in StockRows \/ \E o \in Orders : r \in {Entry(d, o), Order(o), Parcel(o)}

\* What a batch's request has before it at each of its stages.
Staged(x) ==
    /\ x.pc \in {"select", "lock", "work", "stock", "commit"}
    /\ x.pc = "select" => x.todo = {} /\ x.fit = {}
    /\ x.pc \in {"work", "stock", "commit"} => x.todo \subseteq x.fit
    /\ x.pc = "commit" => x.todo = {}

\* A batch is made or changed: those no longer wanted are freed, those added were seen, are locked,
\* Confirmed, and were in no batch when their entry was added.
KnowsAdd(rows, x, d, status, wanted) ==
    /\ Staged(x) /\ OnTrip(x, d) /\ x.pc # "stock"
    /\ rows[Batch(d)] = status /\ x.mine[Batch(d)] = "Open"
    /\ x.pc # "select" => x.seen = wanted \ Contents(rows, d)
    /\ x.pc \in {"work", "stock", "commit"} => x.fit = x.seen
    /\ \A o \in Orders :
        /\ Parcel(o) \notin DOMAIN x.mine
        /\ Order(o) \in DOMAIN x.mine => x.mine[Order(o)] = rows[Order(o)]
        /\ o \in x.fit => Order(o) \in DOMAIN x.mine /\ rows[Order(o)] = "Confirmed"
        /\ Entry(d, o) \in DOMAIN x.mine <=> o \in Contents(rows, d) \ wanted \/ o \in Worked(x)
        /\ o \in Contents(rows, d) \ wanted => x.mine[Entry(d, o)] = "Freed"
        /\ o \in Worked(x) => x.mine[Entry(d, o)] = "Active" /\ \A e \in DeliveryBatches : rows[Entry(e, o)] # "Active"

\* Handovers and deliveries lock their orders oldest first.
InTurnSoFar(x) == x.pc = "lock" => \A o \in Orders : Order(o) \in DOMAIN x.mine => \A p \in x.todo : o < p

\* A batch is handed over: it locked the orders the batch has, those Confirmed fit and go, the others
\* are freed; an order that did not look ready when it was selected cannot be found Confirmed.
KnowsHandOver(rows, x, d) ==
    /\ Staged(x) /\ OnTrip(x, d) /\ InTurnSoFar(x) /\ Stocked(x)
    /\ rows[Batch(d)] = "Open" /\ x.mine[Batch(d)] = "HandedOver"
    /\ x.pc = "lock" => x.todo \subseteq Contents(rows, d)
    /\ x.pc \in {"work", "stock", "commit"} => x.fit # {}
    /\ \A o \in Orders :
        /\ Order(o) \in DOMAIN x.mine <=>
             o \in Contents(rows, d) /\ (x.pc \in {"work", "stock", "commit"} \/ (x.pc = "lock" /\ o \notin x.todo))
        /\ Order(o) \in DOMAIN x.mine => x.mine[Order(o)] = IF o \in Worked(x) THEN "Dispatched" ELSE rows[Order(o)]
        /\ o \in x.fit <=> Order(o) \in DOMAIN x.mine /\ rows[Order(o)] = "Confirmed"
        /\ Parcel(o) \in DOMAIN x.mine <=> o \in Worked(x)
        /\ o \in Worked(x) => x.mine[Parcel(o)] = "WithCourier"
        /\ Entry(d, o) \in DOMAIN x.mine <=> x.pc \in {"work", "stock", "commit"} /\ o \in Contents(rows, d) \ x.fit
        /\ Entry(d, o) \in DOMAIN x.mine => x.mine[Entry(d, o)] = "Freed"
        /\ x.pc = "lock" /\ o \in Contents(rows, d) \ x.seen => rows[Order(o)] # "Confirmed"

\* A batch is delivered: it locked orders of the batch, and the ones it worked through were with the
\* courier.
KnowsDeliver(rows, x, d) ==
    /\ Staged(x) /\ OnTrip(x, d) /\ InTurnSoFar(x) /\ Stocked(x)
    /\ rows[Batch(d)] = "HandedOver" /\ x.mine[Batch(d)] = "HandedOver"
    /\ x.pc = "lock" => x.todo \subseteq Contents(rows, d)
    /\ x.pc \in {"work", "stock", "commit"} => x.fit # {}
    /\ \A o \in Orders :
        /\ Order(o) \in DOMAIN x.mine => o \in Contents(rows, d) /\ x.pc # "select"
        /\ Order(o) \in DOMAIN x.mine => x.mine[Order(o)] = IF o \in Worked(x) THEN "Delivered" ELSE rows[Order(o)]
        /\ o \in x.fit => Order(o) \in DOMAIN x.mine
        /\ Parcel(o) \in DOMAIN x.mine <=> o \in Worked(x)
        /\ o \in Worked(x) => /\ x.mine[Parcel(o)] = "Delivered"
                              /\ rows[Order(o)] = "Dispatched" /\ rows[Parcel(o)] = "WithCourier"
        /\ Entry(d, o) \notin DOMAIN x.mine

\* What a request at work knows, whatever its kind.
Working(rows, x, j) ==
    /\ j.kind = "confirm" => KnowsConfirm(rows, x, j.order)
    /\ j.kind = "cancel" => KnowsCancel(rows, x, j.order)
    /\ j.kind = "notDelivered" => KnowsNotDelivered(rows, x, j.order)
    /\ j.kind = "confirmReturn" => KnowsConfirmReturn(rows, x, j.order, j.nth)
    /\ j.kind = "cancelReturn" => KnowsCancelReturn(rows, x, j.order, j.nth)
    /\ j.kind \in {"create", "change"} =>
        KnowsAdd(rows, x, j.batch, IF j.kind = "create" THEN "None" ELSE "Open", j.wanted)
    /\ j.kind = "cancelBatch" => KnowsCancelBatch(rows, x, j.batch)
    /\ j.kind = "handOver" => KnowsHandOver(rows, x, j.batch)
    /\ j.kind = "deliver" => KnowsDeliver(rows, x, j.batch)

\* Where a request has nothing locked.
Resting == {"first", "done", "failed"}

\* What a request knows wherever it is.
Knows(rows, x, j) ==
    /\ IsTx(x)
    /\ x.pc \in Resting => x = Blank(x.pc)
    /\ x.pc \notin Resting => Working(rows, x, j)

\* The inductive invariant: rows have their types, the committed rows agree, and every request knows what
\* its kind is to know.
PInv ==
    /\ TypeOK /\ RowsAgree(db)
    /\ job \in [Requests -> Jobs]
    /\ tx = [t \in Requests |-> tx[t]]
    /\ \A t \in Requests : Knows(db, tx[t], job[t])

-----------------------------------------------------------------------------
(* One statement of one request *)

\* A step of t that commits nothing: t's record becomes y, and t has locked what y has versions of.
Quiet(t, y) ==
    /\ db' = db /\ job' = job /\ tx' = [tx EXCEPT ![t] = y]
    /\ DOMAIN y.mine \subseteq Rows
    /\ lock' \in [Rows -> Requests \cup {NoRequest}]
    /\ \A r \in Rows : lock'[r] = t <=> r \in DOMAIN y.mine
    /\ \A r \in Rows : \A u \in Requests : u # t => (lock'[r] = u <=> lock[r] = u)

\* The record after a statement that locks.
LEMMA Advanced ==
    ASSUME NEW x, IsTx(x), NEW new
    PROVE  LET y == [x EXCEPT !.mine = new ++ @] IN
           IsTx(y) /\ y.pc = x.pc /\ y.mine = new ++ x.mine /\ y.todo = x.todo /\ y.fit = x.fit /\ y.seen = x.seen
BY DEF IsTx

\* A request that only moves on keeps what it has.
LEMMA MovedOn ==
    ASSUME NEW x, IsTx(x), NEW pc
    PROVE  LET y == [x EXCEPT !.pc = pc] IN
           IsTx(y) /\ y.pc = pc /\ y.mine = x.mine /\ y.todo = x.todo /\ y.fit = x.fit /\ y.seen = x.seen
BY DEF IsTx

\* The record of a request with nothing locked.
LEMMA BlankIs ==
    ASSUME NEW pc
    PROVE  /\ IsTx(Blank(pc)) /\ Blank(pc).pc = pc /\ DOMAIN Blank(pc).mine = {}
           /\ Blank(pc).todo = {} /\ Blank(pc).fit = {} /\ Blank(pc).seen = {}
BY DEF IsTx, Blank

\* A statement that locks rows commits nothing, and leaves its versions in the request's record.
LEMMA WriteQuiet ==
    ASSUME PInv, NEW t \in Requests, NEW new, NEW next, Write(t, new, next),
           IsTx(next), next.mine = tx[t].mine, DOMAIN new \subseteq Rows
    PROVE  Quiet(t, [next EXCEPT !.mine = new ++ @])
<1> DEFINE y == [next EXCEPT !.mine = new ++ @]
<1>1. y.mine = new ++ tx[t].mine
  BY Advanced
<1>2. DOMAIN y.mine = DOMAIN new \cup DOMAIN tx[t].mine
  <2>1. PICK f : f = new ++ tx[t].mine
    OBVIOUS
  <2>2. DOMAIN f = DOMAIN new \cup DOMAIN tx[t].mine
    BY <2>1, NewestCounts DEF Newest
  <2>3. y.mine = f
    BY <1>1, <2>1
  <2> HIDE DEF y
  <2> QED
    BY <2>2, <2>3
<1>3. \A u \in Requests : {r \in Rows : lock[r] = u} = DOMAIN tx[u].mine
  BY DEF PInv, TypeOK
<1>4. db' = db /\ job' = job /\ tx' = [tx EXCEPT ![t] = y]
  BY DEF Write
<1>5. /\ lock' = [r \in Rows |-> IF r \in DOMAIN new THEN t ELSE lock[r]]
      /\ \A r \in DOMAIN new : lock[r] \in {NoRequest, t}
  BY DEF Write, Free
<1>6. lock \in [Rows -> Requests \cup {NoRequest}] /\ NoRequest \notin Requests
  BY ReadCommittedAssumption DEF PInv, TypeOK
<1> HIDE DEF y
<1>7. lock' \in [Rows -> Requests \cup {NoRequest}]
  BY <1>5, <1>6
<1>8. \A r \in Rows : lock'[r] = t <=> r \in DOMAIN y.mine
  BY <1>2, <1>3, <1>5
<1>9. \A r \in Rows : \A u \in Requests : u # t => (lock'[r] = u <=> lock[r] = u)
  BY <1>5, <1>6
<1>10. DOMAIN y.mine \subseteq Rows
  BY <1>2, <1>3
<1> QED
  BY <1>4, <1>7, <1>8, <1>9, <1>10 DEF Quiet, y

\* A statement that reads commits nothing.
LEMMA ReadQuiet ==
    ASSUME PInv, NEW t \in Requests, NEW next, Read(t, next), next.mine = tx[t].mine
    PROVE  Quiet(t, next)
<1>1. {r \in Rows : lock[r] = t} = DOMAIN tx[t].mine /\ lock \in [Rows -> Requests \cup {NoRequest}]
  BY DEF PInv, TypeOK
<1> QED
  BY <1>1 DEF Read, Quiet

\* A ROLLBACK commits nothing.
LEMMA EndQuiet ==
    ASSUME PInv, NEW t \in Requests, NEW pc, End(t, pc), UNCHANGED db
    PROVE  Quiet(t, Blank(pc))
<1>1. lock \in [Rows -> Requests \cup {NoRequest}] /\ NoRequest \notin Requests
  BY ReadCommittedAssumption DEF PInv, TypeOK
<1> QED
  BY <1>1, BlankIs DEF End, Quiet

\* A step that commits nothing keeps the invariant if its own request still knows what it is to know:
\* what the others know is about the committed rows and their own records.
LEMMA QuietKeeps ==
    ASSUME PInv, NEW t \in Requests, NEW y, Quiet(t, y), Knows(db, y, job[t])
    PROVE  PInv'
<1>1. tx' = [tx EXCEPT ![t] = y] /\ tx = [u \in Requests |-> tx[u]]
  BY DEF Quiet, PInv
<1>2. tx' = [u \in Requests |-> IF u = t THEN y ELSE tx[u]]
  BY <1>1
<1>3. tx'[t] = y /\ \A u \in Requests : u # t => tx'[u] = tx[u]
  BY <1>2
<1>4. tx' = [u \in Requests |-> tx'[u]]
  BY <1>2
<1>5. TypeOK'
  <2>1. RowTypes(db')
    BY DEF PInv, Quiet, TypeOK
  <2>2. ASSUME NEW u \in Requests
        PROVE  {r \in Rows : lock'[r] = u} = DOMAIN tx'[u].mine
    <3>1. CASE u = t
      BY <1>3, <3>1 DEF Quiet
    <3>2. CASE u # t
      <4>1. {r \in Rows : lock[r] = u} = DOMAIN tx[u].mine
        BY DEF PInv, TypeOK
      <4> QED
        BY <1>3, <3>2, <4>1 DEF Quiet
    <3> QED
      BY <3>1, <3>2
  <2> QED
    BY <2>1, <2>2 DEF TypeOK, Quiet
<1>6. \A u \in Requests : Knows(db', tx'[u], job'[u])
  BY <1>3 DEF PInv, Quiet
<1> QED
  BY <1>4, <1>5, <1>6 DEF PInv, Quiet

\* A ROLLBACK keeps the invariant.
LEMMA EndKeeps ==
    ASSUME PInv, NEW t \in Requests, NEW pc \in Resting, End(t, pc), UNCHANGED db
    PROVE  PInv'
<1>1. Knows(db, Blank(pc), job[t])
  BY BlankIs DEF Knows
<1> QED
  BY <1>1, EndQuiet, QuietKeeps

\* A refusal keeps the invariant.
LEMMA FailKeeps ==
    ASSUME PInv, NEW t \in Requests, Fail(t)
    PROVE  PInv'
BY EndKeeps DEF Fail, Resting

\* What a request's statement starts from.
LEMMA About ==
    ASSUME PInv, NEW t \in Requests
    PROVE  /\ IsTx(tx[t]) /\ Knows(db, tx[t], job[t])
           /\ DOMAIN tx[t].mine \subseteq Rows
           /\ \A r \in Rows : View(t, r) = IF r \in DOMAIN tx[t].mine THEN tx[t].mine[r] ELSE db[r]
           /\ job[t].kind \in Kinds /\ job[t].wanted \subseteq Orders /\ job[t].batch \in DeliveryBatches
           /\ job[t].kind \in {"confirm", "cancel", "notDelivered", "confirmReturn", "cancelReturn"} => job[t].order \in Orders
           /\ job[t].kind \in {"confirmReturn", "cancelReturn"} => job[t].nth \in 1..MaxReturns
<1>1. {r \in Rows : lock[r] = t} = DOMAIN tx[t].mine
  BY DEF PInv, TypeOK
<1>2. job[t] \in JobType /\ job[t] \in Jobs
  BY JobsAssumption DEF PInv
<1>3. job[t].kind \in Kinds /\ job[t].wanted \subseteq Orders /\ job[t].batch \in DeliveryBatches
  BY <1>2 DEF JobType
<1>4. Knows(db, tx[t], job[t]) /\ IsTx(tx[t])
  BY DEF PInv, Knows
<1>5. \A r \in Rows : View(t, r) = IF r \in DOMAIN tx[t].mine THEN tx[t].mine[r] ELSE db[r]
  BY <1>1 DEF View
<1> QED
  BY <1>1, <1>2, <1>3, <1>4, <1>5, JobsAssumption

\* Before its first statement a request has nothing.
LEMMA AtFirst ==
    ASSUME PInv, NEW t \in Requests, At(t, "first")
    PROVE  tx[t] = Blank("first") /\ DOMAIN tx[t].mine = {} /\ tx[t].todo = {} /\ tx[t].fit = {}
<1>1. tx[t] = Blank("first")
  BY About DEF Knows, At, Resting
<1> QED
  BY <1>1, BlankIs

\* A statement that locks `new` leaves the invariant if it leaves what its request knows.
LEMMA WriteKeeps ==
    ASSUME PInv, NEW t \in Requests, NEW new, NEW next, Write(t, new, next),
           IsTx(next), next.mine = tx[t].mine, DOMAIN new \subseteq Rows, next.pc \notin Resting,
           \A y : /\ IsTx(y) /\ y.pc = next.pc /\ y.todo = next.todo /\ y.fit = next.fit /\ y.seen = next.seen
                  /\ Newest(y.mine, new, tx[t].mine)
                  => Working(db, y, job[t])
    PROVE  PInv'
<1> DEFINE y == [next EXCEPT !.mine = new ++ @]
<1>1. IsTx(y) /\ y.pc = next.pc /\ y.todo = next.todo /\ y.fit = next.fit /\ y.seen = next.seen
      /\ Newest(y.mine, new, tx[t].mine)
  BY Advanced, NewestCounts
<1>2. Quiet(t, y)
  BY WriteQuiet
<1> HIDE DEF y
<1>3. Knows(db, y, job[t])
  BY <1>1 DEF Knows
<1> QED
  BY <1>2, <1>3, QuietKeeps

\* A statement that reads keeps the invariant if its request still knows what it is to know.
LEMMA ReadKeeps ==
    ASSUME PInv, NEW t \in Requests, NEW next, Read(t, next),
           IsTx(next), next.mine = tx[t].mine, next.pc \notin Resting, Working(db, next, job[t])
    PROVE  PInv'
<1>1. Knows(db, next, job[t])
  BY DEF Knows
<1> QED
  BY <1>1, ReadQuiet, QuietKeeps

\* The record of a request that goes on to count units.
LEMMA CountingIs ==
    ASSUME NEW x, IsTx(x), NEW S
    PROVE  LET y == Counting(x, S) IN
           IsTx(y) /\ y.pc = "stock" /\ y.mine = x.mine /\ y.todo = x.todo /\ y.fit = x.fit /\ y.seen = {Units(s) : s \in S}
<1> DEFINE T == {Units(s) : s \in S}
           y == [x EXCEPT !.pc = "stock", !.seen = T]
<1>1. Counting(x, S) = y
  BY DEF Counting
<1> HIDE DEF T
<1>2. IsTx(y) /\ y.pc = "stock" /\ y.mine = x.mine /\ y.todo = x.todo /\ y.fit = x.fit /\ y.seen = T
  BY DEF IsTx
<1> QED
  BY <1>1, <1>2 DEF T

\* The rows an order's units count in are rows of stock and figures.
LEMMA CountedRows ==
    ASSUME NEW kind \in {"handOver", "deliver", "confirmReturn"}, NEW o \in Orders, NEW S \in SUBSET StockOf[kind][o]
    PROVE  {Units(s) : s \in S} \subseteq StockRows
<1>1. StockOf[kind][o] \in SUBSET Stock
  BY StockAssumption
<1> QED
  BY <1>1 DEF StockRows

\* The record of a batch's request that is done with o and goes on to count its units.
LEMMA CountedOrder ==
    ASSUME NEW t, IsTx(tx[t]), NEW o, NEW S
    PROVE  LET y == Counting(Done(t, o), S) IN
           /\ IsTx(y) /\ y.pc = "stock" /\ y.mine = tx[t].mine /\ y.fit = tx[t].fit
           /\ y.todo = tx[t].todo \ {o} /\ y.seen = {Units(s) : s \in S}
<1>1. PICK x : x = Done(t, o)
  OBVIOUS
<1>2. IsTx(x) /\ x.mine = tx[t].mine /\ x.fit = tx[t].fit /\ x.todo = tx[t].todo \ {o}
  BY <1>1 DEF Done, IsTx
<1> QED
  BY <1>1, <1>2, CountingIs

-----------------------------------------------------------------------------
(* The statements of an order's own record *)

\* The order's guarded UPDATE finds it Pending (order-moves.js).
LEMMA ConfirmOrderKeeps ==
    ASSUME PInv, NEW t \in Requests, ConfirmOrder(t)
    PROVE  PInv'
<1> DEFINE o == job[t].order
           next == [tx[t] EXCEPT !.pc = "parcel"]
           new == Version(Order(o), "Confirmed")
<1>1. CASE View(t, It(t)) # "Pending"
  BY <1>1, FailKeeps DEF ConfirmOrder
<1>2. CASE View(t, It(t)) = "Pending"
  <2>1. Kind(t) = "confirm" /\ At(t, "first") /\ Write(t, new, next)
    BY <1>2 DEF ConfirmOrder, It
  <2>2. o \in Orders /\ Order(o) \in Rows
    BY <2>1, About, RowsExist DEF Kind
  <2>3. DOMAIN tx[t].mine = {}
    BY <2>1, AtFirst
  <2>4. db[Order(o)] = "Pending"
    BY <1>2, <2>2, <2>3, About DEF It
  <2>5. IsTx(next) /\ next.pc = "parcel" /\ next.mine = tx[t].mine
    BY About, MovedOn
  <2>6. DOMAIN new = {Order(o)} /\ new[Order(o)] = "Confirmed"
    BY OneVersion
  <2> HIDE DEF new, next, o
  <2>7. ASSUME NEW y, y.pc = "parcel", Newest(y.mine, new, tx[t].mine)
        PROVE  Working(db, y, job[t])
    <3>1. DOMAIN y.mine = {Order(o)} /\ y.mine[Order(o)] = "Confirmed"
      BY <2>3, <2>6, <2>7 DEF Newest
    <3>2. KnowsConfirm(db, y, o)
      BY <2>4, <2>7, <3>1 DEF KnowsConfirm
    <3> QED
      BY <2>1, <3>2 DEF Working, Kind, o
  <2> QED
    BY <2>1, <2>2, <2>5, <2>6, <2>7, WriteKeeps DEF Resting
<1> QED
  BY <1>1, <1>2

\* The parcel of the order locked goes with it.
LEMMA PrepareParcelKeeps ==
    ASSUME PInv, NEW t \in Requests, PrepareParcel(t)
    PROVE  PInv'
<1> DEFINE o == job[t].order
           next == [tx[t] EXCEPT !.pc = "commit"]
           new == Version(Parcel(o), "Preparing")
<1>1. Kind(t) = "confirm" /\ tx[t].pc = "parcel" /\ Write(t, new, next)
  BY DEF PrepareParcel, ItsParcel, At
<1>2. o \in Orders /\ Parcel(o) \in Rows
  BY <1>1, About, RowsExist DEF Kind
<1>3. /\ DOMAIN tx[t].mine = {Order(o)} /\ tx[t].mine[Order(o)] = "Confirmed"
      /\ db[Order(o)] = "Pending"
  BY <1>1, About DEF Knows, Resting, Working, KnowsConfirm, Kind
<1>4. IsTx(next) /\ next.pc = "commit" /\ next.mine = tx[t].mine
  BY About, MovedOn
<1>5. DOMAIN new = {Parcel(o)} /\ new[Parcel(o)] = "Preparing"
  BY OneVersion
<1> HIDE DEF new, next, o
<1>6. ASSUME NEW y, y.pc = "commit", Newest(y.mine, new, tx[t].mine)
      PROVE  Working(db, y, job[t])
  <2>1. /\ DOMAIN y.mine = {Order(o), Parcel(o)}
        /\ y.mine[Order(o)] = "Confirmed" /\ y.mine[Parcel(o)] = "Preparing"
    BY <1>3, <1>5, <1>6, RowNames DEF Newest
  <2>2. KnowsConfirm(db, y, o)
    BY <1>3, <1>6, <2>1 DEF KnowsConfirm
  <2> QED
    BY <1>1, <2>2 DEF Working, Kind, o
<1> QED
  BY <1>1, <1>2, <1>4, <1>5, <1>6, WriteKeeps DEF Resting

\* The guarded UPDATE finds the order Pending or Confirmed.
LEMMA CancelOrderKeeps ==
    ASSUME PInv, NEW t \in Requests, CancelOrder(t)
    PROVE  PInv'
<1> DEFINE o == job[t].order
           next == [tx[t] EXCEPT !.pc = "commit"]
           new == Version(Order(o), "Cancelled")
<1>1. CASE View(t, It(t)) \notin {"Pending", "Confirmed"}
  BY <1>1, FailKeeps DEF CancelOrder
<1>2. CASE View(t, It(t)) \in {"Pending", "Confirmed"}
  <2>1. Kind(t) = "cancel" /\ At(t, "first") /\ Write(t, new, next)
    BY <1>2 DEF CancelOrder, It
  <2>2. o \in Orders /\ Order(o) \in Rows
    BY <2>1, About, RowsExist DEF Kind
  <2>3. DOMAIN tx[t].mine = {}
    BY <2>1, AtFirst
  <2>4. db[Order(o)] \in {"Pending", "Confirmed"}
    BY <1>2, <2>2, <2>3, About DEF It
  <2>5. IsTx(next) /\ next.pc = "commit" /\ next.mine = tx[t].mine
    BY About, MovedOn
  <2>6. DOMAIN new = {Order(o)} /\ new[Order(o)] = "Cancelled"
    BY OneVersion
  <2> HIDE DEF new, next, o
  <2>7. ASSUME NEW y, y.pc = "commit", Newest(y.mine, new, tx[t].mine)
        PROVE  Working(db, y, job[t])
    <3>1. DOMAIN y.mine = {Order(o)} /\ y.mine[Order(o)] = "Cancelled"
      BY <2>3, <2>6, <2>7 DEF Newest
    <3>2. KnowsCancel(db, y, o)
      BY <2>4, <2>7, <3>1 DEF KnowsCancel
    <3> QED
      BY <2>1, <3>2 DEF Working, Kind, o
  <2> QED
    BY <2>1, <2>2, <2>5, <2>6, <2>7, WriteKeeps DEF Resting
<1> QED
  BY <1>1, <1>2

\* The order is locked as it is committed.
LEMMA LockUndeliveredKeeps ==
    ASSUME PInv, NEW t \in Requests, LockUndelivered(t)
    PROVE  PInv'
<1> DEFINE o == job[t].order
           next == [tx[t] EXCEPT !.pc = "parcel"]
           new == Version(Order(o), View(t, Order(o)))
<1>1. Kind(t) = "notDelivered" /\ At(t, "first") /\ Write(t, new, next)
  BY DEF LockUndelivered, Lock, It
<1>2. o \in Orders /\ Order(o) \in Rows
  BY <1>1, About, RowsExist DEF Kind
<1>3. DOMAIN tx[t].mine = {}
  BY <1>1, AtFirst
<1>4. View(t, Order(o)) = db[Order(o)]
  BY <1>2, <1>3, About
<1>5. IsTx(next) /\ next.pc = "parcel" /\ next.mine = tx[t].mine
  BY About, MovedOn
<1>6. DOMAIN new = {Order(o)} /\ new[Order(o)] = db[Order(o)]
  BY <1>4, OneVersion
<1> HIDE DEF new, next, o
<1>7. ASSUME NEW y, y.pc = "parcel", Newest(y.mine, new, tx[t].mine)
      PROVE  Working(db, y, job[t])
  <2>1. DOMAIN y.mine = {Order(o)} /\ y.mine[Order(o)] = db[Order(o)]
    BY <1>3, <1>6, <1>7 DEF Newest
  <2>2. KnowsNotDelivered(db, y, o)
    BY <1>7, <2>1 DEF KnowsNotDelivered
  <2> QED
    BY <1>1, <2>2 DEF Working, Kind, o
<1> QED
  BY <1>1, <1>2, <1>5, <1>6, <1>7, WriteKeeps DEF Resting

\* A parcel that is with the courier has no return waiting, so the one raised now is the only one.
LEMMA MarkFailedKeeps ==
    ASSUME PInv, NEW t \in Requests, MarkFailed(t)
    PROVE  PInv'
<1> DEFINE o == job[t].order
           n == NextReturn(t, o)
           next == [tx[t] EXCEPT !.pc = "commit"]
           old == View(t, Order(o))
           moved == Moved(o, old, "Failed")
           new == moved ++ Version(Return(o, n), "Pending")
<1>1. \/ Fail(t)
      \/ /\ Kind(t) = "notDelivered" /\ tx[t].pc = "parcel" /\ n <= MaxReturns
         /\ View(t, Parcel(o)) = "WithCourier" /\ Write(t, new, next)
  BY DEF MarkFailed, It, At
<1>2. CASE Fail(t)
  BY <1>2, FailKeeps
<1>3. CASE ~Fail(t)
  <2>1. /\ Kind(t) = "notDelivered" /\ tx[t].pc = "parcel" /\ n <= MaxReturns
        /\ View(t, Parcel(o)) = "WithCourier" /\ Write(t, new, next)
    BY <1>1, <1>3
  <2>2. o \in Orders /\ Order(o) \in Rows /\ Parcel(o) \in Rows
    BY <2>1, About, RowsExist DEF Kind
  <2>3. n \in 1..MaxReturns
    <3>1. IsFiniteSet(1..MaxReturns)
      BY FS_Interval, MaxReturnsAssumption
    <3>2. IsFiniteSet(Raised(t, o))
      BY <3>1, FS_Subset DEF Raised
    <3>3. Cardinality(Raised(t, o)) \in Nat
      BY <3>2, FS_CardinalityType
    <3> QED
      BY <2>1, <3>3, MaxReturnsAssumption DEF NextReturn
  <2>4. DOMAIN tx[t].mine = {Order(o)} /\ tx[t].mine[Order(o)] = db[Order(o)]
    BY <2>1, About DEF Knows, Resting, Working, KnowsNotDelivered, Kind
  <2>5. old = db[Order(o)] /\ db[Parcel(o)] = "WithCourier"
    BY <2>1, <2>2, <2>4, About, RowNames
  <2>6. IsTx(next) /\ next.pc = "commit" /\ next.mine = tx[t].mine
    BY About, MovedOn
  <2> HIDE DEF n, old, o
  <2>7. DOMAIN moved = {Order(o), Parcel(o)} /\ moved[Order(o)] = db[Order(o)] /\ moved[Parcel(o)] = "Failed"
    BY <2>5, MovedIs
  <2>8. /\ DOMAIN Version(Return(o, n), "Pending") = {Return(o, n)}
        /\ Version(Return(o, n), "Pending")[Return(o, n)] = "Pending"
    BY OneVersion
  <2>new. Newest(new, moved, Version(Return(o, n), "Pending"))
    BY NewestCounts
  <2> HIDE DEF moved, new
  <2>9. /\ DOMAIN new = {Order(o), Parcel(o), Return(o, n)}
        /\ new[Order(o)] = db[Order(o)] /\ new[Parcel(o)] = "Failed" /\ new[Return(o, n)] = "Pending"
    BY <2>7, <2>8, <2>new, RowNames DEF Newest
  <2>10. DOMAIN new \subseteq Rows
    BY <2>2, <2>3, <2>9, RowsExist
  <2> HIDE DEF next
  <2>11. ASSUME NEW y, y.pc = "commit", Newest(y.mine, new, tx[t].mine)
         PROVE  Working(db, y, job[t])
    <3>1. /\ DOMAIN y.mine = {Order(o), Parcel(o), Return(o, n)} /\ y.mine[Order(o)] = db[Order(o)]
          /\ y.mine[Parcel(o)] = "Failed" /\ y.mine[Return(o, n)] = "Pending"
      BY <2>4, <2>9, <2>11 DEF Newest
    <3>2. KnowsNotDelivered(db, y, o)
      BY <2>3, <2>5, <2>11, <3>1 DEF KnowsNotDelivered
    <3> QED
      BY <2>1, <3>2 DEF Working, Kind, o
  <2> QED
    BY <2>1, <2>6, <2>10, <2>11, WriteKeeps DEF Resting
<1> QED
  BY <1>2, <1>3

\* The return locked waits.
LEMMA LockReturnKeeps ==
    ASSUME PInv, NEW t \in Requests, LockReturn(t)
    PROVE  PInv'
<1> DEFINE r == Return(job[t].order, job[t].nth)
           next == [tx[t] EXCEPT !.pc = "snapshot"]
           new == Version(r, View(t, r))
<1>1. CASE View(t, ItsReturn(t)) # "Pending"
  BY <1>1, FailKeeps DEF LockReturn
<1>2. CASE View(t, ItsReturn(t)) = "Pending"
  <2>1. Kind(t) = "confirmReturn" /\ At(t, "first") /\ Write(t, new, next)
    BY <1>2 DEF LockReturn, Lock, ItsReturn
  <2>2. r \in Rows
    BY <2>1, About, RowsExist DEF Kind
  <2>3. DOMAIN tx[t].mine = {} /\ tx[t].todo = {}
    BY <2>1, AtFirst
  <2>4. db[r] = "Pending"
    BY <1>2, <2>2, <2>3, About DEF ItsReturn
  <2>5. IsTx(next) /\ next.pc = "snapshot" /\ next.mine = tx[t].mine /\ next.todo = {}
    BY <2>3, About, MovedOn
  <2>6. DOMAIN new = {r}
    BY OneVersion
  <2> HIDE DEF new, next
  <2>7. ASSUME NEW y, y.pc = "snapshot", y.todo = {}, Newest(y.mine, new, tx[t].mine)
        PROVE  Working(db, y, job[t])
    <3>1. DOMAIN y.mine = {r}
      BY <2>3, <2>6, <2>7 DEF Newest
    <3>stocked. Stocked(y)
      BY <2>7, <3>1, StockNames, NotCounting
    <3>2. KnowsConfirmReturn(db, y, job[t].order, job[t].nth)
      BY <2>4, <2>7, <3>1, <3>stocked DEF KnowsConfirmReturn
    <3> QED
      BY <2>1, <3>2 DEF Working, Kind
  <2> QED
    BY <2>1, <2>2, <2>5, <2>6, <2>7, WriteKeeps DEF Resting
<1> QED
  BY <1>1, <1>2

\* What is read of the parcel without a lock is not gone by.
LEMMA ReadReturnedParcelKeeps ==
    ASSUME PInv, NEW t \in Requests, ReadReturnedParcel(t)
    PROVE  PInv'
<1> DEFINE seen == {View(t, ItsParcel(t))}
           next == [tx[t] EXCEPT !.pc = "lock", !.seen = seen]
<1>1. Kind(t) = "confirmReturn" /\ tx[t].pc = "snapshot" /\ Read(t, next)
  BY DEF ReadReturnedParcel, At
<1> HIDE DEF seen
<1>2. IsTx(next) /\ next.pc = "lock" /\ next.mine = tx[t].mine /\ next.todo = tx[t].todo
  BY About DEF IsTx
<1> HIDE DEF next
<1>3. KnowsConfirmReturn(db, tx[t], job[t].order, job[t].nth)
  BY <1>1, About DEF Knows, Resting, Working, Kind
<1>stocked. Stocked(next)
  BY <1>1, <1>2, <1>3 DEF KnowsConfirmReturn, Stocked
<1>4. KnowsConfirmReturn(db, next, job[t].order, job[t].nth)
  BY <1>1, <1>2, <1>3, <1>stocked DEF KnowsConfirmReturn
<1>5. Working(db, next, job[t])
  BY <1>1, <1>4 DEF Working, Kind
<1> QED
  BY <1>1, <1>2, <1>5, ReadKeeps DEF Resting

\* The order is locked after its return.
LEMMA LockReturnedOrderKeeps ==
    ASSUME PInv, NEW t \in Requests, LockReturnedOrder(t)
    PROVE  PInv'
<1> DEFINE o == job[t].order
           r == Return(o, job[t].nth)
           next == [tx[t] EXCEPT !.pc = "parcel"]
           new == Version(Order(o), View(t, Order(o)))
<1>1. Fail(t) \/ (Kind(t) = "confirmReturn" /\ tx[t].pc = "lock" /\ Write(t, new, next))
  BY DEF LockReturnedOrder, Lock, It, At
<1>2. CASE Fail(t)
  BY <1>2, FailKeeps
<1>3. CASE Kind(t) = "confirmReturn" /\ tx[t].pc = "lock" /\ Write(t, new, next)
  <2>1. Order(o) \in Rows
    BY <1>3, About, RowsExist DEF Kind
  <2>2. DOMAIN tx[t].mine = {r} /\ db[r] = "Pending" /\ tx[t].todo = {}
    BY <1>3, About DEF Knows, Resting, Working, KnowsConfirmReturn, Kind
  <2>3. IsTx(next) /\ next.pc = "parcel" /\ next.mine = tx[t].mine /\ next.todo = {}
    BY <2>2, About, MovedOn
  <2>4. DOMAIN new = {Order(o)}
    BY OneVersion
  <2> HIDE DEF new, next
  <2>5. ASSUME NEW y, y.pc = "parcel", y.todo = {}, Newest(y.mine, new, tx[t].mine)
        PROVE  Working(db, y, job[t])
    <3>1. DOMAIN y.mine = {r, Order(o)}
      BY <2>2, <2>4, <2>5 DEF Newest
    <3>stocked. Stocked(y)
      BY <2>5, <3>1, StockNames, NotCounting
    <3>2. KnowsConfirmReturn(db, y, job[t].order, job[t].nth)
      BY <2>2, <2>5, <3>1, <3>stocked DEF KnowsConfirmReturn
    <3> QED
      BY <1>3, <3>2 DEF Working, Kind
  <2> QED
    BY <1>3, <2>1, <2>3, <2>4, <2>5, WriteKeeps DEF Resting
<1> QED
  BY <1>1, <1>2, <1>3

\* Its return waits, so the parcel failed, and all three rows move.
LEMMA TakeParcelBackKeeps ==
    ASSUME PInv, NEW t \in Requests, TakeParcelBack(t)
    PROVE  PInv'
<1> DEFINE o == job[t].order
           r == Return(o, job[t].nth)
           moved == Moved(o, "Returned", "BackInShop")
           settled == Version(r, "Returned")
           new == settled ++ moved
<1>1. Kind(t) = "confirmReturn" /\ tx[t].pc = "parcel"
  BY DEF TakeParcelBack, At
<1>2. o \in Orders /\ job[t].nth \in 1..MaxReturns
  BY <1>1, About DEF Kind
<1>3. DOMAIN tx[t].mine = {r, Order(o)} /\ db[r] = "Pending" /\ tx[t].todo = {}
  BY <1>1, About DEF Knows, Resting, Working, KnowsConfirmReturn, Kind
<1> HIDE DEF o
<1>5. DOMAIN moved = {Order(o), Parcel(o)} /\ moved[Order(o)] = "Returned" /\ moved[Parcel(o)] = "BackInShop"
  BY MovedIs
<1>6. DOMAIN settled = {r} /\ settled[r] = "Returned"
  BY OneVersion
<1>7. r # Order(o) /\ r # Parcel(o)
  BY RowNames
<1>8. r \in Rows /\ Order(o) \in Rows /\ Parcel(o) \in Rows
  BY <1>2, RowsExist
<1>new. Newest(new, settled, moved)
  BY NewestCounts
<1> HIDE DEF moved, settled, new, r
<1>9. /\ DOMAIN new = {r, Order(o), Parcel(o)}
      /\ new[r] = "Returned" /\ new[Order(o)] = "Returned" /\ new[Parcel(o)] = "BackInShop"
  BY <1>5, <1>6, <1>7, <1>new DEF Newest
<1>written. PICK S \in (SUBSET StockOf["confirmReturn"][o]) \ {{}} : Write(t, new, Counting(tx[t], S))
  BY DEF TakeParcelBack, ItsReturn, new, settled, moved, r, o
<1> DEFINE next == Counting(tx[t], S)
<1>4. IsTx(next) /\ next.pc = "stock" /\ next.mine = tx[t].mine /\ next.todo = {} /\ next.seen \subseteq StockRows
  BY <1>2, <1>3, About, CountingIs, CountedRows
<1> HIDE DEF next
<1>10. ASSUME NEW y, y.pc = "stock", y.todo = {}, y.seen = next.seen, Newest(y.mine, new, tx[t].mine)
       PROVE  Working(db, y, job[t])
  <2>1. /\ DOMAIN y.mine = {r, Order(o), Parcel(o)}
        /\ y.mine[r] = "Returned" /\ y.mine[Order(o)] = "Returned" /\ y.mine[Parcel(o)] = "BackInShop"
    BY <1>3, <1>9, <1>10 DEF Newest
  <2>2. DOMAIN y.mine \ StockRows = {r, Order(o), Parcel(o)}
    BY <2>1, StockNames DEF r
  <2>3. Stocked(y)
    BY <1>4, <1>10 DEF Stocked
  <2>4. KnowsConfirmReturn(db, y, o, job[t].nth)
    BY <1>3, <1>10, <2>1, <2>2, <2>3 DEF KnowsConfirmReturn, r
  <2> QED
    BY <1>1, <2>4 DEF Working, Kind, o
<1>11. DOMAIN new \subseteq Rows
  BY <1>8, <1>9
<1> QED
  BY <1>written, <1>4, <1>10, <1>11, WriteKeeps DEF Resting, next

\* The return locked waits, and is cancelled.
LEMMA CancelReturnKeeps ==
    ASSUME PInv, NEW t \in Requests, CancelReturn(t)
    PROVE  PInv'
<1> DEFINE r == Return(job[t].order, job[t].nth)
           next == [tx[t] EXCEPT !.pc = "parcel"]
           new == Version(r, "Cancelled")
<1>1. CASE View(t, ItsReturn(t)) # "Pending"
  BY <1>1, FailKeeps DEF CancelReturn
<1>2. CASE View(t, ItsReturn(t)) = "Pending"
  <2>1. Kind(t) = "cancelReturn" /\ At(t, "first") /\ Write(t, new, next)
    BY <1>2 DEF CancelReturn, ItsReturn
  <2>2. r \in Rows
    BY <2>1, About, RowsExist DEF Kind
  <2>3. DOMAIN tx[t].mine = {}
    BY <2>1, AtFirst
  <2>4. db[r] = "Pending"
    BY <1>2, <2>2, <2>3, About DEF ItsReturn
  <2>5. IsTx(next) /\ next.pc = "parcel" /\ next.mine = tx[t].mine
    BY About, MovedOn
  <2>6. DOMAIN new = {r} /\ new[r] = "Cancelled"
    BY OneVersion
  <2> HIDE DEF new, next
  <2>7. ASSUME NEW y, y.pc = "parcel", Newest(y.mine, new, tx[t].mine)
        PROVE  Working(db, y, job[t])
    <3>1. DOMAIN y.mine = {r} /\ y.mine[r] = "Cancelled"
      BY <2>3, <2>6, <2>7 DEF Newest
    <3>2. KnowsCancelReturn(db, y, job[t].order, job[t].nth)
      BY <2>4, <2>7, <3>1 DEF KnowsCancelReturn
    <3> QED
      BY <2>1, <3>2 DEF Working, Kind
  <2> QED
    BY <2>1, <2>2, <2>5, <2>6, <2>7, WriteKeeps DEF Resting
<1> QED
  BY <1>1, <1>2

\* Its return waits, so the parcel has failed and is found.
LEMMA StillWithCourierKeeps ==
    ASSUME PInv, NEW t \in Requests, StillWithCourier(t)
    PROVE  PInv'
<1> DEFINE o == job[t].order
           r == Return(o, job[t].nth)
           next == [tx[t] EXCEPT !.pc = "commit"]
           new == Version(Parcel(o), "WithCourier")
<1>1. Kind(t) = "cancelReturn" /\ tx[t].pc = "parcel"
  BY DEF StillWithCourier, At
<1>2. o \in Orders /\ job[t].nth \in 1..MaxReturns /\ Parcel(o) \in Rows
  BY <1>1, About, RowsExist DEF Kind
<1>3. DOMAIN tx[t].mine = {r} /\ tx[t].mine[r] = "Cancelled" /\ db[r] = "Pending"
  BY <1>1, About DEF Knows, Resting, Working, KnowsCancelReturn, Kind
<1>4. db[Parcel(o)] = "Failed"
  BY <1>2, <1>3 DEF PInv, RowsAgree, OrderAndParcelAgree, IsPending
<1>5. r # Parcel(o)
  BY RowNames
<1>6. View(t, ItsParcel(t)) = "Failed"
  BY <1>2, <1>3, <1>4, <1>5, About DEF ItsParcel
<1>7. Write(t, new, next)
  BY <1>6 DEF StillWithCourier, ItsParcel
<1>8. IsTx(next) /\ next.pc = "commit" /\ next.mine = tx[t].mine
  BY About, MovedOn
<1>9. DOMAIN new = {Parcel(o)} /\ new[Parcel(o)] = "WithCourier"
  BY OneVersion
<1> HIDE DEF new, next, r, o
<1>10. ASSUME NEW y, y.pc = "commit", Newest(y.mine, new, tx[t].mine)
       PROVE  Working(db, y, job[t])
  <2>1. /\ DOMAIN y.mine = {r, Parcel(o)} /\ y.mine[r] = "Cancelled" /\ y.mine[Parcel(o)] = "WithCourier"
    BY <1>3, <1>5, <1>9, <1>10 DEF Newest
  <2>2. KnowsCancelReturn(db, y, o, job[t].nth)
    BY <1>3, <1>10, <2>1 DEF KnowsCancelReturn, r
  <2> QED
    BY <1>1, <2>2 DEF Working, Kind, o
<1> QED
  BY <1>2, <1>7, <1>8, <1>9, <1>10, WriteKeeps DEF Resting

-----------------------------------------------------------------------------
(* The first statement on a delivery batch *)

\* A batch yet to be made has no orders.
LEMMA NewBatchEmpty ==
    ASSUME RowsAgree(db), NEW d \in DeliveryBatches, db[Batch(d)] = "None"
    PROVE  Contents(db, d) = {}
BY DEF RowsAgree, NoneLeftBehind, Contents

\* Before its first statement a request sees the committed orders of its batch.
LEMMA ActiveAtFirst ==
    ASSUME PInv, NEW t \in Requests, At(t, "first"), NEW d \in DeliveryBatches
    PROVE  ActiveIn(t, d) = Contents(db, d)
BY AtFirst, About, RowsExist DEF ActiveIn, Contents

\* A new batch has no orders yet.
LEMMA CreateBatchKeeps ==
    ASSUME PInv, NEW t \in Requests, CreateBatch(t)
    PROVE  PInv'
<1> DEFINE d == job[t].batch
           next == [tx[t] EXCEPT !.pc = "select"]
           new == Version(Batch(d), "Open")
<1>1. CASE View(t, ItsBatch(t)) # "None"
  BY <1>1, EndKeeps DEF CreateBatch, Resting
<1>2. CASE View(t, ItsBatch(t)) = "None"
  <2>1. Kind(t) = "create" /\ At(t, "first") /\ Write(t, new, next)
    BY <1>2 DEF CreateBatch, ItsBatch
  <2>2. d \in DeliveryBatches /\ Batch(d) \in Rows
    BY <2>1, About, RowsExist
  <2>3. DOMAIN tx[t].mine = {} /\ tx[t].todo = {} /\ tx[t].fit = {}
    BY <2>1, AtFirst
  <2>4. db[Batch(d)] = "None"
    BY <1>2, <2>2, <2>3, About DEF ItsBatch
  <2>5. Contents(db, d) = {}
    BY <2>2, <2>4, NewBatchEmpty DEF PInv
  <2>6. /\ IsTx(next) /\ next.pc = "select" /\ next.mine = tx[t].mine
        /\ next.todo = tx[t].todo /\ next.fit = tx[t].fit
    BY About, MovedOn
  <2>7. DOMAIN new = {Batch(d)} /\ new[Batch(d)] = "Open"
    BY OneVersion
  <2> HIDE DEF new, next, d
  <2>8. ASSUME NEW y, y.pc = "select", y.todo = {}, y.fit = {}, Newest(y.mine, new, tx[t].mine)
        PROVE  Working(db, y, job[t])
    <3>1. DOMAIN y.mine = {Batch(d)} /\ y.mine[Batch(d)] = "Open"
      BY <2>3, <2>7, <2>8 DEF Newest
    <3>2. KnowsAdd(db, y, d, "None", job[t].wanted)
      BY <2>4, <2>5, <2>8, <3>1, RowNames DEF KnowsAdd, Staged, OnTrip, Worked
    <3> QED
      BY <2>1, <3>2 DEF Working, Kind, d
  <2> QED
    BY <2>1, <2>2, <2>3, <2>6, <2>7, <2>8, WriteKeeps DEF Resting
<1> QED
  BY <1>1, <1>2

\* The open batch locked gives up the orders no longer wanted.
LEMMA ChangeBatchKeeps ==
    ASSUME PInv, NEW t \in Requests, ChangeBatch(t)
    PROVE  PInv'
<1> DEFINE d == job[t].batch
           C == Contents(db, d)
           S == C \ job[t].wanted
           next == [tx[t] EXCEPT !.pc = "select"]
           opened == Version(Batch(d), "Open")
           freed == Freeing(d, S)
           new == opened ++ freed
<1>1. At(t, "first") /\ Kind(t) = "change" /\ d \in DeliveryBatches
  BY About DEF ChangeBatch
<1>2. ActiveIn(t, d) = C
  BY <1>1, ActiveAtFirst
<1>3. \/ Fail(t)
      \/ End(t, "done") /\ UNCHANGED db
      \/ View(t, Batch(d)) = "Open" /\ Write(t, new, next)
  BY <1>2 DEF ChangeBatch
<1>4. CASE Fail(t)
  BY <1>4, FailKeeps
<1>5. CASE End(t, "done") /\ UNCHANGED db
  BY <1>5, EndKeeps DEF Resting
<1>6. CASE View(t, Batch(d)) = "Open" /\ Write(t, new, next)
  <2>1. DOMAIN tx[t].mine = {} /\ tx[t].todo = {} /\ tx[t].fit = {}
    BY <1>1, AtFirst
  <2>2. Batch(d) \in Rows /\ \A o \in S : Entry(d, o) \in Rows
    BY <1>1, RowsExist DEF Contents
  <2>3. db[Batch(d)] = "Open"
    BY <1>6, <2>1, <2>2, About
  <2>4. /\ IsTx(next) /\ next.pc = "select" /\ next.mine = tx[t].mine
        /\ next.todo = tx[t].todo /\ next.fit = tx[t].fit
    BY About, MovedOn
  <2>5. DOMAIN opened = {Batch(d)} /\ opened[Batch(d)] = "Open"
    BY OneVersion
  <2>6. DOMAIN freed = {Entry(d, o) : o \in S} /\ \A o \in S : freed[Entry(d, o)] = "Freed"
    BY FreeingIs
  <2>new. Newest(new, opened, freed)
    BY NewestCounts
  <2> HIDE DEF opened, freed, new, next
  <2>7. /\ DOMAIN new = {Batch(d)} \cup {Entry(d, o) : o \in S}
        /\ new[Batch(d)] = "Open" /\ \A o \in S : new[Entry(d, o)] = "Freed"
    BY <2>5, <2>6, <2>new, RowNames DEF Newest
  <2>8. DOMAIN new \subseteq Rows
    BY <2>2, <2>7
  <2>9. ASSUME NEW y, y.pc = "select", y.todo = {}, y.fit = {}, Newest(y.mine, new, tx[t].mine)
        PROVE  Working(db, y, job[t])
    <3>1. /\ DOMAIN y.mine = {Batch(d)} \cup {Entry(d, o) : o \in S}
          /\ y.mine[Batch(d)] = "Open" /\ \A o \in S : y.mine[Entry(d, o)] = "Freed"
      BY <2>1, <2>7, <2>9 DEF Newest
    <3>2. OnTrip(y, d)
      BY <3>1 DEF OnTrip, Contents
    <3>3. ASSUME NEW o \in Orders
          PROVE  /\ Parcel(o) \notin DOMAIN y.mine /\ Order(o) \notin DOMAIN y.mine
                 /\ Entry(d, o) \in DOMAIN y.mine <=> o \in S
      BY <3>1, RowNames
    <3>4. Staged(y) /\ Worked(y) = {}
      BY <2>9 DEF Staged, Worked
    <3>5. KnowsAdd(db, y, d, "Open", job[t].wanted)
      BY <2>3, <2>9, <3>1, <3>2, <3>3, <3>4 DEF KnowsAdd
    <3> QED
      BY <1>1, <3>5 DEF Working, Kind
  <2> QED
    BY <1>6, <2>1, <2>4, <2>8, <2>9, WriteKeeps DEF Resting
<1> QED
  BY <1>3, <1>4, <1>5, <1>6

\* The open batch locked gives up all its orders.
LEMMA CancelBatchKeeps ==
    ASSUME PInv, NEW t \in Requests, CancelBatch(t)
    PROVE  PInv'
<1> DEFINE d == job[t].batch
           C == Contents(db, d)
           next == [tx[t] EXCEPT !.pc = "commit"]
           ended == Version(Batch(d), "Cancelled")
           freed == Freeing(d, C)
           new == ended ++ freed
<1>1. At(t, "first") /\ Kind(t) = "cancelBatch" /\ d \in DeliveryBatches
  BY About DEF CancelBatch
<1>2. ActiveIn(t, d) = C
  BY <1>1, ActiveAtFirst
<1>3. Fail(t) \/ (View(t, Batch(d)) = "Open" /\ Write(t, new, next))
  BY <1>2 DEF CancelBatch
<1>4. CASE Fail(t)
  BY <1>4, FailKeeps
<1>5. CASE View(t, Batch(d)) = "Open" /\ Write(t, new, next)
  <2>1. DOMAIN tx[t].mine = {}
    BY <1>1, AtFirst
  <2>2. Batch(d) \in Rows /\ \A o \in C : Entry(d, o) \in Rows
    BY <1>1, RowsExist DEF Contents
  <2>3. db[Batch(d)] = "Open"
    BY <1>5, <2>1, <2>2, About
  <2>4. IsTx(next) /\ next.pc = "commit" /\ next.mine = tx[t].mine
    BY About, MovedOn
  <2>5. DOMAIN ended = {Batch(d)} /\ ended[Batch(d)] = "Cancelled"
    BY OneVersion
  <2>6. DOMAIN freed = {Entry(d, o) : o \in C} /\ \A o \in C : freed[Entry(d, o)] = "Freed"
    BY FreeingIs
  <2>new. Newest(new, ended, freed)
    BY NewestCounts
  <2> HIDE DEF ended, freed, new, next
  <2>7. /\ DOMAIN new = {Batch(d)} \cup {Entry(d, o) : o \in C}
        /\ new[Batch(d)] = "Cancelled" /\ \A o \in C : new[Entry(d, o)] = "Freed"
    BY <2>5, <2>6, <2>new, RowNames DEF Newest
  <2>8. DOMAIN new \subseteq Rows
    BY <2>2, <2>7
  <2>9. ASSUME NEW y, y.pc = "commit", Newest(y.mine, new, tx[t].mine)
        PROVE  Working(db, y, job[t])
    <3>1. /\ DOMAIN y.mine = {Batch(d)} \cup {Entry(d, o) : o \in C}
          /\ y.mine[Batch(d)] = "Cancelled" /\ \A o \in C : y.mine[Entry(d, o)] = "Freed"
      BY <2>1, <2>7, <2>9 DEF Newest
    <3>2. KnowsCancelBatch(db, y, d)
      BY <2>3, <2>9, <3>1 DEF KnowsCancelBatch
    <3> QED
      BY <1>1, <3>2 DEF Working, Kind
  <2> QED
    BY <1>5, <2>4, <2>8, <2>9, WriteKeeps DEF Resting
<1> QED
  BY <1>3, <1>4, <1>5

\* The open batch is locked to be handed over.
LEMMA HandOverBatchKeeps ==
    ASSUME PInv, NEW t \in Requests, HandOverBatch(t)
    PROVE  PInv'
<1> DEFINE d == job[t].batch
           next == [tx[t] EXCEPT !.pc = "select"]
           new == Version(Batch(d), "HandedOver")
<1>1. CASE View(t, ItsBatch(t)) # "Open"
  BY <1>1, FailKeeps DEF HandOverBatch
<1>2. CASE View(t, ItsBatch(t)) = "Open"
  <2>1. Kind(t) = "handOver" /\ At(t, "first") /\ Write(t, new, next)
    BY <1>2 DEF HandOverBatch, ItsBatch
  <2>2. d \in DeliveryBatches /\ Batch(d) \in Rows
    BY <2>1, About, RowsExist
  <2>3. DOMAIN tx[t].mine = {} /\ tx[t].todo = {} /\ tx[t].fit = {}
    BY <2>1, AtFirst
  <2>4. db[Batch(d)] = "Open"
    BY <1>2, <2>2, <2>3, About DEF ItsBatch
  <2>5. /\ IsTx(next) /\ next.pc = "select" /\ next.mine = tx[t].mine
        /\ next.todo = tx[t].todo /\ next.fit = tx[t].fit
    BY About, MovedOn
  <2>6. DOMAIN new = {Batch(d)} /\ new[Batch(d)] = "HandedOver"
    BY OneVersion
  <2> HIDE DEF new, next, d
  <2>7. ASSUME NEW y, y.pc = "select", y.todo = {}, y.fit = {}, Newest(y.mine, new, tx[t].mine)
        PROVE  Working(db, y, job[t])
    <3>1. DOMAIN y.mine = {Batch(d)} /\ y.mine[Batch(d)] = "HandedOver"
      BY <2>3, <2>6, <2>7 DEF Newest
    <3>stocked. Stocked(y)
      BY <2>7, <3>1, StockNames, NotCounting
    <3>2. KnowsHandOver(db, y, d)
      BY <2>4, <2>7, <3>1, <3>stocked, RowNames DEF KnowsHandOver, Staged, OnTrip, Worked, InTurnSoFar
    <3> QED
      BY <2>1, <3>2 DEF Working, Kind, d
  <2> QED
    BY <2>1, <2>2, <2>3, <2>5, <2>6, <2>7, WriteKeeps DEF Resting
<1> QED
  BY <1>1, <1>2

\* The batch handed over is locked to be delivered.
LEMMA DeliverBatchKeeps ==
    ASSUME PInv, NEW t \in Requests, DeliverBatch(t)
    PROVE  PInv'
<1> DEFINE d == job[t].batch
           next == [tx[t] EXCEPT !.pc = "select"]
           new == Version(Batch(d), View(t, Batch(d)))
<1>1. CASE View(t, ItsBatch(t)) # "HandedOver"
  BY <1>1, FailKeeps DEF DeliverBatch
<1>2. CASE View(t, ItsBatch(t)) = "HandedOver"
  <2>1. Kind(t) = "deliver" /\ At(t, "first") /\ Write(t, new, next)
    BY <1>2 DEF DeliverBatch, ItsBatch, Lock
  <2>2. d \in DeliveryBatches /\ Batch(d) \in Rows
    BY <2>1, About, RowsExist
  <2>3. DOMAIN tx[t].mine = {} /\ tx[t].todo = {} /\ tx[t].fit = {}
    BY <2>1, AtFirst
  <2>4. db[Batch(d)] = "HandedOver"
    BY <1>2, <2>2, <2>3, About DEF ItsBatch
  <2>5. /\ IsTx(next) /\ next.pc = "select" /\ next.mine = tx[t].mine
        /\ next.todo = tx[t].todo /\ next.fit = tx[t].fit
    BY About, MovedOn
  <2>6. DOMAIN new = {Batch(d)} /\ new[Batch(d)] = "HandedOver"
    BY <1>2, OneVersion DEF ItsBatch
  <2> HIDE DEF new, next, d
  <2>7. ASSUME NEW y, y.pc = "select", y.todo = {}, y.fit = {}, Newest(y.mine, new, tx[t].mine)
        PROVE  Working(db, y, job[t])
    <3>1. DOMAIN y.mine = {Batch(d)} /\ y.mine[Batch(d)] = "HandedOver"
      BY <2>3, <2>6, <2>7 DEF Newest
    <3>stocked. Stocked(y)
      BY <2>7, <3>1, StockNames, NotCounting
    <3>2. KnowsDeliver(db, y, d)
      BY <2>4, <2>7, <3>1, <3>stocked, RowNames DEF KnowsDeliver, Staged, OnTrip, Worked, InTurnSoFar
    <3> QED
      BY <2>1, <3>2 DEF Working, Kind, d
  <2> QED
    BY <2>1, <2>2, <2>3, <2>5, <2>6, <2>7, WriteKeeps DEF Resting
<1> QED
  BY <1>1, <1>2

-----------------------------------------------------------------------------
(* Putting orders in a batch *)

\* What a batch is before its request makes or changes it.
StatusBefore(t) == IF job[t].kind = "create" THEN "None" ELSE "Open"

\* What the request t that makes or changes a batch knows, if x is its record.
KnowsItAdds(x, t) == KnowsAdd(db, x, job[t].batch, StatusBefore(t), job[t].wanted)

\* What such a request's statement starts from.
LEMMA AddStarts ==
    ASSUME PInv, NEW t \in Requests, Kind(t) \in {"create", "change"}, tx[t].pc \in {"select", "lock", "work"}
    PROVE  KnowsItAdds(tx[t], t) /\ job[t].batch \in DeliveryBatches /\ job[t].wanted \subseteq Orders
BY About DEF Knows, Resting, Working, Kind, KnowsItAdds, StatusBefore

\* What such a request knows is what a request at work is to know.
LEMMA AddWorks ==
    ASSUME NEW t, Kind(t) \in {"create", "change"}, NEW y, KnowsItAdds(y, t)
    PROVE  Working(db, y, job[t])
BY DEF Working, Kind, KnowsItAdds, StatusBefore

\* Until it adds an order, a request sees its batch without the orders it took out.
LEMMA ActiveBeforeAdding ==
    ASSUME PInv, NEW t \in Requests, Kind(t) \in {"create", "change"}, tx[t].pc = "select"
    PROVE  ActiveIn(t, job[t].batch) = Contents(db, job[t].batch) \cap job[t].wanted
<1> DEFINE d == job[t].batch
           C == Contents(db, d)
           W == job[t].wanted
<1>1. KnowsItAdds(tx[t], t) /\ d \in DeliveryBatches
  BY AddStarts
<1>2. ASSUME NEW o \in Orders
      PROVE  View(t, Entry(d, o)) = "Active" <=> o \in C /\ o \in W
  <2>1. Entry(d, o) \in Rows
    BY <1>1, RowsExist
  <2>2. /\ Entry(d, o) \in DOMAIN tx[t].mine <=> o \in C \ W
        /\ o \in C \ W => tx[t].mine[Entry(d, o)] = "Freed"
    BY <1>1 DEF KnowsItAdds, KnowsAdd, Worked
  <2>3. o \in C <=> db[Entry(d, o)] = "Active"
    BY DEF Contents
  <2> HIDE DEF d, C, W
  <2> QED
    BY <2>1, <2>2, <2>3, About
<1> QED
  BY <1>2 DEF ActiveIn, Contents

\* The orders to add are selected by what is committed, and not locked.
LEMMA SelectToAddKeeps ==
    ASSUME PInv, NEW t \in Requests, SelectToAdd(t)
    PROVE  PInv'
<1> DEFINE d == job[t].batch
           C == Contents(db, d)
           W == job[t].wanted
           added == W \ ActiveIn(t, d)
           T == {o \in added : IsReady(t, o) /\ ~InABatch(t, o)}
           next == [tx[t] EXCEPT !.pc = "lock", !.todo = T, !.seen = added]
<1>1. Kind(t) \in {"create", "change"} /\ tx[t].pc = "select" /\ Read(t, next)
  BY DEF SelectToAdd, Select, At
<1>2. KnowsItAdds(tx[t], t) /\ d \in DeliveryBatches /\ W \subseteq Orders
  BY <1>1, AddStarts
<1>3. added = W \ C
  BY <1>1, ActiveBeforeAdding
<1>4. T \subseteq Orders
  BY <1>2
<1> HIDE DEF T, added
<1>5. /\ IsTx(next) /\ next.pc = "lock" /\ next.mine = tx[t].mine
      /\ next.fit = tx[t].fit /\ next.todo = T /\ next.seen = added
  BY <1>4, About DEF IsTx
<1> HIDE DEF next
<1>6. KnowsItAdds(next, t)
  <2>1. Worked(next) = {} /\ Worked(tx[t]) = {} /\ Staged(next) /\ tx[t].fit = {}
    BY <1>1, <1>2, <1>5 DEF Worked, Staged, KnowsItAdds, KnowsAdd
  <2>2. OnTrip(next, d)
    BY <1>2, <1>5 DEF KnowsItAdds, KnowsAdd, OnTrip
  <2> HIDE DEF C, W
  <2> QED
    BY <1>1, <1>2, <1>3, <1>5, <2>1, <2>2 DEF KnowsItAdds, KnowsAdd, C, W
<1> QED
  BY <1>1, <1>5, <1>6, AddWorks, ReadKeeps DEF Resting

\* A locked order is as it is committed until the request has moved it.
LEMMA LockToAddKeeps ==
    ASSUME PInv, NEW t \in Requests, NEW o \in Orders, LockOrder(t, o), Kind(t) \in {"create", "change"}
    PROVE  PInv'
<1> DEFINE d == job[t].batch
           x == tx[t]
           F == IF Fits(t, o) THEN x.fit \cup {o} ELSE x.fit
           next == [x EXCEPT !.todo = x.todo \ {o}, !.fit = F]
           new == Version(Order(o), View(t, Order(o)))
<1>1. x.pc = "lock" /\ o \in x.todo /\ Write(t, new, next)
  BY DEF LockOrder, InTurn, At, Lock
<1>2. KnowsItAdds(x, t) /\ d \in DeliveryBatches /\ Order(o) \in Rows
  BY <1>1, AddStarts, RowsExist
<1>3. View(t, Order(o)) = db[Order(o)]
  BY <1>2, About DEF KnowsItAdds, KnowsAdd
<1>4. DOMAIN new = {Order(o)} /\ new[Order(o)] = db[Order(o)]
  BY <1>3, OneVersion
<1>5. F \subseteq Orders /\ \A p \in F : p \in x.fit \/ (p = o /\ db[Order(o)] = "Confirmed")
  BY <1>3, About DEF Fits, IsTx, Kind
<1> HIDE DEF F
<1>6. /\ IsTx(next) /\ next.pc = x.pc /\ next.mine = x.mine
      /\ next.fit = F /\ next.todo = x.todo \ {o} /\ next.seen = x.seen
  BY <1>5, About DEF IsTx
<1> HIDE DEF new, next
<1>7. ASSUME NEW y, y.pc = "lock", y.fit = F, y.todo = x.todo \ {o}, y.seen = x.seen, Newest(y.mine, new, x.mine)
      PROVE  KnowsItAdds(y, t)
  <2>1. /\ DOMAIN y.mine = DOMAIN x.mine \cup {Order(o)} /\ y.mine[Order(o)] = db[Order(o)]
        /\ \A r \in DOMAIN x.mine : r # Order(o) => y.mine[r] = x.mine[r]
    BY <1>4, <1>7 DEF Newest
  <2>2. OnTrip(y, d) /\ y.mine[Batch(d)] = x.mine[Batch(d)]
    BY <1>2, <2>1, RowNames DEF KnowsItAdds, KnowsAdd, OnTrip
  <2>3. Staged(y) /\ Worked(y) = {} /\ Worked(x) = {}
    BY <1>1, <1>7 DEF Staged, Worked
  <2>4. ASSUME NEW p \in Orders
        PROVE  /\ Parcel(p) \in DOMAIN y.mine <=> Parcel(p) \in DOMAIN x.mine
               /\ Order(p) \in DOMAIN y.mine <=> Order(p) \in DOMAIN x.mine \/ p = o
               /\ Order(p) \in DOMAIN x.mine /\ p # o => y.mine[Order(p)] = x.mine[Order(p)]
               /\ Entry(d, p) \in DOMAIN y.mine <=> Entry(d, p) \in DOMAIN x.mine
               /\ Entry(d, p) \in DOMAIN x.mine => y.mine[Entry(d, p)] = x.mine[Entry(d, p)]
    BY <2>1, RowNames
  <2>5. \A p \in y.fit : Order(p) \in DOMAIN y.mine /\ db[Order(p)] = "Confirmed"
    BY <1>2, <1>5, <1>7, <2>4, About DEF KnowsItAdds, KnowsAdd, IsTx
  <2> HIDE DEF x, d
  <2> QED
    BY <1>1, <1>2, <1>7, <2>1, <2>2, <2>3, <2>4, <2>5 DEF KnowsItAdds, KnowsAdd, d
<1> QED
  BY <1>1, <1>2, <1>4, <1>6, <1>7, AddWorks, WriteKeeps DEF Resting

\* All the orders were locked and found Confirmed.
LEMMA AllFitToAddKeeps ==
    ASSUME PInv, NEW t \in Requests, AllFitToAdd(t)
    PROVE  PInv'
<1> DEFINE x == tx[t]
           next == GoOn(t)
<1>1. Fail(t) \/ (x.fit = x.seen /\ Read(t, next))
  BY DEF AllFitToAdd
<1>2. CASE Fail(t)
  BY <1>2, FailKeeps
<1>3. CASE x.fit = x.seen /\ Read(t, next)
  <2>1. Kind(t) \in {"create", "change"} /\ x.pc = "lock"
    BY DEF AllFitToAdd, AllLocked, At
  <2>2. KnowsItAdds(x, t)
    BY <2>1, AddStarts
  <2>3. /\ IsTx(next) /\ next.pc \in {"commit", "work"} /\ (next.pc = "commit" => x.fit = {})
        /\ next.mine = x.mine /\ next.fit = x.fit /\ next.seen = x.seen /\ next.todo = x.fit
    BY About DEF GoOn, IsTx
  <2> HIDE DEF next
  <2>4. KnowsItAdds(next, t)
    <3>1. Staged(next) /\ Worked(next) = {} /\ Worked(x) = {}
      BY <2>1, <2>3 DEF Staged, Worked
    <3> HIDE DEF x
    <3> QED
      BY <1>3, <2>1, <2>2, <2>3, <3>1 DEF KnowsItAdds, KnowsAdd, OnTrip
  <2> QED
    BY <1>3, <2>1, <2>3, <2>4, AddWorks, ReadKeeps DEF Resting
<1> QED
  BY <1>1, <1>2, <1>3

\* The entry is added only if the order is in no batch as committed (the unique index).
LEMMA AddEntryKeeps ==
    ASSUME PInv, NEW t \in Requests, NEW o \in Orders, AddEntry(t, o)
    PROVE  PInv'
<1> DEFINE d == job[t].batch
           x == tx[t]
           next == Done(t, o)
           new == Version(Entry(d, o), "Active")
           others == {Entry(e, o) : e \in DeliveryBatches \ {d}}
<1>1. Fail(t) \/ ((\A r \in others : View(t, r) # "Active") /\ Write(t, new, next))
  BY DEF AddEntry
<1>2. CASE Fail(t)
  BY <1>2, FailKeeps
<1>3. CASE (\A r \in others : View(t, r) # "Active") /\ Write(t, new, next)
  <2>1. Kind(t) \in {"create", "change"} /\ x.pc = "work" /\ o \in x.todo
    BY DEF AddEntry, At
  <2>2. KnowsItAdds(x, t) /\ d \in DeliveryBatches /\ Entry(d, o) \in Rows
    BY <2>1, AddStarts, RowsExist
  <2>3. o \in x.fit /\ x.fit = job[t].wanted \ Contents(db, d) /\ x.todo \subseteq x.fit
    BY <2>1, <2>2 DEF KnowsItAdds, KnowsAdd, Staged
  <2>4. ASSUME NEW e \in DeliveryBatches
        PROVE  db[Entry(e, o)] # "Active"
    <3>1. CASE e = d
      BY <2>3, <3>1 DEF Contents
    <3>2. CASE e # d
      <4>1. View(t, Entry(e, o)) # "Active" /\ Entry(e, o) \in Rows
        BY <1>3, <3>2, RowsExist
      <4>2. Entry(e, o) \notin DOMAIN x.mine
        BY <2>2, <3>2, RowNames, StockNames DEF KnowsItAdds, KnowsAdd, OnTrip
      <4> QED
        BY <4>1, <4>2, About
    <3> QED
      BY <3>1, <3>2
  <2>5. DOMAIN new = {Entry(d, o)} /\ new[Entry(d, o)] = "Active"
    BY OneVersion
  <2>6. /\ IsTx(next) /\ next.pc \in {"commit", "work"} /\ (next.pc = "commit" => x.todo = {o})
        /\ next.mine = x.mine /\ next.fit = x.fit /\ next.seen = x.seen /\ next.todo = x.todo \ {o}
    BY <2>1, About DEF Done, IsTx
  <2> HIDE DEF new, next
  <2>7. ASSUME NEW y, y.pc = next.pc, y.fit = x.fit, y.todo = x.todo \ {o}, y.seen = x.seen, Newest(y.mine, new, x.mine)
        PROVE  KnowsItAdds(y, t)
    <3>1. /\ DOMAIN y.mine = DOMAIN x.mine \cup {Entry(d, o)} /\ y.mine[Entry(d, o)] = "Active"
          /\ \A r \in DOMAIN x.mine : r # Entry(d, o) => y.mine[r] = x.mine[r]
      BY <2>5, <2>7 DEF Newest
    <3>2. OnTrip(y, d) /\ y.mine[Batch(d)] = x.mine[Batch(d)]
      BY <2>2, <3>1, RowNames DEF KnowsItAdds, KnowsAdd, OnTrip
    <3>3. Staged(y) /\ Worked(y) = Worked(x) \cup {o}
      BY <2>1, <2>3, <2>6, <2>7 DEF Staged, Worked
    <3>4. ASSUME NEW p \in Orders
          PROVE  /\ Parcel(p) \in DOMAIN y.mine <=> Parcel(p) \in DOMAIN x.mine
                 /\ Order(p) \in DOMAIN y.mine <=> Order(p) \in DOMAIN x.mine
                 /\ Order(p) \in DOMAIN x.mine => y.mine[Order(p)] = x.mine[Order(p)]
                 /\ Entry(d, p) \in DOMAIN y.mine <=> Entry(d, p) \in DOMAIN x.mine \/ p = o
                 /\ Entry(d, p) \in DOMAIN x.mine /\ p # o => y.mine[Entry(d, p)] = x.mine[Entry(d, p)]
      BY <3>1, RowNames
    <3> HIDE DEF x, d
    <3>5. ASSUME NEW p \in Orders
          PROVE  /\ Parcel(p) \notin DOMAIN y.mine
                 /\ Order(p) \in DOMAIN y.mine => y.mine[Order(p)] = db[Order(p)]
                 /\ p \in y.fit => Order(p) \in DOMAIN y.mine /\ db[Order(p)] = "Confirmed"
      BY <2>2, <2>7, <3>4 DEF KnowsItAdds, KnowsAdd, d
    <3>6. ASSUME NEW p \in Orders
          PROVE  /\ Entry(d, p) \in DOMAIN y.mine <=> p \in Contents(db, d) \ job[t].wanted \/ p \in Worked(y)
                 /\ p \in Contents(db, d) \ job[t].wanted => y.mine[Entry(d, p)] = "Freed"
                 /\ p \in Worked(y) => y.mine[Entry(d, p)] = "Active" /\ \A e \in DeliveryBatches : db[Entry(e, p)] # "Active"
      <4>1. CASE p = o
        BY <2>3, <2>4, <3>1, <3>3, <4>1
      <4>2. CASE p # o
        BY <2>2, <3>3, <3>4, <4>2 DEF KnowsItAdds, KnowsAdd, d
      <4> QED
        BY <4>1, <4>2
    <3>7. /\ db[Batch(d)] = StatusBefore(t) /\ y.mine[Batch(d)] = "Open"
          /\ y.seen = job[t].wanted \ Contents(db, d) /\ y.fit = y.seen
      BY <2>1, <2>2, <2>7, <3>2 DEF KnowsItAdds, KnowsAdd, d
    <3> QED
      BY <2>6, <2>7, <3>2, <3>3, <3>5, <3>6, <3>7 DEF KnowsItAdds, KnowsAdd, d
  <2> QED
    BY <1>3, <2>1, <2>2, <2>5, <2>6, <2>7, AddWorks, WriteKeeps DEF Resting
<1> QED
  BY <1>1, <1>2, <1>3

-----------------------------------------------------------------------------
(* Handing a batch over *)

\* What a handover's statement starts from.
LEMMA HandOverStarts ==
    ASSUME PInv, NEW t \in Requests, Kind(t) = "handOver", tx[t].pc \in {"select", "lock", "work"}
    PROVE  KnowsHandOver(db, tx[t], job[t].batch) /\ job[t].batch \in DeliveryBatches
BY About DEF Knows, Resting, Working, Kind

\* What a handover knows is what a request at work is to know.
LEMMA HandOverWorks ==
    ASSUME NEW t, Kind(t) = "handOver", NEW y, KnowsHandOver(db, y, job[t].batch)
    PROVE  Working(db, y, job[t])
BY DEF Working, Kind

\* Until it frees any, a handover sees the orders the batch has as committed.
LEMMA ActiveToHandOver ==
    ASSUME PInv, NEW t \in Requests, Kind(t) = "handOver", tx[t].pc \in {"select", "lock"}
    PROVE  ActiveIn(t, job[t].batch) = Contents(db, job[t].batch)
<1>1. KnowsHandOver(db, tx[t], job[t].batch) /\ job[t].batch \in DeliveryBatches
  BY HandOverStarts
<1>2. ASSUME NEW o \in Orders
      PROVE  View(t, Entry(job[t].batch, o)) = db[Entry(job[t].batch, o)]
  <2>1. Entry(job[t].batch, o) \notin DOMAIN tx[t].mine /\ Entry(job[t].batch, o) \in Rows
    BY <1>1, RowsExist DEF KnowsHandOver
  <2> QED
    BY <2>1, About
<1> QED
  BY <1>2 DEF ActiveIn, Contents

\* An order in an open batch is Confirmed exactly as long as its parcel is being prepared.
LEMMA ReadyInOpenBatch ==
    ASSUME RowsAgree(db), NEW o \in Orders
    PROVE  db[Order(o)] = "Confirmed" => db[Parcel(o)] = "Preparing"
BY StandingPairs DEF RowsAgree, OrderAndParcelAgree

\* The orders of the batch are selected by what is committed.
LEMMA SelectToHandOverKeeps ==
    ASSUME PInv, NEW t \in Requests, SelectToHandOver(t)
    PROVE  PInv'
<1> DEFINE d == job[t].batch
           C == Contents(db, d)
           x == tx[t]
           R == {o \in ActiveIn(t, d) : View(t, Parcel(o)) = "Preparing"}
           next == [x EXCEPT !.pc = "lock", !.todo = ActiveIn(t, d), !.seen = R]
<1>1. Kind(t) = "handOver" /\ x.pc = "select" /\ Read(t, next)
  BY DEF SelectToHandOver, Select, At
<1>2. KnowsHandOver(db, x, d) /\ d \in DeliveryBatches
  BY <1>1, HandOverStarts
<1>3. ActiveIn(t, d) = C /\ C \subseteq Orders
  BY <1>1, ActiveToHandOver DEF Contents
<1>4. ASSUME NEW o \in Orders, o \in C \ R
      PROVE  db[Order(o)] # "Confirmed"
  <2>1. Parcel(o) \in Rows /\ Parcel(o) \notin DOMAIN x.mine
    BY <1>1, <1>2, RowsExist DEF KnowsHandOver, Worked
  <2>2. db[Parcel(o)] # "Preparing"
    BY <1>3, <1>4, <2>1, About
  <2> QED
    BY <2>2, ReadyInOpenBatch DEF PInv
<1> HIDE DEF R
<1>5. /\ IsTx(next) /\ next.pc = "lock" /\ next.mine = x.mine
      /\ next.fit = x.fit /\ next.todo = C /\ next.seen = R
  BY <1>3, About DEF IsTx
<1> HIDE DEF next
<1>6. KnowsHandOver(db, next, d)
  <2>1. Worked(next) = {} /\ Worked(x) = {} /\ Staged(next) /\ x.fit = {}
    BY <1>1, <1>2, <1>5 DEF Worked, Staged, KnowsHandOver
  <2>2. \A o \in Orders : Order(o) \notin DOMAIN x.mine /\ Entry(d, o) \notin DOMAIN x.mine /\ Parcel(o) \notin DOMAIN x.mine
    BY <1>1, <1>2, <2>1 DEF KnowsHandOver
  <2>3. OnTrip(next, d) /\ InTurnSoFar(next) /\ db[Batch(d)] = "Open" /\ next.mine[Batch(d)] = "HandedOver"
    BY <1>2, <1>5, <2>2 DEF KnowsHandOver, OnTrip, InTurnSoFar
  <2>4. Stocked(next)
    BY <1>1, <1>2, <1>5 DEF KnowsHandOver, Stocked
  <2> HIDE DEF x, d, C
  <2> QED
    BY <1>4, <1>5, <2>1, <2>2, <2>3, <2>4 DEF KnowsHandOver, C
<1> QED
  BY <1>1, <1>5, <1>6, HandOverWorks, ReadKeeps DEF Resting

\* An order that looked unready when it was selected is not Confirmed when it is locked.
LEMMA LockToHandOverKeeps ==
    ASSUME PInv, NEW t \in Requests, NEW o \in Orders, LockOrder(t, o), Kind(t) = "handOver"
    PROVE  PInv'
<1> DEFINE d == job[t].batch
           C == Contents(db, d)
           x == tx[t]
           F == IF Fits(t, o) THEN x.fit \cup {o} ELSE x.fit
           next == [x EXCEPT !.todo = x.todo \ {o}, !.fit = F]
           new == Version(Order(o), View(t, Order(o)))
<1>1. x.pc = "lock" /\ o \in x.todo /\ (\A p \in x.todo : o <= p) /\ Write(t, new, next)
  BY DEF LockOrder, InTurn, At, Lock, Kind
<1>2. KnowsHandOver(db, x, d) /\ d \in DeliveryBatches /\ Order(o) \in Rows
  BY <1>1, HandOverStarts, RowsExist
<1>3. o \in C /\ Order(o) \notin DOMAIN x.mine /\ x.todo \subseteq C
  BY <1>1, <1>2 DEF KnowsHandOver
<1>4. View(t, Order(o)) = db[Order(o)]
  BY <1>2, <1>3, About
<1>5. Fits(t, o) <=> db[Order(o)] = "Confirmed"
  BY <1>1, <1>2, <1>3, <1>4 DEF Fits, Kind, KnowsHandOver
<1>6. DOMAIN new = {Order(o)} /\ new[Order(o)] = db[Order(o)]
  BY <1>4, OneVersion
<1>7. F \subseteq Orders /\ \A p \in Orders : p \in F <=> p \in x.fit \/ (p = o /\ db[Order(o)] = "Confirmed")
  BY <1>5, About DEF IsTx
<1> HIDE DEF F
<1>8. /\ IsTx(next) /\ next.pc = x.pc /\ next.mine = x.mine
      /\ next.fit = F /\ next.todo = x.todo \ {o} /\ next.seen = x.seen
  BY <1>7, About DEF IsTx
<1> HIDE DEF new, next
<1>9. ASSUME NEW y, y.pc = "lock", y.fit = F, y.todo = x.todo \ {o}, y.seen = x.seen, Newest(y.mine, new, x.mine)
      PROVE  KnowsHandOver(db, y, d)
  <2>1. /\ DOMAIN y.mine = DOMAIN x.mine \cup {Order(o)} /\ y.mine[Order(o)] = db[Order(o)]
        /\ \A r \in DOMAIN x.mine : r # Order(o) => y.mine[r] = x.mine[r]
    BY <1>6, <1>9 DEF Newest
  <2>2. OnTrip(y, d) /\ y.mine[Batch(d)] = x.mine[Batch(d)]
    BY <1>2, <2>1, RowNames DEF KnowsHandOver, OnTrip
  <2>3. Staged(y) /\ Worked(y) = {} /\ Worked(x) = {}
    BY <1>1, <1>9 DEF Staged, Worked
  <2>4. ASSUME NEW p \in Orders
        PROVE  /\ Parcel(p) \in DOMAIN y.mine <=> Parcel(p) \in DOMAIN x.mine
               /\ Order(p) \in DOMAIN y.mine <=> Order(p) \in DOMAIN x.mine \/ p = o
               /\ Order(p) \in DOMAIN x.mine => y.mine[Order(p)] = x.mine[Order(p)]
               /\ Entry(d, p) \in DOMAIN y.mine <=> Entry(d, p) \in DOMAIN x.mine
    BY <1>3, <2>1, RowNames
  <2>5. InTurnSoFar(y)
    <3>1. \A p \in Orders : Order(p) \in DOMAIN x.mine => \A q \in x.todo : p < q
      BY <1>1, <1>2 DEF KnowsHandOver, InTurnSoFar
    <3>2. \A q \in x.todo : q \in Nat /\ o \in Nat
      BY <1>3, OrdersAssumption DEF Contents
    <3>3. \A q \in x.todo \ {o} : o < q
      BY <1>1, <3>2
    <3> HIDE DEF x
    <3> QED
      BY <1>9, <2>4, <3>1, <3>3 DEF InTurnSoFar
  <2> HIDE DEF x, d, C
  <2>6. ASSUME NEW p \in Orders
        PROVE  /\ Order(p) \in DOMAIN y.mine <=> p \in C /\ p \notin y.todo
               /\ Order(p) \in DOMAIN y.mine => y.mine[Order(p)] = db[Order(p)]
               /\ p \in y.fit <=> Order(p) \in DOMAIN y.mine /\ db[Order(p)] = "Confirmed"
               /\ Parcel(p) \notin DOMAIN y.mine /\ Entry(d, p) \notin DOMAIN y.mine
               /\ p \in C \ y.seen => db[Order(p)] # "Confirmed"
    BY <1>1, <1>2, <1>3, <1>7, <1>9, <2>1, <2>3, <2>4 DEF KnowsHandOver, C
  <2>7. y.todo \subseteq C /\ db[Batch(d)] = "Open" /\ y.mine[Batch(d)] = "HandedOver"
    BY <1>2, <1>3, <1>9, <2>2 DEF KnowsHandOver
  <2>8. Stocked(y)
    <3>1. DOMAIN x.mine \cap StockRows = {}
      BY <1>1, <1>2 DEF KnowsHandOver, Stocked
    <3> QED
      BY <1>9, <2>1, <3>1, StockNames, NotCounting
  <2> QED
    BY <1>9, <2>2, <2>3, <2>5, <2>6, <2>7, <2>8 DEF KnowsHandOver, C
<1> QED
  BY <1>1, <1>2, <1>6, <1>8, <1>9, HandOverWorks, WriteKeeps DEF Resting

\* All its orders are locked; those that do not fit are freed.
LEMMA LeaveOutKeeps ==
    ASSUME PInv, NEW t \in Requests, LeaveOut(t)
    PROVE  PInv'
<1> DEFINE d == job[t].batch
           C == Contents(db, d)
           x == tx[t]
           next == GoOn(t)
           new == Freeing(d, C \ x.fit)
<1>1. Kind(t) = "handOver" /\ x.pc = "lock" /\ x.todo = {}
  BY DEF LeaveOut, AllLocked, At
<1>2. KnowsHandOver(db, x, d) /\ d \in DeliveryBatches /\ ActiveIn(t, d) = C
  BY <1>1, HandOverStarts, ActiveToHandOver
<1>3. Fail(t) \/ (x.fit # {} /\ Write(t, new, next))
  BY <1>2 DEF LeaveOut
<1>4. CASE Fail(t)
  BY <1>4, FailKeeps
<1>5. CASE x.fit # {} /\ Write(t, new, next)
  <2>1. DOMAIN new = {Entry(d, o) : o \in C \ x.fit} /\ \A o \in C \ x.fit : new[Entry(d, o)] = "Freed"
    BY FreeingIs
  <2>2. DOMAIN new \subseteq Rows
    BY <1>2, <2>1, RowsExist DEF Contents
  <2>3. /\ IsTx(next) /\ next.pc = "work" /\ next.mine = x.mine
        /\ next.fit = x.fit /\ next.seen = x.seen /\ next.todo = x.fit
    BY <1>5, About DEF GoOn, IsTx
  <2> HIDE DEF new, next
  <2>4. ASSUME NEW y, y.pc = "work", y.fit = x.fit, y.todo = x.fit, y.seen = x.seen, Newest(y.mine, new, x.mine)
        PROVE  KnowsHandOver(db, y, d)
    <3>1. \A p \in Orders : Entry(d, p) \notin DOMAIN x.mine
      BY <1>1, <1>2 DEF KnowsHandOver
    <3>2. /\ DOMAIN y.mine = DOMAIN x.mine \cup {Entry(d, o) : o \in C \ x.fit}
          /\ \A o \in C \ x.fit : y.mine[Entry(d, o)] = "Freed"
          /\ \A r \in DOMAIN x.mine : y.mine[r] = x.mine[r]
      BY <2>1, <2>4, <3>1 DEF Newest, Contents
    <3>3. OnTrip(y, d) /\ y.mine[Batch(d)] = "HandedOver" /\ db[Batch(d)] = "Open"
      <4>1. Batch(d) \in DOMAIN x.mine /\ x.mine[Batch(d)] = "HandedOver" /\ db[Batch(d)] = "Open"
        BY <1>2 DEF KnowsHandOver, OnTrip
      <4>2. \A r \in DOMAIN y.mine : r \in DOMAIN x.mine \/ \E o \in Orders : r = Entry(d, o)
        BY <3>2 DEF Contents
      <4>3. \A r \in DOMAIN x.mine :
              r = Batch(d) \/ r \in StockRows \/ \E o \in Orders : r \in {Entry(d, o), Order(o), Parcel(o)}
        BY <1>2 DEF KnowsHandOver, OnTrip
      <4> QED
        BY <3>2, <4>1, <4>2, <4>3 DEF OnTrip
    <3>4. Staged(y) /\ Worked(y) = {} /\ Worked(x) = {} /\ InTurnSoFar(y)
      BY <1>1, <2>4 DEF Staged, Worked, InTurnSoFar
    <3>stocked. Stocked(y)
      BY <2>4 DEF Stocked
    <3>5. ASSUME NEW p \in Orders
          PROVE  /\ Parcel(p) \in DOMAIN y.mine <=> Parcel(p) \in DOMAIN x.mine
                 /\ Order(p) \in DOMAIN y.mine <=> Order(p) \in DOMAIN x.mine
                 /\ Order(p) \in DOMAIN x.mine => y.mine[Order(p)] = x.mine[Order(p)]
                 /\ Entry(d, p) \in DOMAIN y.mine <=> p \in C \ x.fit
      BY <3>1, <3>2, RowNames
    <3> HIDE DEF x, d, C
    <3>6. ASSUME NEW p \in Orders
          PROVE  /\ Order(p) \in DOMAIN y.mine <=> p \in C
                 /\ Order(p) \in DOMAIN y.mine => y.mine[Order(p)] = db[Order(p)]
                 /\ p \in y.fit <=> Order(p) \in DOMAIN y.mine /\ db[Order(p)] = "Confirmed"
                 /\ Parcel(p) \notin DOMAIN y.mine
      BY <1>1, <1>2, <2>4, <3>4, <3>5 DEF KnowsHandOver, C
    <3> QED
      BY <1>5, <2>4, <3>2, <3>3, <3>4, <3>stocked, <3>5, <3>6 DEF KnowsHandOver, C
  <2> QED
    BY <1>1, <1>5, <2>2, <2>3, <2>4, HandOverWorks, WriteKeeps DEF Resting
<1> QED
  BY <1>3, <1>4, <1>5

\* The guarded UPDATE of an order that fits moves it and its parcel.
LEMMA DispatchOrderKeeps ==
    ASSUME PInv, NEW t \in Requests, NEW o \in Orders, DispatchOrder(t, o)
    PROVE  PInv'
<1> DEFINE d == job[t].batch
           C == Contents(db, d)
           x == tx[t]
           next == Counting(Done(t, o), StockOf["handOver"][o])
           new == Moved(o, "Dispatched", "WithCourier")
<1>1. Kind(t) = "handOver" /\ x.pc = "work" /\ o \in x.todo
  BY DEF DispatchOrder, At, InTurn
<1>2. Fail(t) \/ Write(t, new, next)
  BY DEF DispatchOrder
<1>3. CASE Fail(t)
  BY <1>3, FailKeeps
<1>4. CASE Write(t, new, next)
  <2>1. KnowsHandOver(db, x, d) /\ Order(o) \in Rows /\ Parcel(o) \in Rows
    BY <1>1, HandOverStarts, RowsExist
  <2>2. o \in x.fit /\ x.fit # {} /\ x.todo \subseteq x.fit /\ Order(o) \in DOMAIN x.mine
    BY <1>1, <2>1 DEF KnowsHandOver, Staged
  <2>3. DOMAIN new = {Order(o), Parcel(o)} /\ new[Order(o)] = "Dispatched" /\ new[Parcel(o)] = "WithCourier"
    BY MovedIs
  <2>4. /\ IsTx(next) /\ next.pc = "stock" /\ next.mine = x.mine /\ next.fit = x.fit /\ next.todo = x.todo \ {o}
        /\ next.seen \subseteq StockRows
    BY About, CountedOrder, CountedRows
  <2> HIDE DEF new, next
  <2>5. ASSUME NEW y, y.pc = "stock", y.fit = x.fit, y.todo = x.todo \ {o}, y.seen = next.seen, Newest(y.mine, new, x.mine)
        PROVE  KnowsHandOver(db, y, d)
    <3>1. /\ DOMAIN y.mine = DOMAIN x.mine \cup {Order(o), Parcel(o)}
          /\ y.mine[Order(o)] = "Dispatched" /\ y.mine[Parcel(o)] = "WithCourier"
          /\ \A r \in DOMAIN x.mine : r # Order(o) /\ r # Parcel(o) => y.mine[r] = x.mine[r]
      BY <2>3, <2>5 DEF Newest
    <3>2. OnTrip(y, d) /\ y.mine[Batch(d)] = "HandedOver" /\ db[Batch(d)] = "Open"
      BY <2>1, <3>1, RowNames DEF KnowsHandOver, OnTrip
    <3>3. Staged(y) /\ Worked(y) = Worked(x) \cup {o} /\ InTurnSoFar(y) /\ y.pc \in {"work", "stock", "commit"} /\ Stocked(y)
      BY <1>1, <2>2, <2>4, <2>5 DEF Staged, Worked, InTurnSoFar, Stocked
    <3>4. ASSUME NEW p \in Orders
          PROVE  /\ Parcel(p) \in DOMAIN y.mine <=> Parcel(p) \in DOMAIN x.mine \/ p = o
                 /\ Parcel(p) \in DOMAIN x.mine /\ p # o => y.mine[Parcel(p)] = x.mine[Parcel(p)]
                 /\ Order(p) \in DOMAIN y.mine <=> Order(p) \in DOMAIN x.mine
                 /\ Order(p) \in DOMAIN x.mine /\ p # o => y.mine[Order(p)] = x.mine[Order(p)]
                 /\ Entry(d, p) \in DOMAIN y.mine <=> Entry(d, p) \in DOMAIN x.mine
                 /\ Entry(d, p) \in DOMAIN x.mine => y.mine[Entry(d, p)] = x.mine[Entry(d, p)]
      BY <2>2, <3>1, RowNames
    <3> HIDE DEF x, d, C
    <3>5. ASSUME NEW p \in Orders
          PROVE  /\ Order(p) \in DOMAIN y.mine <=> p \in C
                 /\ Order(p) \in DOMAIN y.mine => y.mine[Order(p)] = IF p \in Worked(y) THEN "Dispatched" ELSE db[Order(p)]
                 /\ p \in y.fit <=> Order(p) \in DOMAIN y.mine /\ db[Order(p)] = "Confirmed"
                 /\ Parcel(p) \in DOMAIN y.mine <=> p \in Worked(y)
                 /\ p \in Worked(y) => y.mine[Parcel(p)] = "WithCourier"
                 /\ Entry(d, p) \in DOMAIN y.mine <=> p \in C \ y.fit
                 /\ Entry(d, p) \in DOMAIN y.mine => y.mine[Entry(d, p)] = "Freed"
      <4>1. /\ Order(p) \in DOMAIN x.mine <=> p \in C
            /\ Order(p) \in DOMAIN x.mine => x.mine[Order(p)] = IF p \in Worked(x) THEN "Dispatched" ELSE db[Order(p)]
            /\ p \in x.fit <=> Order(p) \in DOMAIN x.mine /\ db[Order(p)] = "Confirmed"
            /\ Parcel(p) \in DOMAIN x.mine <=> p \in Worked(x)
            /\ p \in Worked(x) => x.mine[Parcel(p)] = "WithCourier"
            /\ Entry(d, p) \in DOMAIN x.mine <=> p \in C \ x.fit
            /\ Entry(d, p) \in DOMAIN x.mine => x.mine[Entry(d, p)] = "Freed"
        BY <1>1, <2>1 DEF KnowsHandOver, C
      <4>2. CASE p = o
        BY <2>2, <2>5, <3>1, <3>3, <3>4, <4>1, <4>2
      <4>3. CASE p # o
        BY <2>5, <3>3, <3>4, <4>1, <4>3
      <4> QED
        BY <4>2, <4>3
    <3> QED
      BY <2>2, <2>5, <3>2, <3>3, <3>5 DEF KnowsHandOver, C
  <2> QED
    BY <1>1, <1>4, <2>1, <2>3, <2>4, <2>5, HandOverWorks, WriteKeeps DEF Resting
<1> QED
  BY <1>2, <1>3, <1>4

-----------------------------------------------------------------------------
(* Recording what a batch delivered *)

\* What a delivery's statement starts from.
LEMMA DeliverStarts ==
    ASSUME PInv, NEW t \in Requests, Kind(t) = "deliver", tx[t].pc \in {"select", "lock", "work"}
    PROVE  KnowsDeliver(db, tx[t], job[t].batch) /\ job[t].batch \in DeliveryBatches
BY About DEF Knows, Resting, Working, Kind

\* What a delivery knows is what a request at work is to know.
LEMMA DeliverWorks ==
    ASSUME NEW t, Kind(t) = "deliver", NEW y, KnowsDeliver(db, y, job[t].batch)
    PROVE  Working(db, y, job[t])
BY DEF Working, Kind

\* The orders of the batch are selected by what is committed.
LEMMA SelectToDeliverKeeps ==
    ASSUME PInv, NEW t \in Requests, SelectToDeliver(t)
    PROVE  PInv'
<1> DEFINE d == job[t].batch
           C == Contents(db, d)
           x == tx[t]
           T == ActiveIn(t, d) \cap job[t].wanted
           R == {o \in T : View(t, Parcel(o)) = "WithCourier"}
           next == [x EXCEPT !.pc = "lock", !.todo = T, !.seen = R]
<1>1. Fail(t) \/ Read(t, next)
  BY DEF SelectToDeliver, Select
<1>2. CASE Fail(t)
  BY <1>2, FailKeeps
<1>3. CASE Read(t, next)
  <2>1. Kind(t) = "deliver" /\ x.pc = "select"
    BY DEF SelectToDeliver, At
  <2>2. KnowsDeliver(db, x, d) /\ d \in DeliveryBatches
    BY <2>1, DeliverStarts
  <2>3. T \subseteq C /\ C \subseteq Orders
    <3>1. ASSUME NEW o \in Orders
          PROVE  View(t, Entry(d, o)) = db[Entry(d, o)]
      <4>1. Entry(d, o) \notin DOMAIN x.mine /\ Entry(d, o) \in Rows
        BY <2>2, RowsExist DEF KnowsDeliver
      <4> QED
        BY <4>1, About
    <3> QED
      BY <3>1 DEF ActiveIn, Contents
  <2> HIDE DEF T, R
  <2>4. /\ IsTx(next) /\ next.pc = "lock" /\ next.mine = x.mine /\ next.fit = x.fit /\ next.todo = T
    BY <2>3, About DEF IsTx
  <2> HIDE DEF next
  <2>5. KnowsDeliver(db, next, d)
    <3>1. Worked(next) = {} /\ Worked(x) = {} /\ Staged(next) /\ x.fit = {}
      BY <2>1, <2>2, <2>4 DEF Worked, Staged, KnowsDeliver
    <3>2. OnTrip(next, d) /\ db[Batch(d)] = "HandedOver" /\ next.mine[Batch(d)] = "HandedOver"
      BY <2>2, <2>4 DEF KnowsDeliver, OnTrip
    <3>3. \A o \in Orders : Order(o) \notin DOMAIN x.mine
      BY <2>1, <2>2 DEF KnowsDeliver
    <3>4. InTurnSoFar(next)
      BY <2>4, <3>3 DEF InTurnSoFar
    <3>5. Stocked(next)
      BY <2>1, <2>2, <2>4 DEF KnowsDeliver, Stocked
    <3> HIDE DEF x, d, C
    <3> QED
      BY <2>2, <2>3, <2>4, <3>1, <3>2, <3>3, <3>4, <3>5 DEF KnowsDeliver, C
  <2> QED
    BY <1>3, <2>1, <2>4, <2>5, DeliverWorks, ReadKeeps DEF Resting
<1> QED
  BY <1>1, <1>2, <1>3

\* An order of the batch is locked as it is committed.
LEMMA LockToDeliverKeeps ==
    ASSUME PInv, NEW t \in Requests, NEW o \in Orders, LockOrder(t, o), Kind(t) = "deliver"
    PROVE  PInv'
<1> DEFINE d == job[t].batch
           C == Contents(db, d)
           x == tx[t]
           F == IF Fits(t, o) THEN x.fit \cup {o} ELSE x.fit
           next == [x EXCEPT !.todo = x.todo \ {o}, !.fit = F]
           new == Version(Order(o), View(t, Order(o)))
<1>1. x.pc = "lock" /\ o \in x.todo /\ (\A p \in x.todo : o <= p) /\ Write(t, new, next)
  BY DEF LockOrder, InTurn, At, Lock, Kind
<1>2. KnowsDeliver(db, x, d) /\ d \in DeliveryBatches /\ Order(o) \in Rows
  BY <1>1, DeliverStarts, RowsExist
<1>3. o \in C /\ x.todo \subseteq C
  BY <1>1, <1>2 DEF KnowsDeliver
<1>4. View(t, Order(o)) = db[Order(o)]
  <2>1. Order(o) \in DOMAIN x.mine => x.mine[Order(o)] = db[Order(o)]
    BY <1>1, <1>2 DEF KnowsDeliver, Worked
  <2> QED
    BY <1>2, <2>1, About
<1>5. DOMAIN new = {Order(o)} /\ new[Order(o)] = db[Order(o)]
  BY <1>4, OneVersion
<1>6. F \subseteq Orders /\ F \subseteq x.fit \cup {o}
  BY About DEF IsTx
<1> HIDE DEF F
<1>7. /\ IsTx(next) /\ next.pc = x.pc /\ next.mine = x.mine
      /\ next.fit = F /\ next.todo = x.todo \ {o} /\ next.seen = x.seen
  BY <1>6, About DEF IsTx
<1> HIDE DEF new, next
<1>8. ASSUME NEW y, y.pc = "lock", y.fit = F, y.todo = x.todo \ {o}, Newest(y.mine, new, x.mine)
      PROVE  KnowsDeliver(db, y, d)
  <2>1. /\ DOMAIN y.mine = DOMAIN x.mine \cup {Order(o)} /\ y.mine[Order(o)] = db[Order(o)]
        /\ \A r \in DOMAIN x.mine : r # Order(o) => y.mine[r] = x.mine[r]
    BY <1>5, <1>8 DEF Newest
  <2>2. OnTrip(y, d) /\ y.mine[Batch(d)] = x.mine[Batch(d)]
    BY <1>2, <2>1, RowNames DEF KnowsDeliver, OnTrip
  <2>3. Staged(y) /\ Worked(y) = {} /\ Worked(x) = {}
    BY <1>1, <1>8 DEF Staged, Worked
  <2>4. ASSUME NEW p \in Orders
        PROVE  /\ Parcel(p) \in DOMAIN y.mine <=> Parcel(p) \in DOMAIN x.mine
               /\ Order(p) \in DOMAIN y.mine <=> Order(p) \in DOMAIN x.mine \/ p = o
               /\ Order(p) \in DOMAIN x.mine /\ p # o => y.mine[Order(p)] = x.mine[Order(p)]
               /\ Entry(d, p) \in DOMAIN y.mine <=> Entry(d, p) \in DOMAIN x.mine
    BY <2>1, RowNames
  <2>5. InTurnSoFar(y)
    <3>1. \A p \in Orders : Order(p) \in DOMAIN x.mine => \A q \in x.todo : p < q
      BY <1>1, <1>2 DEF KnowsDeliver, InTurnSoFar
    <3>2. \A q \in x.todo : q \in Nat /\ o \in Nat
      BY <1>3, OrdersAssumption DEF Contents
    <3>3. \A q \in x.todo \ {o} : o < q
      BY <1>1, <3>2
    <3> HIDE DEF x
    <3> QED
      BY <1>8, <2>4, <3>1, <3>3 DEF InTurnSoFar
  <2> HIDE DEF x, d, C
  <2>6. ASSUME NEW p \in Orders
        PROVE  /\ Order(p) \in DOMAIN y.mine => p \in C
               /\ Order(p) \in DOMAIN y.mine => y.mine[Order(p)] = db[Order(p)]
               /\ p \in y.fit => Order(p) \in DOMAIN y.mine
               /\ Parcel(p) \notin DOMAIN y.mine /\ Entry(d, p) \notin DOMAIN y.mine
    BY <1>1, <1>2, <1>3, <1>6, <1>8, <2>1, <2>3, <2>4 DEF KnowsDeliver, C
  <2>7. y.todo \subseteq C /\ db[Batch(d)] = "HandedOver" /\ y.mine[Batch(d)] = "HandedOver"
    BY <1>2, <1>3, <1>8, <2>2 DEF KnowsDeliver
  <2>8. Stocked(y)
    <3>1. DOMAIN x.mine \cap StockRows = {}
      BY <1>1, <1>2 DEF KnowsDeliver, Stocked
    <3> QED
      BY <1>8, <2>1, <3>1, StockNames, NotCounting
  <2> QED
    BY <1>8, <2>2, <2>3, <2>5, <2>6, <2>7, <2>8 DEF KnowsDeliver, C
<1> QED
  BY <1>1, <1>2, <1>5, <1>7, <1>8, DeliverWorks, WriteKeeps DEF Resting

\* A delivery of nothing is refused.
LEMMA SomeToDeliverKeeps ==
    ASSUME PInv, NEW t \in Requests, SomeToDeliver(t)
    PROVE  PInv'
<1> DEFINE x == tx[t]
           d == job[t].batch
           next == GoOn(t)
<1>1. Fail(t) \/ (x.fit # {} /\ Read(t, next))
  BY DEF SomeToDeliver
<1>2. CASE Fail(t)
  BY <1>2, FailKeeps
<1>3. CASE x.fit # {} /\ Read(t, next)
  <2>1. Kind(t) = "deliver" /\ x.pc = "lock"
    BY DEF SomeToDeliver, AllLocked, At
  <2>2. KnowsDeliver(db, x, d)
    BY <2>1, DeliverStarts
  <2>3. /\ IsTx(next) /\ next.pc = "work" /\ next.mine = x.mine /\ next.fit = x.fit /\ next.todo = x.fit
    BY <1>3, About DEF GoOn, IsTx
  <2> HIDE DEF next
  <2>4. KnowsDeliver(db, next, d)
    <3>1. Staged(next) /\ Worked(next) = {} /\ Worked(x) = {} /\ InTurnSoFar(next)
      BY <2>1, <2>3 DEF Staged, Worked, InTurnSoFar
    <3>2. Stocked(next)
      BY <2>3 DEF Stocked
    <3> HIDE DEF x
    <3> QED
      BY <1>3, <2>1, <2>2, <2>3, <3>1, <3>2 DEF KnowsDeliver, OnTrip
  <2> QED
    BY <1>3, <2>1, <2>3, <2>4, DeliverWorks, ReadKeeps DEF Resting
<1> QED
  BY <1>1, <1>2, <1>3

\* The guarded UPDATE delivers only what is with the courier.
LEMMA DeliverOrderKeeps ==
    ASSUME PInv, NEW t \in Requests, NEW o \in Orders, DeliverOrder(t, o)
    PROVE  PInv'
<1> DEFINE d == job[t].batch
           C == Contents(db, d)
           x == tx[t]
           next == Counting(Done(t, o), StockOf["deliver"][o])
           new == Moved(o, "Delivered", "Delivered")
<1>1. Kind(t) = "deliver" /\ x.pc = "work" /\ o \in x.todo
  BY DEF DeliverOrder, At, InTurn
<1>2. Fail(t) \/ (View(t, Order(o)) = "Dispatched" /\ View(t, Parcel(o)) = "WithCourier" /\ Write(t, new, next))
  BY DEF DeliverOrder
<1>3. CASE Fail(t)
  BY <1>3, FailKeeps
<1>4. CASE View(t, Order(o)) = "Dispatched" /\ View(t, Parcel(o)) = "WithCourier" /\ Write(t, new, next)
  <2>1. KnowsDeliver(db, x, d) /\ Order(o) \in Rows /\ Parcel(o) \in Rows
    BY <1>1, DeliverStarts, RowsExist
  <2>2. /\ o \in x.fit /\ x.fit # {} /\ x.todo \subseteq x.fit /\ o \notin Worked(x)
        /\ Order(o) \in DOMAIN x.mine /\ Parcel(o) \notin DOMAIN x.mine
    BY <1>1, <2>1 DEF KnowsDeliver, Staged, Worked
  <2>3. db[Order(o)] = "Dispatched" /\ db[Parcel(o)] = "WithCourier"
    <3>1. x.mine[Order(o)] = db[Order(o)]
      BY <2>1, <2>2 DEF KnowsDeliver
    <3> QED
      BY <1>4, <2>1, <2>2, <3>1, About
  <2>4. DOMAIN new = {Order(o), Parcel(o)} /\ new[Order(o)] = "Delivered" /\ new[Parcel(o)] = "Delivered"
    BY MovedIs
  <2>5. /\ IsTx(next) /\ next.pc = "stock" /\ next.mine = x.mine /\ next.fit = x.fit /\ next.todo = x.todo \ {o}
        /\ next.seen \subseteq StockRows
    BY About, CountedOrder, CountedRows
  <2> HIDE DEF new, next
  <2>6. ASSUME NEW y, y.pc = "stock", y.fit = x.fit, y.todo = x.todo \ {o}, y.seen = next.seen, Newest(y.mine, new, x.mine)
        PROVE  KnowsDeliver(db, y, d)
    <3>1. /\ DOMAIN y.mine = DOMAIN x.mine \cup {Order(o), Parcel(o)}
          /\ y.mine[Order(o)] = "Delivered" /\ y.mine[Parcel(o)] = "Delivered"
          /\ \A r \in DOMAIN x.mine : r # Order(o) /\ r # Parcel(o) => y.mine[r] = x.mine[r]
      BY <2>4, <2>6 DEF Newest
    <3>2. OnTrip(y, d) /\ y.mine[Batch(d)] = "HandedOver" /\ db[Batch(d)] = "HandedOver"
      <4>1. OnTrip(x, d) /\ x.mine[Batch(d)] = "HandedOver" /\ db[Batch(d)] = "HandedOver"
        BY <2>1 DEF KnowsDeliver
      <4> HIDE DEF x, d
      <4> QED
        BY <3>1, <4>1, RowNames DEF OnTrip
    <3>3. Staged(y) /\ Worked(y) = Worked(x) \cup {o} /\ InTurnSoFar(y) /\ y.pc \in {"work", "stock", "commit"} /\ Stocked(y)
      BY <1>1, <2>2, <2>5, <2>6 DEF Staged, Worked, InTurnSoFar, Stocked
    <3>4. ASSUME NEW p \in Orders
          PROVE  /\ Parcel(p) \in DOMAIN y.mine <=> Parcel(p) \in DOMAIN x.mine \/ p = o
                 /\ Parcel(p) \in DOMAIN x.mine /\ p # o => y.mine[Parcel(p)] = x.mine[Parcel(p)]
                 /\ Order(p) \in DOMAIN y.mine <=> Order(p) \in DOMAIN x.mine
                 /\ Order(p) \in DOMAIN x.mine /\ p # o => y.mine[Order(p)] = x.mine[Order(p)]
                 /\ Entry(d, p) \in DOMAIN y.mine <=> Entry(d, p) \in DOMAIN x.mine
      BY <2>2, <3>1, RowNames
    <3> HIDE DEF x, d, C
    <3>5. ASSUME NEW p \in Orders
          PROVE  /\ Order(p) \in DOMAIN y.mine => p \in C
                 /\ Order(p) \in DOMAIN y.mine => y.mine[Order(p)] = IF p \in Worked(y) THEN "Delivered" ELSE db[Order(p)]
                 /\ p \in y.fit => Order(p) \in DOMAIN y.mine
                 /\ Parcel(p) \in DOMAIN y.mine <=> p \in Worked(y)
                 /\ p \in Worked(y) => /\ y.mine[Parcel(p)] = "Delivered"
                                       /\ db[Order(p)] = "Dispatched" /\ db[Parcel(p)] = "WithCourier"
                 /\ Entry(d, p) \notin DOMAIN y.mine
      <4>1. /\ Order(p) \in DOMAIN x.mine => p \in C
            /\ Order(p) \in DOMAIN x.mine => x.mine[Order(p)] = IF p \in Worked(x) THEN "Delivered" ELSE db[Order(p)]
            /\ p \in x.fit => Order(p) \in DOMAIN x.mine
            /\ Parcel(p) \in DOMAIN x.mine <=> p \in Worked(x)
            /\ p \in Worked(x) => /\ x.mine[Parcel(p)] = "Delivered"
                                  /\ db[Order(p)] = "Dispatched" /\ db[Parcel(p)] = "WithCourier"
            /\ Entry(d, p) \notin DOMAIN x.mine
        BY <2>1 DEF KnowsDeliver, C
      <4>2. CASE p = o
        BY <2>2, <2>3, <2>6, <3>1, <3>3, <3>4, <4>1, <4>2
      <4>3. CASE p # o
        BY <2>6, <3>3, <3>4, <4>1, <4>3
      <4> QED
        BY <4>2, <4>3
    <3> QED
      BY <2>2, <2>6, <3>2, <3>3, <3>5 DEF KnowsDeliver, C
  <2> QED
    BY <1>1, <1>4, <2>1, <2>4, <2>5, <2>6, DeliverWorks, WriteKeeps DEF Resting
<1> QED
  BY <1>2, <1>3, <1>4

-----------------------------------------------------------------------------
(* Counting units *)

\* One more row of stock or figures leaves the other rows as they were.
LEMMA StockBeside ==
    ASSUME NEW x, NEW y, NEW s \in Stock, NEW v, Newest(y.mine, Version(Units(s), v), x.mine)
    PROVE  /\ DOMAIN y.mine \ StockRows = DOMAIN x.mine \ StockRows
           /\ DOMAIN x.mine \subseteq DOMAIN y.mine
           /\ \A r : r \notin StockRows => (r \in DOMAIN y.mine <=> r \in DOMAIN x.mine)
           /\ \A r \in DOMAIN x.mine : r \notin StockRows => y.mine[r] = x.mine[r]
<1>1. DOMAIN Version(Units(s), v) = {Units(s)}
  BY OneVersion
<1>2. Units(s) \in StockRows
  BY DEF StockRows
<1> QED
  BY <1>1, <1>2 DEF Newest

\* What a request that counts units knows is about other rows.
LEMMA LockStockKeeps ==
    ASSUME PInv, NEW t \in Requests, NEW s \in Stock, LockStock(t, s)
    PROVE  PInv'
<1> DEFINE x == tx[t]
           d == job[t].batch
           new == Version(Units(s), View(t, Units(s)))
           pc == CASE tx[t].seen # {Units(s)} -> "stock" [] tx[t].todo # {} -> "work" [] OTHER -> "commit"
           next == [tx[t] EXCEPT !.seen = @ \ {Units(s)}, !.pc = pc]
<1>1. x.pc = "stock" /\ Write(t, new, next)
  BY DEF LockStock, Lock, At
<1>2. Units(s) \in Rows /\ DOMAIN new = {Units(s)}
  BY OneVersion, RowsExist DEF StockRows
<1>3. pc \in {"stock", "work", "commit"} /\ (pc = "commit" => x.todo = {}) /\ (pc = "work" => x.todo # {})
  OBVIOUS
<1> HIDE DEF pc
<1>4. /\ IsTx(next) /\ next.pc = pc /\ next.mine = x.mine /\ next.fit = x.fit /\ next.todo = x.todo
      /\ next.seen = x.seen \ {Units(s)}
  BY About DEF IsTx
<1>5. Knows(db, x, job[t]) /\ Working(db, x, job[t]) /\ job[t].kind \in Kinds /\ d \in DeliveryBatches
  BY <1>1, About DEF Knows, Resting
<1>6. job[t].kind \in {"confirmReturn", "handOver", "deliver"}
  BY <1>1, <1>5 DEF Working, Kinds, KnowsConfirm, KnowsCancel, KnowsNotDelivered, KnowsCancelReturn, KnowsAdd,
       KnowsCancelBatch
<1> HIDE DEF new, next
<1>7. ASSUME NEW y, y.pc = pc, y.fit = x.fit, y.todo = x.todo, y.seen = x.seen \ {Units(s)}, Newest(y.mine, new, x.mine)
      PROVE  Working(db, y, job[t])
  <2>1. /\ DOMAIN y.mine \ StockRows = DOMAIN x.mine \ StockRows
        /\ DOMAIN x.mine \subseteq DOMAIN y.mine
        /\ \A r : r \notin StockRows => (r \in DOMAIN y.mine <=> r \in DOMAIN x.mine)
        /\ \A r \in DOMAIN x.mine : r \notin StockRows => y.mine[r] = x.mine[r]
    BY <1>7, StockBeside DEF new
  <2>2. \A o : /\ Order(o) \in DOMAIN y.mine <=> Order(o) \in DOMAIN x.mine
               /\ Order(o) \in DOMAIN x.mine => y.mine[Order(o)] = x.mine[Order(o)]
               /\ Parcel(o) \in DOMAIN y.mine <=> Parcel(o) \in DOMAIN x.mine
               /\ Parcel(o) \in DOMAIN x.mine => y.mine[Parcel(o)] = x.mine[Parcel(o)]
    BY <2>1, StockNames
  <2>3. \A e, o : /\ Entry(e, o) \in DOMAIN y.mine <=> Entry(e, o) \in DOMAIN x.mine
                  /\ Entry(e, o) \in DOMAIN x.mine => y.mine[Entry(e, o)] = x.mine[Entry(e, o)]
    BY <2>1, StockNames
  <2>4. /\ Batch(d) \in DOMAIN x.mine => Batch(d) \in DOMAIN y.mine /\ y.mine[Batch(d)] = x.mine[Batch(d)]
        /\ \A o, n : Return(o, n) \in DOMAIN x.mine => y.mine[Return(o, n)] = x.mine[Return(o, n)]
    BY <2>1, StockNames
  <2>5. Stocked(x) => Stocked(y)
    BY <1>1, <1>3, <1>7 DEF Stocked
  <2>6. CASE job[t].kind = "confirmReturn"
    <3>1. KnowsConfirmReturn(db, x, job[t].order, job[t].nth) /\ x.todo = {}
      BY <1>5, <2>6 DEF Working, KnowsConfirmReturn
    <3>2. KnowsConfirmReturn(db, y, job[t].order, job[t].nth)
      BY <1>1, <1>3, <1>7, <2>1, <2>2, <2>4, <2>5, <3>1 DEF KnowsConfirmReturn
    <3> QED
      BY <2>6, <3>2 DEF Working
  <2>7. Staged(x) => Staged(y) /\ Worked(y) = Worked(x) /\ InTurnSoFar(y)
    BY <1>1, <1>3, <1>7 DEF Staged, Worked, InTurnSoFar
  <2>8. OnTrip(x, d) => OnTrip(y, d)
    BY <2>1, <2>4 DEF OnTrip
  <2>9. CASE job[t].kind = "handOver"
    <3>1. KnowsHandOver(db, x, d)
      BY <1>5, <2>9 DEF Working
    <3>2. KnowsHandOver(db, y, d)
      BY <1>1, <1>3, <1>7, <2>2, <2>3, <2>4, <2>5, <2>7, <2>8, <3>1 DEF KnowsHandOver, OnTrip
    <3> QED
      BY <2>9, <3>2 DEF Working
  <2>10. CASE job[t].kind = "deliver"
    <3>1. KnowsDeliver(db, x, d)
      BY <1>5, <2>10 DEF Working
    <3>2. KnowsDeliver(db, y, d)
      BY <1>1, <1>3, <1>7, <2>2, <2>3, <2>4, <2>5, <2>7, <2>8, <3>1 DEF KnowsDeliver, OnTrip
    <3> QED
      BY <2>10, <3>2 DEF Working
  <2> QED
    BY <1>6, <2>6, <2>9, <2>10
<1>8. IsTx(next) /\ next.mine = tx[t].mine /\ DOMAIN new \subseteq Rows /\ next.pc \notin Resting
  BY <1>2, <1>3, <1>4 DEF Resting
<1>9. \A y : /\ IsTx(y) /\ y.pc = next.pc /\ y.todo = next.todo /\ y.fit = next.fit /\ y.seen = next.seen
             /\ Newest(y.mine, new, tx[t].mine)
             => Working(db, y, job[t])
  BY <1>4, <1>7
<1> QED
  BY <1>1, <1>8, <1>9, WriteKeeps

-----------------------------------------------------------------------------
(* What a request knows outlives the COMMIT of another *)

\* What a COMMIT of another request leaves of the rows somebody goes by who has D locked: those in D;
\* the contents of a batch in D; that an order in D joins no batch; that only what was Confirmed, or
\* Pending, is Confirmed.
Spares(rows, after, D) ==
    /\ \A r \in D : after[r] = rows[r]
    /\ \A d \in DeliveryBatches : Batch(d) \in D => \A o \in Orders : after[Entry(d, o)] = rows[Entry(d, o)]
    /\ \A o \in Orders, d \in DeliveryBatches :
        Order(o) \in D /\ after[Entry(d, o)] = "Active" => rows[Entry(d, o)] = "Active"
    /\ \A o \in Orders : after[Order(o)] = "Confirmed" => rows[Order(o)] \in {"Pending", "Confirmed"}

\* The contents of a locked batch are spared.
LEMMA ContentsSpared ==
    ASSUME NEW rows, NEW after, NEW D, Spares(rows, after, D), NEW d \in DeliveryBatches, Batch(d) \in D
    PROVE  Contents(after, d) = Contents(rows, d)
BY DEF Spares, Contents

\* The facts a confirmation goes by are about rows it has locked.
LEMMA ConfirmOutlives ==
    ASSUME NEW rows, NEW after, NEW x, NEW o, Spares(rows, after, DOMAIN x.mine), KnowsConfirm(rows, x, o)
    PROVE  KnowsConfirm(after, x, o)
BY DEF Spares, KnowsConfirm

\* So are a cancellation's,
LEMMA CancelOutlives ==
    ASSUME NEW rows, NEW after, NEW x, NEW o, Spares(rows, after, DOMAIN x.mine), KnowsCancel(rows, x, o)
    PROVE  KnowsCancel(after, x, o)
BY DEF Spares, KnowsCancel

\* those of a parcel reported undelivered,
LEMMA NotDeliveredOutlives ==
    ASSUME NEW rows, NEW after, NEW x, NEW o, Spares(rows, after, DOMAIN x.mine), KnowsNotDelivered(rows, x, o)
    PROVE  KnowsNotDelivered(after, x, o)
BY DEF Spares, KnowsNotDelivered

\* of a return confirmed
LEMMA ConfirmReturnOutlives ==
    ASSUME NEW rows, NEW after, NEW x, NEW o, NEW n, Spares(rows, after, DOMAIN x.mine),
           KnowsConfirmReturn(rows, x, o, n)
    PROVE  KnowsConfirmReturn(after, x, o, n)
BY DEF Spares, KnowsConfirmReturn

\* and of a return cancelled.
LEMMA CancelReturnOutlives ==
    ASSUME NEW rows, NEW after, NEW x, NEW o, NEW n, Spares(rows, after, DOMAIN x.mine),
           KnowsCancelReturn(rows, x, o, n)
    PROVE  KnowsCancelReturn(after, x, o, n)
BY DEF Spares, KnowsCancelReturn

\* A batch to be cancelled is locked, and so its contents stay.
LEMMA CancelBatchOutlives ==
    ASSUME NEW rows, NEW after, NEW x, NEW d \in DeliveryBatches, Spares(rows, after, DOMAIN x.mine),
           KnowsCancelBatch(rows, x, d)
    PROVE  KnowsCancelBatch(after, x, d)
<1>1. Batch(d) \in DOMAIN x.mine
  BY DEF KnowsCancelBatch
<1>2. Contents(after, d) = Contents(rows, d) /\ after[Batch(d)] = rows[Batch(d)]
  BY <1>1, ContentsSpared DEF Spares
<1> QED
  BY <1>2 DEF KnowsCancelBatch

\* An order to be added is locked, and so no other request puts it in a batch.
LEMMA AddOutlives ==
    ASSUME NEW rows, NEW after, NEW x, NEW d \in DeliveryBatches, NEW status, NEW wanted,
           Spares(rows, after, DOMAIN x.mine), KnowsAdd(rows, x, d, status, wanted), IsTx(x)
    PROVE  KnowsAdd(after, x, d, status, wanted)
<1>1. Batch(d) \in DOMAIN x.mine
  BY DEF KnowsAdd, OnTrip
<1>2. Contents(after, d) = Contents(rows, d) /\ after[Batch(d)] = rows[Batch(d)]
  BY <1>1, ContentsSpared DEF Spares
<1>3. \A o \in Orders : Order(o) \in DOMAIN x.mine => after[Order(o)] = rows[Order(o)]
  BY DEF Spares
<1>4. ASSUME NEW o \in Orders, o \in Worked(x), NEW e \in DeliveryBatches
      PROVE  after[Entry(e, o)] # "Active"
  <2>1. o \in x.fit
    BY <1>4 DEF Worked
  <2>2. Order(o) \in DOMAIN x.mine /\ rows[Entry(e, o)] # "Active"
    BY <1>4, <2>1 DEF KnowsAdd
  <2> QED
    BY <2>2 DEF Spares
<1> QED
  BY <1>2, <1>3, <1>4 DEF KnowsAdd

\* An order of the batch that did not look ready may become ready only from Pending, and none of them is
\* Pending.
LEMMA HandOverOutlives ==
    ASSUME NEW rows, NEW after, NEW x, NEW d \in DeliveryBatches, RowsAgree(rows),
           Spares(rows, after, DOMAIN x.mine), KnowsHandOver(rows, x, d)
    PROVE  KnowsHandOver(after, x, d)
<1>1. Batch(d) \in DOMAIN x.mine
  BY DEF KnowsHandOver, OnTrip
<1>2. Contents(after, d) = Contents(rows, d) /\ after[Batch(d)] = rows[Batch(d)]
  BY <1>1, ContentsSpared DEF Spares
<1>3. \A o \in Orders : Order(o) \in DOMAIN x.mine => after[Order(o)] = rows[Order(o)]
  BY DEF Spares
<1>4. ASSUME NEW o \in Orders, x.pc = "lock", o \in Contents(rows, d) \ x.seen
      PROVE  after[Order(o)] # "Confirmed"
  <2>1. rows[Order(o)] # "Confirmed"
    BY <1>4 DEF KnowsHandOver
  <2>2. rows[Order(o)] # "Pending"
    BY <1>4 DEF RowsAgree, NoneLeftBehind, Contents
  <2> QED
    BY <2>1, <2>2 DEF Spares
<1> QED
  BY <1>2, <1>3, <1>4 DEF KnowsHandOver

\* A delivery's facts are about rows it has locked and its batch's contents.
LEMMA DeliverOutlives ==
    ASSUME NEW rows, NEW after, NEW x, NEW d \in DeliveryBatches,
           Spares(rows, after, DOMAIN x.mine), KnowsDeliver(rows, x, d)
    PROVE  KnowsDeliver(after, x, d)
<1>1. Batch(d) \in DOMAIN x.mine
  BY DEF KnowsDeliver, OnTrip
<1>2. Contents(after, d) = Contents(rows, d) /\ after[Batch(d)] = rows[Batch(d)]
  BY <1>1, ContentsSpared DEF Spares
<1>3. \A o \in Orders : Order(o) \in DOMAIN x.mine => after[Order(o)] = rows[Order(o)]
  BY DEF Spares
<1>4. \A o \in Orders : Parcel(o) \in DOMAIN x.mine => after[Parcel(o)] = rows[Parcel(o)]
  BY DEF Spares
<1>5. ASSUME NEW o \in Orders, o \in Worked(x)
      PROVE  after[Order(o)] = "Dispatched" /\ after[Parcel(o)] = "WithCourier"
  <2>1. o \in x.fit
    BY <1>5 DEF Worked
  <2>2. Order(o) \in DOMAIN x.mine /\ Parcel(o) \in DOMAIN x.mine
    BY <1>5, <2>1 DEF KnowsDeliver
  <2>3. rows[Order(o)] = "Dispatched" /\ rows[Parcel(o)] = "WithCourier"
    BY <1>5 DEF KnowsDeliver
  <2> QED
    BY <1>3, <1>4, <2>2, <2>3
<1> QED
  BY <1>2, <1>3, <1>5 DEF KnowsDeliver

\* What any request knows outlives the COMMIT of another.
LEMMA KnowledgeOutlives ==
    ASSUME NEW rows, NEW after, NEW x, NEW j, j.batch \in DeliveryBatches, RowsAgree(rows),
           Spares(rows, after, DOMAIN x.mine), Knows(rows, x, j)
    PROVE  Knows(after, x, j)
<1>1. IsTx(x)
  BY DEF Knows
<1>2. CASE x.pc \in Resting
  BY <1>2 DEF Knows
<1>3. CASE x.pc \notin Resting
  <2>1. Working(rows, x, j)
    BY <1>3 DEF Knows
  <2>2. Working(after, x, j)
    BY <1>1, <2>1, ConfirmOutlives, CancelOutlives, NotDeliveredOutlives, ConfirmReturnOutlives, CancelReturnOutlives,
       CancelBatchOutlives, AddOutlives, HandOverOutlives, DeliverOutlives DEF Working
  <2> QED
    BY <1>1, <1>3, <2>2 DEF Knows
<1> QED
  BY <1>2, <1>3

-----------------------------------------------------------------------------
(* COMMIT of an order's own record *)

\* The rows after the COMMIT of x.
After(rows, x) == [r \in Rows |-> IF r \in DOMAIN x.mine THEN x.mine[r] ELSE rows[r]]

\* The pairs of an order's and its parcel's rows that do not contradict each other.
Paired(a, b) ==
    \/ a = "Cancelled" /\ b \in {"None", "Preparing"}
    \/ a = "Pending" /\ b = "None"
    \/ a = "Confirmed" /\ b = "Preparing"
    \/ a = "Dispatched" /\ b = "WithCourier"
    \/ a = "Delivered" /\ b = "Delivered"
    \/ a = "Dispatched" /\ b = "Failed"
    \/ a = "Returned" /\ b = "BackInShop"

\* They are the standings, and the two ways of being cancelled.
LEMMA PairsAgree ==
    ASSUME NEW a, NEW b
    PROVE  Paired(a, b) <=> /\ a = "Cancelled" => b \in {"None", "Preparing"}
                            /\ a # "Cancelled" => \E s \in DOMAIN Standings : Standings[s] = <<a, b>>
<1>1. (\E s \in DOMAIN Standings : Standings[s] = <<a, b>>) <=> Paired(a, b) /\ a # "Cancelled"
  BY StandingPairs DEF Paired
<1> QED
  BY <1>1 DEF Paired

\* Committed rows are such pairs.
LEMMA AgreePairs ==
    ASSUME NEW rows, RowsAgree(rows), NEW o \in Orders
    PROVE  Paired(rows[Order(o)], rows[Parcel(o)])
BY PairsAgree DEF RowsAgree, OrderAndParcelAgree

\* All that is not the record of o stays.
Elsewhere(rows, after, o) ==
    /\ \A d \in DeliveryBatches : after[Batch(d)] = rows[Batch(d)]
    /\ \A d \in DeliveryBatches, p \in Orders : after[Entry(d, p)] = rows[Entry(d, p)]
    /\ \A p \in Orders : p # o => after[Order(p)] = rows[Order(p)] /\ after[Parcel(p)] = rows[Parcel(p)]
    /\ \A p \in Orders : p # o => \A n \in 1..MaxReturns : after[Return(p, n)] = rows[Return(p, n)]

\* The parcel has left, and the order that left.
Gone(b) == b \in {"WithCourier", "Failed", "Delivered", "BackInShop"}
Sent(a) == a \in {"Dispatched", "Delivered", "Returned"}

\* The returns of o fit where its parcel is.
ReturnsFit(rows, o) ==
    /\ \A n \in 1..MaxReturns : rows[Return(o, n)] \in ReturnStatus
    /\ rows[Parcel(o)] = "Failed" <=> \E n \in 1..MaxReturns : IsPending(rows, o, n)
    /\ \A m, n \in 1..MaxReturns : IsPending(rows, o, m) /\ IsPending(rows, o, n) => m = n

\* In committed rows the returns of every order fit.
LEMMA ReturnsDoFit ==
    ASSUME NEW rows, RowsAgree(rows), NEW o \in Orders
    PROVE  ReturnsFit(rows, o)
BY DEF RowsAgree, RowTypes, OrderAndParcelAgree, ReturnsFit

\* One order's record moves on, and its parcel does not leave or come back for its batch.
LEMMA RecordAgrees ==
    ASSUME NEW rows, NEW after, NEW o \in Orders, RowsAgree(rows), Elsewhere(rows, after, o),
           Paired(after[Order(o)], after[Parcel(o)]), after[Order(o)] # "Pending", ReturnsFit(after, o),
           Gone(after[Parcel(o)]) => Gone(rows[Parcel(o)]), Sent(rows[Order(o)]) => Sent(after[Order(o)])
    PROVE  RowsAgree(after)
<1>1. RowTypes(after)
  <2>1. ASSUME NEW p \in Orders
        PROVE  after[Order(p)] \in OrderStatus /\ after[Parcel(p)] \in DeliveryStatus
    <3>1. CASE p = o
      BY <3>1 DEF Paired, OrderStatus, DeliveryStatus
    <3>2. CASE p # o
      BY <3>2 DEF RowsAgree, RowTypes, Elsewhere
    <3> QED
      BY <3>1, <3>2
  <2>2. \A p \in Orders, n \in 1..MaxReturns : after[Return(p, n)] \in ReturnStatus
    BY DEF RowsAgree, RowTypes, Elsewhere, ReturnsFit
  <2>3. \A d \in DeliveryBatches : after[Batch(d)] \in BatchStatus /\ \A p \in Orders : after[Entry(d, p)] \in EntryStatus
    BY DEF RowsAgree, RowTypes, Elsewhere
  <2> QED
    BY <2>1, <2>2, <2>3 DEF RowTypes
<1>2. OrderAndParcelAgree(after)
  <2>1. ASSUME NEW p \in Orders
        PROVE  Paired(after[Order(p)], after[Parcel(p)]) /\ ReturnsFit(after, p)
    <3>1. CASE p = o
      BY <3>1
    <3>2. CASE p # o
      <4>1. Paired(rows[Order(p)], rows[Parcel(p)]) /\ ReturnsFit(rows, p)
        BY AgreePairs, ReturnsDoFit
      <4> QED
        BY <3>2, <4>1 DEF Elsewhere, ReturnsFit, IsPending
    <3> QED
      BY <3>1, <3>2
  <2> QED
    BY <2>1, PairsAgree DEF OrderAndParcelAgree, ReturnsFit
<1>3. OneBatchAtATime(after)
  BY DEF RowsAgree, OneBatchAtATime, Elsewhere
<1>4. LeftInABatch(after)
  <2>1. ASSUME NEW p \in Orders, Gone(after[Parcel(p)])
        PROVE  Gone(rows[Parcel(p)])
    BY <2>1 DEF Elsewhere
  <2> QED
    BY <2>1 DEF RowsAgree, LeftInABatch, Elsewhere, Gone
<1>5. NoneLeftBehind(after)
  <2>1. ASSUME NEW p \in Orders
        PROVE  /\ rows[Order(p)] # "Pending" => after[Order(p)] # "Pending"
               /\ Sent(rows[Order(p)]) => Sent(after[Order(p)])
    BY DEF Elsewhere
  <2> QED
    BY <2>1 DEF RowsAgree, NoneLeftBehind, Elsewhere, Sent
<1> QED
  BY <1>1, <1>2, <1>3, <1>4, <1>5 DEF RowsAgree

\* All other returns of o stay.
OthersStand(rows, after, o, n) == \A m \in 1..MaxReturns : m # n => after[Return(o, m)] = rows[Return(o, m)]

\* Nobody else's order, and no batch, is among what the record of o locked.
LEMMA OwnRecordOnly ==
    ASSUME NEW rows, NEW x, NEW o \in Orders, NEW n,
           DOMAIN x.mine \subseteq {Order(o), Parcel(o), Return(o, n)} \cup StockRows
    PROVE  Elsewhere(rows, After(rows, x), o) /\ OthersStand(rows, After(rows, x), o, n)
<1> DEFINE after == After(rows, x)
<1>1. \A r \in Rows : r \notin {Order(o), Parcel(o), Return(o, n)} /\ r \notin StockRows => after[r] = rows[r]
  BY DEF After
<1> HIDE DEF after
<1>2. \A d \in DeliveryBatches : after[Batch(d)] = rows[Batch(d)]
  BY <1>1, RowsExist, RowNames, StockNames
<1>3. \A d \in DeliveryBatches, p \in Orders : after[Entry(d, p)] = rows[Entry(d, p)]
  BY <1>1, RowsExist, RowNames, StockNames
<1>4. \A p \in Orders : p # o => after[Order(p)] = rows[Order(p)] /\ after[Parcel(p)] = rows[Parcel(p)]
  BY <1>1, RowsExist, RowNames, StockNames
<1>5. \A p \in Orders : p # o => \A m \in 1..MaxReturns : after[Return(p, m)] = rows[Return(p, m)]
  BY <1>1, RowsExist, RowNames, StockNames
<1>6. \A m \in 1..MaxReturns : m # n => after[Return(o, m)] = rows[Return(o, m)]
  BY <1>1, RowsExist, RowNames, StockNames
<1> QED
  BY <1>2, <1>3, <1>4, <1>5, <1>6 DEF Elsewhere, OthersStand, after

\* A pair of rows is one standing.
LEMMA StandingIs ==
    ASSUME NEW rows, NEW o, Paired(rows[Order(o)], rows[Parcel(o)])
    PROVE  /\ rows[Order(o)] = "Cancelled" => StandingOf(rows, o) = "Cancelled"
           /\ rows[Order(o)] = "Pending" => StandingOf(rows, o) = "Pending"
           /\ rows[Order(o)] = "Confirmed" => StandingOf(rows, o) = "Confirmed"
           /\ rows[Order(o)] = "Delivered" => StandingOf(rows, o) = "Delivered"
           /\ rows[Order(o)] = "Returned" => StandingOf(rows, o) = "BackInShop"
           /\ rows[Order(o)] = "Dispatched" /\ rows[Parcel(o)] = "WithCourier" => StandingOf(rows, o) = "WithCourier"
           /\ rows[Order(o)] = "Dispatched" /\ rows[Parcel(o)] = "Failed" => StandingOf(rows, o) = "Failed"
<1> DEFINE a == rows[Order(o)]
           b == rows[Parcel(o)]
<1>1. DOMAIN Standings = {"Pending", "Confirmed", "WithCourier", "Delivered", "Failed", "BackInShop"}
  BY DEF Standings
<1>2. /\ Standings["Pending"] = <<"Pending", "None">> /\ Standings["Confirmed"] = <<"Confirmed", "Preparing">>
      /\ Standings["WithCourier"] = <<"Dispatched", "WithCourier">> /\ Standings["Delivered"] = <<"Delivered", "Delivered">>
      /\ Standings["Failed"] = <<"Dispatched", "Failed">> /\ Standings["BackInShop"] = <<"Returned", "BackInShop">>
  BY DEF Standings
<1>3. CASE a = "Cancelled"
  BY <1>3 DEF StandingOf
<1>4. CASE a # "Cancelled"
  <2>1. StandingOf(rows, o) = CHOOSE s \in DOMAIN Standings : Standings[s] = <<a, b>>
    BY <1>4 DEF StandingOf
  <2>2. \E s \in DOMAIN Standings : Standings[s] = <<a, b>>
    BY <1>4, PairsAgree
  <2>3. StandingOf(rows, o) \in DOMAIN Standings /\ Standings[StandingOf(rows, o)] = <<a, b>>
    BY <2>1, <2>2
  <2> HIDE DEF a, b
  <2>4. /\ a = "Pending" => StandingOf(rows, o) = "Pending"
        /\ a = "Confirmed" => StandingOf(rows, o) = "Confirmed"
        /\ a = "Delivered" => StandingOf(rows, o) = "Delivered"
        /\ a = "Returned" => StandingOf(rows, o) = "BackInShop"
        /\ a = "Dispatched" /\ b = "WithCourier" => StandingOf(rows, o) = "WithCourier"
        /\ a = "Dispatched" /\ b = "Failed" => StandingOf(rows, o) = "Failed"
    BY <1>1, <1>2, <2>3
  <2> QED
    BY <1>4, <2>4 DEF a, b
<1> QED
  BY <1>3, <1>4

\* One order's record moves on from one of the standings `from` to the standing `to`.
RecordMoves(rows, after, o, from, to) ==
    /\ Elsewhere(rows, after, o)
    /\ StandingOf(rows, o) \in from /\ StandingOf(after, o) = to
    /\ after[Order(o)] = "Confirmed" => rows[Order(o)] \in {"Pending", "Confirmed"}

\* Confirming moves the record from Pending to Confirmed.
LEMMA ConfirmCommits ==
    ASSUME NEW rows, RowsAgree(rows), NEW x, NEW o \in Orders, x.pc = "commit", KnowsConfirm(rows, x, o)
    PROVE  RowsAgree(After(rows, x)) /\ RecordMoves(rows, After(rows, x), o, {"Pending"}, "Confirmed")
<1> DEFINE after == After(rows, x)
<1>1. DOMAIN x.mine = {Order(o), Parcel(o)} /\ rows[Order(o)] = "Pending"
  BY DEF KnowsConfirm
<1>2. after[Order(o)] = "Confirmed" /\ after[Parcel(o)] = "Preparing"
  BY RowsExist DEF KnowsConfirm, After
<1>3. \A n \in 1..MaxReturns : Return(o, n) \in Rows /\ Return(o, n) \notin DOMAIN x.mine
  BY <1>1, RowsExist, RowNames
<1>4. \A n \in 1..MaxReturns : after[Return(o, n)] = rows[Return(o, n)]
  BY <1>3 DEF After
<1>5. Elsewhere(rows, after, o)
  BY <1>1, OwnRecordOnly
<1> HIDE DEF after
<1>6. Paired(rows[Order(o)], rows[Parcel(o)]) /\ ReturnsFit(rows, o)
  BY AgreePairs, ReturnsDoFit
<1>7. Paired(after[Order(o)], after[Parcel(o)])
  BY <1>2 DEF Paired
<1>8. rows[Parcel(o)] # "Failed" /\ ~Sent(rows[Order(o)])
  BY <1>1, <1>6 DEF Paired, Sent
<1>9. ReturnsFit(after, o)
  BY <1>2, <1>4, <1>6, <1>8 DEF ReturnsFit, IsPending
<1>10. RowsAgree(after)
  BY <1>2, <1>5, <1>7, <1>8, <1>9, RecordAgrees DEF Gone
<1> QED
  BY <1>1, <1>2, <1>5, <1>6, <1>7, <1>10, StandingIs DEF RecordMoves, after

\* Cancelling moves it from the shop to Cancelled.
LEMMA CancelCommits ==
    ASSUME NEW rows, RowsAgree(rows), NEW x, NEW o \in Orders, KnowsCancel(rows, x, o)
    PROVE  RowsAgree(After(rows, x)) /\ RecordMoves(rows, After(rows, x), o, {"Pending", "Confirmed"}, "Cancelled")
<1> DEFINE after == After(rows, x)
<1>1. DOMAIN x.mine = {Order(o)} /\ rows[Order(o)] \in {"Pending", "Confirmed"}
  BY DEF KnowsCancel
<1>2. after[Order(o)] = "Cancelled"
  BY RowsExist DEF KnowsCancel, After
<1>3. after[Parcel(o)] = rows[Parcel(o)]
  BY <1>1, RowsExist, RowNames DEF After
<1>4. \A n \in 1..MaxReturns : Return(o, n) \in Rows /\ Return(o, n) \notin DOMAIN x.mine
  BY <1>1, RowsExist, RowNames
<1>5. \A n \in 1..MaxReturns : after[Return(o, n)] = rows[Return(o, n)]
  BY <1>4 DEF After
<1>6. Elsewhere(rows, after, o)
  BY <1>1, OwnRecordOnly
<1> HIDE DEF after
<1>7. Paired(rows[Order(o)], rows[Parcel(o)]) /\ ReturnsFit(rows, o)
  BY AgreePairs, ReturnsDoFit
<1>8. Paired(after[Order(o)], after[Parcel(o)]) /\ ~Sent(rows[Order(o)])
  BY <1>1, <1>2, <1>3, <1>7 DEF Paired, Sent
<1>9. ReturnsFit(after, o)
  BY <1>3, <1>5, <1>7 DEF ReturnsFit, IsPending
<1>10. RowsAgree(after)
  BY <1>2, <1>3, <1>6, <1>8, <1>9, RecordAgrees
<1> QED
  BY <1>1, <1>2, <1>6, <1>7, <1>8, <1>10, StandingIs DEF RecordMoves, after

\* Reporting it undelivered moves it from the courier to Failed.
LEMMA NotDeliveredCommits ==
    ASSUME NEW rows, RowsAgree(rows), NEW x, NEW o \in Orders, x.pc = "commit", KnowsNotDelivered(rows, x, o)
    PROVE  RowsAgree(After(rows, x)) /\ RecordMoves(rows, After(rows, x), o, {"WithCourier"}, "Failed")
<1> DEFINE after == After(rows, x)
<1>1. PICK n \in 1..MaxReturns : /\ DOMAIN x.mine = {Order(o), Parcel(o), Return(o, n)}
                                 /\ x.mine[Parcel(o)] = "Failed" /\ x.mine[Return(o, n)] = "Pending"
  BY DEF KnowsNotDelivered
<1>2. rows[Parcel(o)] = "WithCourier" /\ x.mine[Order(o)] = rows[Order(o)]
  BY DEF KnowsNotDelivered
<1>3. after[Order(o)] = rows[Order(o)] /\ after[Parcel(o)] = "Failed" /\ after[Return(o, n)] = "Pending"
  BY <1>1, <1>2, RowsExist DEF After
<1>4. Elsewhere(rows, after, o) /\ \A m \in 1..MaxReturns : m # n => after[Return(o, m)] = rows[Return(o, m)]
  <2>1. Elsewhere(rows, after, o) /\ OthersStand(rows, after, o, n)
    BY <1>1, OwnRecordOnly
  <2> QED
    BY <2>1 DEF OthersStand
<1> HIDE DEF after
<1>5. Paired(rows[Order(o)], rows[Parcel(o)]) /\ ReturnsFit(rows, o)
  BY AgreePairs, ReturnsDoFit
<1>6. rows[Order(o)] = "Dispatched" /\ after[Order(o)] = "Dispatched"
  BY <1>2, <1>3, <1>5 DEF Paired
<1>7. Paired(after[Order(o)], after[Parcel(o)])
  BY <1>3, <1>6 DEF Paired
<1>8. \A m \in 1..MaxReturns : IsPending(after, o, m) <=> m = n
  BY <1>2, <1>3, <1>4, <1>5 DEF ReturnsFit, IsPending
<1>9. ReturnsFit(after, o)
  BY <1>3, <1>4, <1>5, <1>8 DEF ReturnsFit, ReturnStatus
<1>10. RowsAgree(after)
  BY <1>2, <1>4, <1>6, <1>7, <1>9, RecordAgrees DEF Gone
<1> QED
  BY <1>2, <1>3, <1>4, <1>5, <1>6, <1>7, <1>10, StandingIs DEF RecordMoves, after

\* Confirming the return moves it from Failed to back in the shop.
LEMMA ConfirmReturnCommits ==
    ASSUME NEW rows, RowsAgree(rows), NEW x, NEW o \in Orders, NEW n \in 1..MaxReturns, x.pc = "commit",
           KnowsConfirmReturn(rows, x, o, n)
    PROVE  RowsAgree(After(rows, x)) /\ RecordMoves(rows, After(rows, x), o, {"Failed"}, "BackInShop")
<1> DEFINE after == After(rows, x)
<1>1. DOMAIN x.mine \ StockRows = {Return(o, n), Order(o), Parcel(o)} /\ IsPending(rows, o, n)
  BY DEF KnowsConfirmReturn, IsPending
<1>2. after[Return(o, n)] = "Returned" /\ after[Order(o)] = "Returned" /\ after[Parcel(o)] = "BackInShop"
  <2>1. Return(o, n) \in DOMAIN x.mine /\ Order(o) \in DOMAIN x.mine /\ Parcel(o) \in DOMAIN x.mine
    BY <1>1
  <2> QED
    BY <2>1, RowsExist DEF KnowsConfirmReturn, After
<1>3. Elsewhere(rows, after, o) /\ \A m \in 1..MaxReturns : m # n => after[Return(o, m)] = rows[Return(o, m)]
  <2>1. Elsewhere(rows, after, o) /\ OthersStand(rows, after, o, n)
    BY <1>1, OwnRecordOnly
  <2> QED
    BY <2>1 DEF OthersStand
<1> HIDE DEF after
<1>4. Paired(rows[Order(o)], rows[Parcel(o)]) /\ ReturnsFit(rows, o)
  BY AgreePairs, ReturnsDoFit
<1>5. rows[Parcel(o)] = "Failed"
  BY <1>1, <1>4 DEF ReturnsFit
<1>6. rows[Order(o)] = "Dispatched"
  BY <1>4, <1>5 DEF Paired
<1>7. Paired(after[Order(o)], after[Parcel(o)])
  BY <1>2 DEF Paired
<1>8. \A m \in 1..MaxReturns : ~IsPending(after, o, m)
  BY <1>1, <1>2, <1>3, <1>4 DEF ReturnsFit, IsPending
<1>9. ReturnsFit(after, o)
  BY <1>2, <1>3, <1>4, <1>8 DEF ReturnsFit, ReturnStatus
<1>10. RowsAgree(after)
  BY <1>2, <1>3, <1>5, <1>7, <1>9, RecordAgrees DEF Gone, Sent
<1> QED
  BY <1>2, <1>3, <1>4, <1>5, <1>6, <1>7, <1>10, StandingIs DEF RecordMoves, after

\* Cancelling the return moves it from Failed to the courier again.
LEMMA CancelReturnCommits ==
    ASSUME NEW rows, RowsAgree(rows), NEW x, NEW o \in Orders, NEW n \in 1..MaxReturns, x.pc = "commit",
           KnowsCancelReturn(rows, x, o, n)
    PROVE  RowsAgree(After(rows, x)) /\ RecordMoves(rows, After(rows, x), o, {"Failed"}, "WithCourier")
<1> DEFINE after == After(rows, x)
<1>1. DOMAIN x.mine = {Return(o, n), Parcel(o)} /\ IsPending(rows, o, n)
  BY DEF KnowsCancelReturn, IsPending
<1>2. after[Return(o, n)] = "Cancelled" /\ after[Parcel(o)] = "WithCourier"
  BY RowsExist DEF KnowsCancelReturn, After
<1>3. after[Order(o)] = rows[Order(o)]
  BY <1>1, RowsExist, RowNames DEF After
<1>4. Elsewhere(rows, after, o) /\ \A m \in 1..MaxReturns : m # n => after[Return(o, m)] = rows[Return(o, m)]
  <2>1. Elsewhere(rows, after, o) /\ OthersStand(rows, after, o, n)
    BY <1>1, OwnRecordOnly
  <2> QED
    BY <2>1 DEF OthersStand
<1> HIDE DEF after
<1>5. Paired(rows[Order(o)], rows[Parcel(o)]) /\ ReturnsFit(rows, o)
  BY AgreePairs, ReturnsDoFit
<1>6. rows[Parcel(o)] = "Failed"
  BY <1>1, <1>5 DEF ReturnsFit
<1>7. rows[Order(o)] = "Dispatched" /\ after[Order(o)] = "Dispatched"
  BY <1>3, <1>5, <1>6 DEF Paired
<1>8. Paired(after[Order(o)], after[Parcel(o)])
  BY <1>2, <1>7 DEF Paired
<1>9. \A m \in 1..MaxReturns : ~IsPending(after, o, m)
  BY <1>1, <1>2, <1>4, <1>5 DEF ReturnsFit, IsPending
<1>10. ReturnsFit(after, o)
  BY <1>2, <1>4, <1>5, <1>9 DEF ReturnsFit, ReturnStatus
<1>11. RowsAgree(after)
  BY <1>2, <1>4, <1>6, <1>7, <1>8, <1>10, RecordAgrees DEF Gone
<1> QED
  BY <1>2, <1>4, <1>5, <1>6, <1>7, <1>8, <1>11, StandingIs DEF RecordMoves, after

-----------------------------------------------------------------------------
(* COMMIT of a delivery batch *)

\* No other batch and no return is among what the request of batch d locked.
OtherTrips(rows, after, d) ==
    /\ \A e \in DeliveryBatches : e # d => after[Batch(e)] = rows[Batch(e)]
    /\ \A e \in DeliveryBatches, o \in Orders : e # d => after[Entry(e, o)] = rows[Entry(e, o)]
    /\ \A o \in Orders, n \in 1..MaxReturns : after[Return(o, n)] = rows[Return(o, n)]

\* The records of the orders S stay.
SameRecords(rows, after, S) ==
    \A o \in S : after[Order(o)] = rows[Order(o)] /\ after[Parcel(o)] = rows[Parcel(o)]

\* A batch's request changes its batch, its entries and the orders it locked.
LEMMA OwnTripOnly ==
    ASSUME NEW rows, NEW x, NEW d \in DeliveryBatches, OnTrip(x, d)
    PROVE  /\ OtherTrips(rows, After(rows, x), d)
           /\ After(rows, x)[Batch(d)] = x.mine[Batch(d)]
           /\ \A o \in Orders :
                /\ Order(o) \notin DOMAIN x.mine => After(rows, x)[Order(o)] = rows[Order(o)]
                /\ Order(o) \in DOMAIN x.mine => After(rows, x)[Order(o)] = x.mine[Order(o)]
                /\ Parcel(o) \notin DOMAIN x.mine => After(rows, x)[Parcel(o)] = rows[Parcel(o)]
                /\ Parcel(o) \in DOMAIN x.mine => After(rows, x)[Parcel(o)] = x.mine[Parcel(o)]
                /\ Entry(d, o) \notin DOMAIN x.mine => After(rows, x)[Entry(d, o)] = rows[Entry(d, o)]
                /\ Entry(d, o) \in DOMAIN x.mine => After(rows, x)[Entry(d, o)] = x.mine[Entry(d, o)]
<1> DEFINE after == After(rows, x)
<1>1. \A r \in Rows : after[r] = IF r \in DOMAIN x.mine THEN x.mine[r] ELSE rows[r]
  BY DEF After
<1> HIDE DEF after
<1>2. \A e \in DeliveryBatches : e # d => Batch(e) \notin DOMAIN x.mine /\ \A o \in Orders : Entry(e, o) \notin DOMAIN x.mine
  BY RowNames, StockNames DEF OnTrip
<1>3. \A o \in Orders, n \in 1..MaxReturns : Return(o, n) \notin DOMAIN x.mine
  BY RowNames, StockNames DEF OnTrip
<1>4. OtherTrips(rows, after, d)
  BY <1>1, <1>2, <1>3, RowsExist DEF OtherTrips
<1>5. after[Batch(d)] = x.mine[Batch(d)]
  BY <1>1, RowsExist DEF OnTrip
<1> QED
  BY <1>1, <1>4, <1>5, RowsExist DEF after

\* Records that stand, with their returns.
LEMMA SameRecordsAgree ==
    ASSUME NEW rows, NEW after, RowsAgree(rows), SameRecords(rows, after, Orders),
           \A o \in Orders, n \in 1..MaxReturns : after[Return(o, n)] = rows[Return(o, n)]
    PROVE  OrderAndParcelAgree(after)
BY DEF RowsAgree, OrderAndParcelAgree, SameRecords, IsPending

\* A batch still in the shop gets a new set of orders, or is cancelled.
LEMMA RepackAgrees ==
    ASSUME NEW rows, NEW after, NEW d \in DeliveryBatches, RowsAgree(rows), OtherTrips(rows, after, d),
           SameRecords(rows, after, Orders), rows[Batch(d)] \in {"None", "Open"}, after[Batch(d)] \in {"Open", "Cancelled"},
           \A o \in Orders : after[Entry(d, o)] \in EntryStatus,
           \A o \in Contents(after, d) :
               /\ after[Batch(d)] = "Open"
               /\ \/ o \in Contents(rows, d)
                  \/ rows[Order(o)] = "Confirmed" /\ \A e \in DeliveryBatches : rows[Entry(e, o)] # "Active"
    PROVE  RowsAgree(after)
<1>1. RowTypes(after)
  <2>1. \A o \in Orders : after[Order(o)] \in OrderStatus /\ after[Parcel(o)] \in DeliveryStatus
    BY DEF RowsAgree, RowTypes, SameRecords
  <2>2. ASSUME NEW e \in DeliveryBatches
        PROVE  after[Batch(e)] \in BatchStatus /\ \A o \in Orders : after[Entry(e, o)] \in EntryStatus
    BY DEF RowsAgree, RowTypes, OtherTrips, BatchStatus
  <2>3. \A o \in Orders, n \in 1..MaxReturns : after[Return(o, n)] \in ReturnStatus
    BY DEF RowsAgree, RowTypes, OtherTrips
  <2> QED
    BY <2>1, <2>2, <2>3 DEF RowTypes
<1>2. OrderAndParcelAgree(after)
  BY SameRecordsAgree DEF OtherTrips
<1>3. OneBatchAtATime(after)
  <2> SUFFICES ASSUME NEW o \in Orders, NEW e \in DeliveryBatches, NEW f \in DeliveryBatches,
                      after[Entry(e, o)] = "Active", after[Entry(f, o)] = "Active", e # f
               PROVE  FALSE
    BY DEF OneBatchAtATime
  <2>1. CASE e # d /\ f # d
    BY <2>1 DEF RowsAgree, OneBatchAtATime, OtherTrips
  <2>2. CASE e = d
    BY <2>2 DEF RowsAgree, OneBatchAtATime, OtherTrips, Contents
  <2>3. CASE f = d
    BY <2>3 DEF RowsAgree, OneBatchAtATime, OtherTrips, Contents
  <2> QED
    BY <2>1, <2>2, <2>3
<1>4. LeftInABatch(after)
  BY DEF RowsAgree, LeftInABatch, OtherTrips, SameRecords
<1>5. NoneLeftBehind(after)
  <2> SUFFICES ASSUME NEW o \in Orders, NEW e \in DeliveryBatches, after[Entry(e, o)] = "Active"
               PROVE  \/ after[Batch(e)] = "Open" /\ after[Order(o)] # "Pending"
                      \/ after[Batch(e)] = "HandedOver" /\ after[Order(o)] \in {"Dispatched", "Delivered", "Returned"}
    BY DEF NoneLeftBehind
  <2>1. CASE e # d
    BY <2>1 DEF RowsAgree, NoneLeftBehind, OtherTrips, SameRecords
  <2>2. CASE e = d
    BY <2>2 DEF RowsAgree, NoneLeftBehind, SameRecords, Contents
  <2> QED
    BY <2>1, <2>2
<1> QED
  BY <1>1, <1>2, <1>3, <1>4, <1>5 DEF RowsAgree

\* A batch is made or changed.
Repacked(rows, after, d, wanted) ==
    /\ OtherTrips(rows, after, d) /\ SameRecords(rows, after, Orders)
    /\ after[Batch(d)] = "Open" /\ Contents(after, d) = wanted
    /\ \A o \in wanted \ Contents(rows, d) :
        rows[Order(o)] = "Confirmed" /\ \A e \in DeliveryBatches : rows[Entry(e, o)] # "Active"

\* Making or changing a batch leaves it with the orders wanted.
LEMMA AddCommits ==
    ASSUME NEW rows, RowsAgree(rows), NEW x, IsTx(x), NEW d \in DeliveryBatches, NEW status \in {"None", "Open"},
           NEW wanted \in SUBSET Orders, x.pc = "commit", KnowsAdd(rows, x, d, status, wanted)
    PROVE  RowsAgree(After(rows, x)) /\ rows[Batch(d)] = status /\ Repacked(rows, After(rows, x), d, wanted)
<1> DEFINE after == After(rows, x)
           C == Contents(rows, d)
<1>1. OnTrip(x, d) /\ rows[Batch(d)] = status /\ x.mine[Batch(d)] = "Open"
  BY DEF KnowsAdd
<1>2. Worked(x) = wanted \ C
  BY DEF KnowsAdd, Staged, Worked
<1>3. OtherTrips(rows, after, d) /\ after[Batch(d)] = "Open"
  BY <1>1, OwnTripOnly
<1>4. SameRecords(rows, after, Orders)
  BY <1>1, OwnTripOnly DEF KnowsAdd, SameRecords
<1>5. ASSUME NEW o \in Orders
      PROVE  after[Entry(d, o)] = IF o \in C \ wanted THEN "Freed" ELSE IF o \in wanted \ C THEN "Active" ELSE rows[Entry(d, o)]
  <2>1. /\ Entry(d, o) \notin DOMAIN x.mine => after[Entry(d, o)] = rows[Entry(d, o)]
        /\ Entry(d, o) \in DOMAIN x.mine => after[Entry(d, o)] = x.mine[Entry(d, o)]
    BY <1>1, OwnTripOnly
  <2>2. /\ Entry(d, o) \in DOMAIN x.mine <=> o \in C \ wanted \/ o \in wanted \ C
        /\ o \in C \ wanted => x.mine[Entry(d, o)] = "Freed"
        /\ o \in wanted \ C => x.mine[Entry(d, o)] = "Active"
    BY <1>2 DEF KnowsAdd
  <2> HIDE DEF after, C
  <2> QED
    BY <2>1, <2>2
<1>6. \A o \in wanted \ C : rows[Order(o)] = "Confirmed" /\ \A e \in DeliveryBatches : rows[Entry(e, o)] # "Active"
  <2>1. \A o \in wanted \ C : o \in x.fit /\ o \in Orders
    BY <1>2 DEF Worked
  <2> QED
    BY <1>2, <2>1 DEF KnowsAdd
<1> HIDE DEF after
<1>7. Contents(after, d) = wanted
  BY <1>5 DEF Contents
<1>8. \A o \in Orders : after[Entry(d, o)] \in EntryStatus
  BY <1>5 DEF RowsAgree, RowTypes, EntryStatus
<1>9. RowsAgree(after)
  BY <1>1, <1>3, <1>4, <1>6, <1>7, <1>8, RepackAgrees
<1> QED
  BY <1>1, <1>3, <1>4, <1>6, <1>7, <1>9 DEF Repacked, after

\* Cancelling a batch leaves it without orders.
LEMMA CancelBatchCommits ==
    ASSUME NEW rows, RowsAgree(rows), NEW x, NEW d \in DeliveryBatches, KnowsCancelBatch(rows, x, d)
    PROVE  /\ RowsAgree(After(rows, x)) /\ OtherTrips(rows, After(rows, x), d) /\ SameRecords(rows, After(rows, x), Orders)
           /\ rows[Batch(d)] = "Open" /\ After(rows, x)[Batch(d)] = "Cancelled" /\ Contents(After(rows, x), d) = {}
<1> DEFINE after == After(rows, x)
           C == Contents(rows, d)
<1>1. /\ DOMAIN x.mine = {Batch(d)} \cup {Entry(d, o) : o \in C}
      /\ rows[Batch(d)] = "Open" /\ x.mine[Batch(d)] = "Cancelled"
      /\ \A o \in C : x.mine[Entry(d, o)] = "Freed"
  BY DEF KnowsCancelBatch
<1>2. OnTrip(x, d)
  BY <1>1 DEF OnTrip, Contents
<1>3. OtherTrips(rows, after, d) /\ after[Batch(d)] = "Cancelled"
  BY <1>1, <1>2, OwnTripOnly
<1>4. \A o \in Orders : Order(o) \notin DOMAIN x.mine /\ Parcel(o) \notin DOMAIN x.mine
  BY <1>1, RowNames
<1>5. SameRecords(rows, after, Orders)
  BY <1>2, <1>4, OwnTripOnly DEF SameRecords
<1>6. ASSUME NEW o \in Orders
      PROVE  after[Entry(d, o)] = IF o \in C THEN "Freed" ELSE rows[Entry(d, o)]
  <2>1. Entry(d, o) \in DOMAIN x.mine <=> o \in C
    BY <1>1, RowNames
  <2> QED
    BY <1>1, <1>2, <2>1, OwnTripOnly
<1> HIDE DEF after
<1>7. Contents(after, d) = {}
  BY <1>6 DEF Contents
<1>8. \A o \in Orders : after[Entry(d, o)] \in EntryStatus
  BY <1>6 DEF RowsAgree, RowTypes, EntryStatus
<1>9. RowsAgree(after)
  BY <1>1, <1>3, <1>5, <1>7, <1>8, RepackAgrees
<1> QED
  BY <1>1, <1>3, <1>5, <1>7, <1>9 DEF after

\* A batch goes with the orders S; the others it had are freed.
Leaves(rows, after, d, S) ==
    /\ OtherTrips(rows, after, d)
    /\ rows[Batch(d)] = "Open" /\ after[Batch(d)] = "HandedOver"
    /\ S = {o \in Contents(rows, d) : rows[Order(o)] = "Confirmed"} /\ S # {}
    /\ Contents(after, d) = S /\ \A o \in Orders : after[Entry(d, o)] \in EntryStatus
    /\ SameRecords(rows, after, Orders \ S)
    /\ \A o \in S : after[Order(o)] = "Dispatched" /\ after[Parcel(o)] = "WithCourier"

\* When a batch leaves, the rows still agree.
LEMMA LeavingAgrees ==
    ASSUME NEW rows, NEW after, NEW d \in DeliveryBatches, NEW S, RowsAgree(rows), Leaves(rows, after, d, S)
    PROVE  RowsAgree(after)
<1>1. S \subseteq Orders /\ S \subseteq Contents(rows, d)
  BY DEF Leaves, Contents
<1>2. RowTypes(after)
  <2>1. ASSUME NEW o \in Orders
        PROVE  after[Order(o)] \in OrderStatus /\ after[Parcel(o)] \in DeliveryStatus
    BY DEF RowsAgree, RowTypes, Leaves, SameRecords, OrderStatus, DeliveryStatus
  <2>2. ASSUME NEW e \in DeliveryBatches
        PROVE  after[Batch(e)] \in BatchStatus /\ \A o \in Orders : after[Entry(e, o)] \in EntryStatus
    BY DEF RowsAgree, RowTypes, Leaves, OtherTrips, BatchStatus
  <2>3. \A o \in Orders, n \in 1..MaxReturns : after[Return(o, n)] \in ReturnStatus
    BY DEF RowsAgree, RowTypes, Leaves, OtherTrips
  <2> QED
    BY <2>1, <2>2, <2>3 DEF RowTypes
<1>3. OrderAndParcelAgree(after)
  <2>1. ASSUME NEW o \in Orders
        PROVE  Paired(after[Order(o)], after[Parcel(o)]) /\ ReturnsFit(after, o)
    <3>1. Paired(rows[Order(o)], rows[Parcel(o)]) /\ ReturnsFit(rows, o)
      BY AgreePairs, ReturnsDoFit
    <3>2. \A n \in 1..MaxReturns : after[Return(o, n)] = rows[Return(o, n)]
      BY DEF Leaves, OtherTrips
    <3>3. CASE o \in S
      <4>1. rows[Order(o)] = "Confirmed" /\ after[Order(o)] = "Dispatched" /\ after[Parcel(o)] = "WithCourier"
        BY <3>3 DEF Leaves
      <4>2. rows[Parcel(o)] # "Failed"
        BY <3>1, <4>1 DEF Paired
      <4> QED
        BY <3>1, <3>2, <4>1, <4>2 DEF Paired, ReturnsFit, IsPending
    <3>4. CASE o \notin S
      <4>1. after[Order(o)] = rows[Order(o)] /\ after[Parcel(o)] = rows[Parcel(o)]
        BY <3>4 DEF Leaves, SameRecords
      <4> QED
        BY <3>1, <3>2, <4>1 DEF ReturnsFit, IsPending
    <3> QED
      BY <3>3, <3>4
  <2> QED
    BY <2>1, PairsAgree DEF OrderAndParcelAgree, ReturnsFit
<1>4. ASSUME NEW o \in Orders, NEW e \in DeliveryBatches, after[Entry(e, o)] = "Active"
      PROVE  rows[Entry(e, o)] = "Active"
  <2>1. CASE e = d
    BY <1>1, <1>4, <2>1 DEF Leaves, Contents
  <2>2. CASE e # d
    BY <1>4, <2>2 DEF Leaves, OtherTrips
  <2> QED
    BY <2>1, <2>2
<1>5. OneBatchAtATime(after)
  BY <1>4 DEF RowsAgree, OneBatchAtATime
<1>6. LeftInABatch(after)
  <2> SUFFICES ASSUME NEW o \in Orders, Gone(after[Parcel(o)])
               PROVE  \E e \in DeliveryBatches : after[Batch(e)] = "HandedOver" /\ after[Entry(e, o)] = "Active"
    BY DEF LeftInABatch, Gone
  <2>1. CASE o \in S
    <3>1. after[Batch(d)] = "HandedOver" /\ after[Entry(d, o)] = "Active"
      BY <2>1 DEF Leaves, Contents
    <3> QED
      BY <3>1
  <2>2. CASE o \notin S
    <3>1. Gone(rows[Parcel(o)])
      BY <2>2 DEF Leaves, SameRecords
    <3>2. PICK e \in DeliveryBatches : rows[Batch(e)] = "HandedOver" /\ rows[Entry(e, o)] = "Active"
      BY <3>1 DEF RowsAgree, LeftInABatch, Gone
    <3>3. e # d
      BY <3>2 DEF Leaves
    <3> QED
      BY <3>2, <3>3 DEF Leaves, OtherTrips
  <2> QED
    BY <2>1, <2>2
<1>7. NoneLeftBehind(after)
  <2> SUFFICES ASSUME NEW o \in Orders, NEW e \in DeliveryBatches, after[Entry(e, o)] = "Active"
               PROVE  \/ after[Batch(e)] = "Open" /\ after[Order(o)] # "Pending"
                      \/ after[Batch(e)] = "HandedOver" /\ after[Order(o)] \in {"Dispatched", "Delivered", "Returned"}
    BY DEF NoneLeftBehind
  <2>1. CASE e = d
    BY <2>1 DEF Leaves, Contents
  <2>2. CASE e # d
    <3>1. rows[Entry(e, o)] = "Active" /\ after[Batch(e)] = rows[Batch(e)]
      BY <1>4, <2>2 DEF Leaves, OtherTrips
    <3>2. after[Order(o)] = rows[Order(o)] \/ after[Order(o)] = "Dispatched"
      BY DEF Leaves, SameRecords
    <3>3. \/ rows[Batch(e)] = "Open" /\ rows[Order(o)] # "Pending"
          \/ rows[Batch(e)] = "HandedOver" /\ rows[Order(o)] \in {"Dispatched", "Delivered", "Returned"}
      BY <3>1 DEF RowsAgree, NoneLeftBehind
    <3> QED
      BY <3>1, <3>2, <3>3
  <2> QED
    BY <2>1, <2>2
<1> QED
  BY <1>2, <1>3, <1>5, <1>6, <1>7 DEF RowsAgree

\* A handover lets go exactly the orders that are Confirmed at its COMMIT.
LEMMA HandOverCommits ==
    ASSUME NEW rows, RowsAgree(rows), NEW x, IsTx(x), NEW d \in DeliveryBatches, x.pc = "commit", KnowsHandOver(rows, x, d)
    PROVE  RowsAgree(After(rows, x)) /\ Leaves(rows, After(rows, x), d, x.fit)
<1> DEFINE after == After(rows, x)
           C == Contents(rows, d)
<1>1. /\ OnTrip(x, d) /\ rows[Batch(d)] = "Open" /\ x.mine[Batch(d)] = "HandedOver"
      /\ x.fit # {} /\ x.fit \subseteq Orders /\ x.todo = {}
  BY DEF KnowsHandOver, Staged, IsTx
<1>2. Worked(x) = x.fit
  BY <1>1 DEF Worked
<1>3. ASSUME NEW o \in Orders
      PROVE  /\ Order(o) \in DOMAIN x.mine <=> o \in C
             /\ Order(o) \in DOMAIN x.mine => x.mine[Order(o)] = IF o \in x.fit THEN "Dispatched" ELSE rows[Order(o)]
             /\ o \in x.fit <=> Order(o) \in DOMAIN x.mine /\ rows[Order(o)] = "Confirmed"
             /\ Parcel(o) \in DOMAIN x.mine <=> o \in x.fit
             /\ o \in x.fit => x.mine[Parcel(o)] = "WithCourier"
             /\ Entry(d, o) \in DOMAIN x.mine <=> o \in C \ x.fit
             /\ Entry(d, o) \in DOMAIN x.mine => x.mine[Entry(d, o)] = "Freed"
  BY <1>2 DEF KnowsHandOver
<1>4. OtherTrips(rows, after, d) /\ after[Batch(d)] = "HandedOver"
  BY <1>1, OwnTripOnly
<1>5. x.fit = {o \in C : rows[Order(o)] = "Confirmed"}
  BY <1>1, <1>3 DEF Contents
<1>6. ASSUME NEW o \in Orders
      PROVE  /\ o \in x.fit => after[Order(o)] = "Dispatched" /\ after[Parcel(o)] = "WithCourier"
             /\ o \notin x.fit => after[Order(o)] = rows[Order(o)] /\ after[Parcel(o)] = rows[Parcel(o)]
             /\ after[Entry(d, o)] = IF o \in C \ x.fit THEN "Freed" ELSE rows[Entry(d, o)]
  <2>1. /\ Order(o) \notin DOMAIN x.mine => after[Order(o)] = rows[Order(o)]
        /\ Order(o) \in DOMAIN x.mine => after[Order(o)] = x.mine[Order(o)]
        /\ Parcel(o) \notin DOMAIN x.mine => after[Parcel(o)] = rows[Parcel(o)]
        /\ Parcel(o) \in DOMAIN x.mine => after[Parcel(o)] = x.mine[Parcel(o)]
        /\ Entry(d, o) \notin DOMAIN x.mine => after[Entry(d, o)] = rows[Entry(d, o)]
        /\ Entry(d, o) \in DOMAIN x.mine => after[Entry(d, o)] = x.mine[Entry(d, o)]
    BY <1>1, OwnTripOnly
  <2> HIDE DEF after, C
  <2> QED
    BY <1>3, <2>1
<1> HIDE DEF after
<1>7. Contents(after, d) = x.fit
  BY <1>1, <1>5, <1>6 DEF Contents
<1>8. \A o \in Orders : after[Entry(d, o)] \in EntryStatus
  BY <1>6 DEF RowsAgree, RowTypes, EntryStatus
<1>9. SameRecords(rows, after, Orders \ x.fit)
  BY <1>6 DEF SameRecords
<1>10. Leaves(rows, after, d, x.fit)
  BY <1>1, <1>4, <1>5, <1>6, <1>7, <1>8, <1>9 DEF Leaves
<1>11. RowsAgree(after)
  BY <1>10, LeavingAgrees
<1> QED
  BY <1>10, <1>11 DEF after

\* The orders S of batch d arrive.
Arrives(rows, after, d, S) ==
    /\ OtherTrips(rows, after, d)
    /\ rows[Batch(d)] = "HandedOver" /\ after[Batch(d)] = "HandedOver"
    /\ S # {} /\ S \subseteq Contents(rows, d)
    /\ \A o \in Orders : after[Entry(d, o)] = rows[Entry(d, o)]
    /\ SameRecords(rows, after, Orders \ S)
    /\ \A o \in S : /\ rows[Order(o)] = "Dispatched" /\ rows[Parcel(o)] = "WithCourier"
                    /\ after[Order(o)] = "Delivered" /\ after[Parcel(o)] = "Delivered"

\* When orders arrive, the rows still agree.
LEMMA ArrivalAgrees ==
    ASSUME NEW rows, NEW after, NEW d \in DeliveryBatches, NEW S, RowsAgree(rows), Arrives(rows, after, d, S)
    PROVE  RowsAgree(after)
<1>1. \A e \in DeliveryBatches : after[Batch(e)] = rows[Batch(e)]
  BY DEF Arrives, OtherTrips
<1>2. \A e \in DeliveryBatches, o \in Orders : after[Entry(e, o)] = rows[Entry(e, o)]
  BY DEF Arrives, OtherTrips
<1>3. \A o \in Orders, n \in 1..MaxReturns : after[Return(o, n)] = rows[Return(o, n)]
  BY DEF Arrives, OtherTrips
<1>4. ASSUME NEW o \in Orders
      PROVE  \/ after[Order(o)] = rows[Order(o)] /\ after[Parcel(o)] = rows[Parcel(o)]
             \/ /\ rows[Order(o)] = "Dispatched" /\ rows[Parcel(o)] = "WithCourier"
                /\ after[Order(o)] = "Delivered" /\ after[Parcel(o)] = "Delivered"
  BY DEF Arrives, SameRecords
<1>5. RowTypes(after)
  <2>1. \A o \in Orders : after[Order(o)] \in OrderStatus /\ after[Parcel(o)] \in DeliveryStatus
    BY <1>4 DEF RowsAgree, RowTypes, OrderStatus, DeliveryStatus
  <2> QED
    BY <1>1, <1>2, <1>3, <2>1 DEF RowsAgree, RowTypes
<1>6. OrderAndParcelAgree(after)
  <2>1. ASSUME NEW o \in Orders
        PROVE  Paired(after[Order(o)], after[Parcel(o)]) /\ ReturnsFit(after, o)
    <3>1. Paired(rows[Order(o)], rows[Parcel(o)]) /\ ReturnsFit(rows, o)
      BY AgreePairs, ReturnsDoFit
    <3> QED
      BY <1>3, <1>4, <3>1 DEF Paired, ReturnsFit, IsPending
  <2> QED
    BY <2>1, PairsAgree DEF OrderAndParcelAgree, ReturnsFit
<1>7. OneBatchAtATime(after)
  BY <1>2 DEF RowsAgree, OneBatchAtATime
<1>8. LeftInABatch(after)
  <2>1. \A o \in Orders : Gone(after[Parcel(o)]) => Gone(rows[Parcel(o)])
    BY <1>4 DEF Gone
  <2> QED
    BY <1>1, <1>2, <2>1 DEF RowsAgree, LeftInABatch, Gone
<1>9. NoneLeftBehind(after)
  <2>1. ASSUME NEW o \in Orders
        PROVE  /\ rows[Order(o)] # "Pending" => after[Order(o)] # "Pending"
               /\ Sent(rows[Order(o)]) => Sent(after[Order(o)])
    BY <1>4 DEF Sent
  <2> QED
    BY <1>1, <1>2, <2>1 DEF RowsAgree, NoneLeftBehind, Sent
<1> QED
  BY <1>5, <1>6, <1>7, <1>8, <1>9 DEF RowsAgree

\* A delivery delivers orders that were with the courier in its batch.
LEMMA DeliverCommits ==
    ASSUME NEW rows, RowsAgree(rows), NEW x, IsTx(x), NEW d \in DeliveryBatches, x.pc = "commit", KnowsDeliver(rows, x, d)
    PROVE  RowsAgree(After(rows, x)) /\ Arrives(rows, After(rows, x), d, x.fit)
<1> DEFINE after == After(rows, x)
           C == Contents(rows, d)
<1>1. /\ OnTrip(x, d) /\ rows[Batch(d)] = "HandedOver" /\ x.mine[Batch(d)] = "HandedOver"
      /\ x.fit # {} /\ x.fit \subseteq Orders /\ x.todo = {}
  BY DEF KnowsDeliver, Staged, IsTx
<1>2. Worked(x) = x.fit
  BY <1>1 DEF Worked
<1>3. ASSUME NEW o \in Orders
      PROVE  /\ Order(o) \in DOMAIN x.mine => o \in C
             /\ Order(o) \in DOMAIN x.mine => x.mine[Order(o)] = IF o \in x.fit THEN "Delivered" ELSE rows[Order(o)]
             /\ o \in x.fit => Order(o) \in DOMAIN x.mine
             /\ Parcel(o) \in DOMAIN x.mine <=> o \in x.fit
             /\ o \in x.fit => /\ x.mine[Parcel(o)] = "Delivered"
                               /\ rows[Order(o)] = "Dispatched" /\ rows[Parcel(o)] = "WithCourier"
             /\ Entry(d, o) \notin DOMAIN x.mine
  BY <1>2 DEF KnowsDeliver
<1>4. OtherTrips(rows, after, d) /\ after[Batch(d)] = "HandedOver"
  BY <1>1, OwnTripOnly
<1>5. ASSUME NEW o \in Orders
      PROVE  /\ o \in x.fit => after[Order(o)] = "Delivered" /\ after[Parcel(o)] = "Delivered"
             /\ o \notin x.fit => after[Order(o)] = rows[Order(o)] /\ after[Parcel(o)] = rows[Parcel(o)]
             /\ after[Entry(d, o)] = rows[Entry(d, o)]
  <2>1. /\ Order(o) \notin DOMAIN x.mine => after[Order(o)] = rows[Order(o)]
        /\ Order(o) \in DOMAIN x.mine => after[Order(o)] = x.mine[Order(o)]
        /\ Parcel(o) \notin DOMAIN x.mine => after[Parcel(o)] = rows[Parcel(o)]
        /\ Parcel(o) \in DOMAIN x.mine => after[Parcel(o)] = x.mine[Parcel(o)]
        /\ Entry(d, o) \notin DOMAIN x.mine => after[Entry(d, o)] = rows[Entry(d, o)]
    BY <1>1, OwnTripOnly
  <2> HIDE DEF after, C
  <2> QED
    BY <1>3, <2>1
<1> HIDE DEF after
<1>6. SameRecords(rows, after, Orders \ x.fit)
  BY <1>5 DEF SameRecords
<1>7. x.fit \subseteq C
  BY <1>1, <1>3
<1>8. Arrives(rows, after, d, x.fit)
  BY <1>1, <1>3, <1>4, <1>5, <1>6, <1>7 DEF Arrives
<1>9. RowsAgree(after)
  BY <1>8, ArrivalAgrees
<1> QED
  BY <1>8, <1>9 DEF after

-----------------------------------------------------------------------------
(* COMMIT *)

\* What a request's kind promises of the order, the batch and the return it is about.
Sensible(j) ==
    /\ j.kind \in Kinds /\ j.wanted \subseteq Orders /\ j.batch \in DeliveryBatches
    /\ j.kind \in {"confirm", "cancel", "notDelivered", "confirmReturn", "cancelReturn"} => j.order \in Orders
    /\ j.kind \in {"confirmReturn", "cancelReturn"} => j.nth \in 1..MaxReturns

\* What the COMMIT of job j's record x does to the rows, by its kind.
Effect(rows, after, x, j) ==
    \/ j.kind = "confirm" /\ RecordMoves(rows, after, j.order, {"Pending"}, "Confirmed")
    \/ j.kind = "cancel" /\ RecordMoves(rows, after, j.order, {"Pending", "Confirmed"}, "Cancelled")
    \/ j.kind = "notDelivered" /\ RecordMoves(rows, after, j.order, {"WithCourier"}, "Failed")
    \/ j.kind = "confirmReturn" /\ RecordMoves(rows, after, j.order, {"Failed"}, "BackInShop")
    \/ j.kind = "cancelReturn" /\ RecordMoves(rows, after, j.order, {"Failed"}, "WithCourier")
    \/ j.kind = "create" /\ rows[Batch(j.batch)] = "None" /\ Repacked(rows, after, j.batch, j.wanted)
    \/ j.kind = "change" /\ rows[Batch(j.batch)] = "Open" /\ Repacked(rows, after, j.batch, j.wanted)
    \/ /\ j.kind = "cancelBatch"
       /\ OtherTrips(rows, after, j.batch) /\ SameRecords(rows, after, Orders)
       /\ rows[Batch(j.batch)] = "Open" /\ after[Batch(j.batch)] = "Cancelled" /\ Contents(after, j.batch) = {}
    \/ j.kind = "handOver" /\ Leaves(rows, after, j.batch, x.fit)
    \/ j.kind = "deliver" /\ Arrives(rows, after, j.batch, x.fit)

\* A COMMIT of what a request knows leaves rows that agree, and has the effect its kind promises.
LEMMA CommitAgrees ==
    ASSUME NEW rows, NEW x, NEW j, RowsAgree(rows), Knows(rows, x, j), Sensible(j), x.pc = "commit"
    PROVE  RowsAgree(After(rows, x)) /\ Effect(rows, After(rows, x), x, j)
<1>1. Working(rows, x, j) /\ IsTx(x)
  BY DEF Knows, Resting
<1>2. j.batch \in DeliveryBatches /\ j.wanted \in SUBSET Orders
  BY DEF Sensible
<1>3. CASE j.kind = "confirm"
  BY <1>1, <1>3, ConfirmCommits DEF Working, Sensible, Effect
<1>4. CASE j.kind = "cancel"
  BY <1>1, <1>4, CancelCommits DEF Working, Sensible, Effect
<1>5. CASE j.kind = "notDelivered"
  BY <1>1, <1>5, NotDeliveredCommits DEF Working, Sensible, Effect
<1>6. CASE j.kind = "confirmReturn"
  BY <1>1, <1>6, ConfirmReturnCommits DEF Working, Sensible, Effect
<1>7. CASE j.kind = "cancelReturn"
  BY <1>1, <1>7, CancelReturnCommits DEF Working, Sensible, Effect
<1>8. CASE j.kind = "create"
  <2>1. KnowsAdd(rows, x, j.batch, "None", j.wanted)
    BY <1>1, <1>8 DEF Working
  <2> QED
    BY <1>1, <1>2, <1>8, <2>1, AddCommits DEF Effect
<1>9. CASE j.kind = "change"
  <2>1. KnowsAdd(rows, x, j.batch, "Open", j.wanted)
    BY <1>1, <1>9 DEF Working
  <2> QED
    BY <1>1, <1>2, <1>9, <2>1, AddCommits DEF Effect
<1>10. CASE j.kind = "cancelBatch"
  BY <1>1, <1>2, <1>10, CancelBatchCommits DEF Working, Effect
<1>11. CASE j.kind = "handOver"
  BY <1>1, <1>2, <1>11, HandOverCommits DEF Working, Effect
<1>12. CASE j.kind = "deliver"
  BY <1>1, <1>2, <1>12, DeliverCommits DEF Working, Effect
<1> QED
  BY <1>3, <1>4, <1>5, <1>6, <1>7, <1>8, <1>9, <1>10, <1>11, <1>12 DEF Sensible, Kinds

\* The COMMIT of one order's record spares what everybody else goes by.
LEMMA RecordSpares ==
    ASSUME NEW rows, NEW after, NEW o, NEW from, NEW to, NEW D,
           RecordMoves(rows, after, o, from, to), \A r \in D : after[r] = rows[r]
    PROVE  Spares(rows, after, D)
<1>1. \A d \in DeliveryBatches, p \in Orders : after[Entry(d, p)] = rows[Entry(d, p)]
  BY DEF RecordMoves, Elsewhere
<1>2. \A p \in Orders : after[Order(p)] = "Confirmed" => rows[Order(p)] \in {"Pending", "Confirmed"}
  BY DEF RecordMoves, Elsewhere
<1> QED
  BY <1>1, <1>2 DEF Spares

\* So does a batch's, if it puts no locked order in the batch and confirms none.
LEMMA TripSpares ==
    ASSUME NEW rows, NEW after, NEW d \in DeliveryBatches, NEW D,
           OtherTrips(rows, after, d), Batch(d) \notin D, \A r \in D : after[r] = rows[r],
           \A o \in Orders : Order(o) \in D /\ o \in Contents(after, d) => o \in Contents(rows, d),
           \A o \in Orders : after[Order(o)] = "Confirmed" => rows[Order(o)] \in {"Pending", "Confirmed"}
    PROVE  Spares(rows, after, D)
<1>1. \A e \in DeliveryBatches : Batch(e) \in D => \A o \in Orders : after[Entry(e, o)] = rows[Entry(e, o)]
  BY DEF OtherTrips
<1>2. \A o \in Orders, e \in DeliveryBatches :
        Order(o) \in D /\ after[Entry(e, o)] = "Active" => rows[Entry(e, o)] = "Active"
  BY DEF OtherTrips, Contents
<1> QED
  BY <1>1, <1>2 DEF Spares

\* So does every COMMIT, for whoever has locked none of its rows.
LEMMA CommitSpares ==
    ASSUME NEW rows, NEW x, NEW j, RowsAgree(rows), Knows(rows, x, j), Sensible(j), x.pc = "commit",
           NEW D, D \subseteq Rows, D \cap DOMAIN x.mine = {}
    PROVE  Spares(rows, After(rows, x), D)
<1> DEFINE after == After(rows, x)
           d == j.batch
<1> SUFFICES Spares(rows, after, D)
  OBVIOUS
<1>1. \A r \in D : after[r] = rows[r]
  BY DEF After
<1>2. Effect(rows, after, x, j)
  BY CommitAgrees
<1>3. Working(rows, x, j) /\ IsTx(x) /\ d \in DeliveryBatches
  BY DEF Knows, Resting, Sensible
<1> HIDE DEF after
<1>4. ASSUME NEW from, NEW to, RecordMoves(rows, after, j.order, from, to)
      PROVE  Spares(rows, after, D)
  BY <1>1, <1>4, RecordSpares
<1>5. CASE \/ j.kind = "create" /\ rows[Batch(d)] = "None" /\ Repacked(rows, after, d, j.wanted)
           \/ j.kind = "change" /\ rows[Batch(d)] = "Open" /\ Repacked(rows, after, d, j.wanted)
  <2>1. PICK status : KnowsAdd(rows, x, d, status, j.wanted)
    BY <1>3, <1>5 DEF Working
  <2>2. OtherTrips(rows, after, d) /\ SameRecords(rows, after, Orders) /\ Contents(after, d) = j.wanted
    BY <1>5 DEF Repacked
  <2>3. Batch(d) \notin D
    BY <2>1 DEF KnowsAdd, OnTrip
  <2>4. \A o \in Orders : o \in j.wanted \ Contents(rows, d) => Order(o) \in DOMAIN x.mine
    BY <2>1 DEF KnowsAdd
  <2>5. \A o \in Orders : after[Order(o)] = "Confirmed" => rows[Order(o)] \in {"Pending", "Confirmed"}
    BY <2>2 DEF SameRecords
  <2> HIDE DEF d
  <2> QED
    BY <1>1, <1>3, <2>2, <2>3, <2>4, <2>5, TripSpares
<1>6. CASE /\ j.kind = "cancelBatch"
           /\ OtherTrips(rows, after, d) /\ SameRecords(rows, after, Orders)
           /\ rows[Batch(d)] = "Open" /\ after[Batch(d)] = "Cancelled" /\ Contents(after, d) = {}
  <2>1. Batch(d) \notin D
    BY <1>3, <1>6 DEF Working, KnowsCancelBatch
  <2>2. \A o \in Orders : after[Order(o)] = "Confirmed" => rows[Order(o)] \in {"Pending", "Confirmed"}
    BY <1>6 DEF SameRecords
  <2> HIDE DEF d
  <2> QED
    BY <1>1, <1>3, <1>6, <2>1, <2>2, TripSpares
<1>7. CASE j.kind = "handOver" /\ Leaves(rows, after, d, x.fit)
  <2>1. Batch(d) \notin D
    BY <1>3, <1>7 DEF Working, KnowsHandOver, OnTrip
  <2>2. \A o \in Orders : after[Order(o)] = "Confirmed" => rows[Order(o)] \in {"Pending", "Confirmed"}
    BY <1>7 DEF SameRecords, Leaves
  <2>3. OtherTrips(rows, after, d) /\ Contents(after, d) \subseteq Contents(rows, d)
    BY <1>7 DEF Leaves
  <2> HIDE DEF d
  <2> QED
    BY <1>1, <1>3, <2>1, <2>2, <2>3, TripSpares
<1>8. CASE j.kind = "deliver" /\ Arrives(rows, after, d, x.fit)
  <2>1. Batch(d) \notin D
    BY <1>3, <1>8 DEF Working, KnowsDeliver, OnTrip
  <2>2. \A o \in Orders : after[Order(o)] = "Confirmed" => rows[Order(o)] \in {"Pending", "Confirmed"}
    BY <1>8 DEF SameRecords, Arrives
  <2>3. OtherTrips(rows, after, d) /\ Contents(after, d) = Contents(rows, d)
    BY <1>8 DEF Arrives, Contents
  <2> HIDE DEF d
  <2> QED
    BY <1>1, <1>3, <2>1, <2>2, <2>3, TripSpares
<1> QED
  BY <1>2, <1>4, <1>5, <1>6, <1>7, <1>8 DEF Effect, after

\* The rows a COMMIT leaves, and the requests it finds at work.
LEMMA CommitIs ==
    ASSUME PInv, NEW t \in Requests, Commit(t)
    PROVE  /\ tx[t].pc = "commit" /\ db' = After(db, tx[t]) /\ job' = job
           /\ tx' = [u \in Requests |-> IF u = t THEN Blank("done") ELSE tx[u]]
           /\ Sensible(job[t]) /\ RowsAgree(db) /\ Knows(db, tx[t], job[t])
<1>1. \A r \in Rows : View(t, r) = IF r \in DOMAIN tx[t].mine THEN tx[t].mine[r] ELSE db[r]
  BY About
<1>2. db' = [r \in Rows |-> View(t, r)]
  BY DEF Commit
<1>3. db' = After(db, tx[t])
  BY <1>1, <1>2 DEF After
<1>4. tx' = [tx EXCEPT ![t] = Blank("done")] /\ tx = [u \in Requests |-> tx[u]]
  BY DEF Commit, End, PInv
<1>5. tx' = [u \in Requests |-> IF u = t THEN Blank("done") ELSE tx[u]]
  BY <1>4
<1>6. Sensible(job[t])
  BY About DEF Sensible
<1> QED
  BY <1>3, <1>5, <1>6 DEF Commit, End, At, PInv

\* A COMMIT keeps the invariant.
LEMMA CommitKeeps ==
    ASSUME PInv, NEW t \in Requests, Commit(t)
    PROVE  PInv'
<1>1. /\ tx[t].pc = "commit" /\ db' = After(db, tx[t]) /\ job' = job
      /\ tx' = [u \in Requests |-> IF u = t THEN Blank("done") ELSE tx[u]]
      /\ Sensible(job[t]) /\ RowsAgree(db) /\ Knows(db, tx[t], job[t])
  BY CommitIs
<1>2. RowsAgree(After(db, tx[t]))
  BY <1>1, CommitAgrees
<1>3. lock \in [Rows -> Requests \cup {NoRequest}] /\ NoRequest \notin Requests
  BY ReadCommittedAssumption DEF PInv, TypeOK
<1>4. \A u \in Requests : {r \in Rows : lock[r] = u} = DOMAIN tx[u].mine
  BY DEF PInv, TypeOK
<1>5. lock' = [r \in Rows |-> IF lock[r] = t THEN NoRequest ELSE lock[r]]
  BY DEF Commit, End
<1>6. TypeOK'
  <2>1. RowTypes(db')
    BY <1>1, <1>2 DEF RowsAgree
  <2>2. lock' \in [Rows -> Requests \cup {NoRequest}]
    BY <1>3, <1>5
  <2>3. ASSUME NEW u \in Requests
        PROVE  {r \in Rows : lock'[r] = u} = DOMAIN tx'[u].mine
    <3>1. CASE u = t
      BY <1>1, <1>3, <1>5, <3>1, BlankIs
    <3>2. CASE u # t
      <4>1. {r \in Rows : lock'[r] = u} = {r \in Rows : lock[r] = u} /\ tx'[u] = tx[u]
        BY <1>1, <1>3, <1>5, <3>2
      <4> QED
        BY <1>4, <4>1
    <3> QED
      BY <3>1, <3>2
  <2> QED
    BY <2>1, <2>2, <2>3 DEF TypeOK
<1>7. ASSUME NEW u \in Requests
      PROVE  Knows(After(db, tx[t]), tx'[u], job[u])
  <2>1. CASE u = t
    <3>1. tx'[u] = Blank("done")
      BY <1>1, <2>1
    <3> QED
      BY <3>1, BlankIs DEF Knows, Resting
  <2>2. CASE u # t
    <3>1. tx'[u] = tx[u] /\ Knows(db, tx[u], job[u]) /\ job[u].batch \in DeliveryBatches
      BY <1>1, <2>2, About
    <3>2. DOMAIN tx[u].mine \subseteq Rows /\ DOMAIN tx[u].mine \cap DOMAIN tx[t].mine = {}
      BY <1>4, <2>2
    <3>3. Spares(db, After(db, tx[t]), DOMAIN tx[u].mine)
      BY <1>1, <3>2, CommitSpares
    <3> QED
      BY <1>1, <3>1, <3>3, KnowledgeOutlives
  <2> QED
    BY <2>1, <2>2
<1>8. tx' = [u \in Requests |-> tx'[u]]
  BY <1>1
<1>9. job' \in [Requests -> Jobs]
  BY <1>1 DEF PInv
<1> QED
  BY <1>1, <1>2, <1>6, <1>7, <1>8, <1>9 DEF PInv

-----------------------------------------------------------------------------
(* The invariant holds *)

\* It holds before the first request's first statement.
LEMMA InitPInv ==
    ASSUME Init
    PROVE  PInv
<1>1. db \in Openings /\ job \in [Requests -> Jobs]
  BY DEF Init
<1>2. lock = [r \in Rows |-> NoRequest] /\ tx = [t \in Requests |-> Blank("first")]
  BY DEF Init, Begun
<1>3. RowsAgree(db)
  BY <1>1, OpeningsAssumption
<1>4. TypeOK
  <2>1. ASSUME NEW t \in Requests
        PROVE  {r \in Rows : lock[r] = t} = DOMAIN tx[t].mine
    <3>1. tx[t] = Blank("first")
      BY <1>2
    <3> QED
      BY <1>2, <3>1, BlankIs, ReadCommittedAssumption
  <2>2. lock \in [Rows -> Requests \cup {NoRequest}]
    BY <1>2
  <2> QED
    BY <1>3, <2>1, <2>2 DEF TypeOK, RowsAgree
<1>5. tx = [t \in Requests |-> tx[t]]
  BY <1>2
<1>6. ASSUME NEW t \in Requests
      PROVE  Knows(db, tx[t], job[t])
  <2>1. tx[t] = Blank("first")
    BY <1>2
  <2> QED
    BY <2>1, BlankIs DEF Knows, Resting
<1> QED
  BY <1>1, <1>3, <1>4, <1>5, <1>6 DEF PInv

\* The statements on one order's record keep it,
LEMMA RecordStepKeeps ==
    ASSUME PInv, NEW t \in Requests, RecordStep(t)
    PROVE  PInv'
<1>1. CASE ConfirmOrder(t) \/ PrepareParcel(t)
  BY <1>1, ConfirmOrderKeeps, PrepareParcelKeeps
<1>2. CASE CancelOrder(t)
  BY <1>2, CancelOrderKeeps
<1>3. CASE LockUndelivered(t) \/ MarkFailed(t)
  BY <1>3, LockUndeliveredKeeps, MarkFailedKeeps
<1>4. CASE LockReturn(t) \/ ReadReturnedParcel(t) \/ LockReturnedOrder(t) \/ TakeParcelBack(t)
  BY <1>4, LockReturnKeeps, ReadReturnedParcelKeeps, LockReturnedOrderKeeps, TakeParcelBackKeeps
<1>5. CASE CancelReturn(t) \/ StillWithCourier(t)
  BY <1>5, CancelReturnKeeps, StillWithCourierKeeps
<1> QED
  BY <1>1, <1>2, <1>3, <1>4, <1>5 DEF RecordStep

\* those on batches too,
LEMMA BatchStepKeeps ==
    ASSUME PInv, NEW t \in Requests, BatchStep(t)
    PROVE  PInv'
<1>1. CASE CreateBatch(t) \/ ChangeBatch(t)
  BY <1>1, CreateBatchKeeps, ChangeBatchKeeps
<1>2. CASE RefuseStale(t)
  BY <1>2, FailKeeps DEF RefuseStale
<1>3. CASE CancelBatch(t) \/ HandOverBatch(t) \/ DeliverBatch(t)
  BY <1>3, CancelBatchKeeps, HandOverBatchKeeps, DeliverBatchKeeps
<1>4. CASE SelectToAdd(t) \/ SelectToHandOver(t) \/ SelectToDeliver(t)
  BY <1>4, SelectToAddKeeps, SelectToHandOverKeeps, SelectToDeliverKeeps
<1>5. CASE AllFitToAdd(t) \/ LeaveOut(t) \/ SomeToDeliver(t)
  BY <1>5, AllFitToAddKeeps, LeaveOutKeeps, SomeToDeliverKeeps
<1>6. ASSUME NEW o \in Orders, LockOrder(t, o) \/ AddEntry(t, o) \/ DispatchOrder(t, o) \/ DeliverOrder(t, o)
      PROVE  PInv'
  <2>1. CASE LockOrder(t, o)
    <3>1. Kind(t) \in {"create", "change", "handOver", "deliver"}
      BY <2>1 DEF LockOrder
    <3> QED
      BY <2>1, <3>1, LockToAddKeeps, LockToHandOverKeeps, LockToDeliverKeeps
  <2>2. CASE AddEntry(t, o) \/ DispatchOrder(t, o) \/ DeliverOrder(t, o)
    BY <2>2, AddEntryKeeps, DispatchOrderKeeps, DeliverOrderKeeps
  <2> QED
    BY <1>6, <2>1, <2>2
<1> QED
  BY <1>1, <1>2, <1>3, <1>4, <1>5, <1>6 DEF BatchStep

\* and those that count units,
LEMMA StockStepKeeps ==
    ASSUME PInv, NEW t \in Requests, StockStep(t)
    PROVE  PInv'
BY LockStockKeeps DEF StockStep

\* and waiting.
LEMMA StutterKeeps ==
    ASSUME PInv, UNCHANGED vars
    PROVE  PInv'
<1>1. db' = db /\ lock' = lock /\ tx' = tx /\ job' = job
  BY DEF vars
<1>2. TypeOK'
  BY <1>1 DEF PInv, TypeOK
<1> QED
  BY <1>1, <1>2 DEF PInv

\* So every step keeps it.
LEMMA NextPInv ==
    ASSUME PInv, [Next]_vars
    PROVE  PInv'
<1>1. ASSUME NEW t \in Requests,
             RecordStep(t) \/ BatchStep(t) \/ StockStep(t) \/ Commit(t) \/ Interrupt(t) \/ BreakDeadlock(t, Needs)
      PROVE  PInv'
  <2>1. CASE RecordStep(t)
    BY <2>1, RecordStepKeeps
  <2>2. CASE BatchStep(t) \/ StockStep(t)
    BY <2>2, BatchStepKeeps, StockStepKeeps
  <2>3. CASE Commit(t)
    BY <2>3, CommitKeeps
  <2>4. CASE Interrupt(t) \/ BreakDeadlock(t, Needs)
    BY <2>4, FailKeeps DEF Interrupt, BreakDeadlock
  <2> QED
    BY <1>1, <2>1, <2>2, <2>3, <2>4
<1>2. CASE AllAnswered \/ UNCHANGED vars
  BY <1>2, StutterKeeps DEF AllAnswered, vars
<1> QED
  BY <1>1, <1>2 DEF Next

\* The invariant holds in every reachable state.
LEMMA AlwaysPInv == Spec => []PInv
<1>1. Init => PInv
  BY InitPInv
<1>2. PInv /\ [Next]_vars => PInv'
  BY NextPInv
<1> QED
  BY <1>1, <1>2, PTL DEF Spec

\* However the handlers interleave, wherever they fail or are cut off, and whoever the database aborts:
\* the committed rows agree on where every parcel is.
THEOREM ParcelsStayWhereBatchesSay == Spec => []ParcelsAreWhereBatchesSay
<1>1. PInv => ParcelsAreWhereBatchesSay
  BY DEF PInv, ParcelsAreWhereBatchesSay
<1> QED
  BY <1>1, AlwaysPInv, PTL

-----------------------------------------------------------------------------
(* The abstract shop *)

VARIABLES standing, batch, contents

\* The life of a parcel on its own, whoever implements it.
Life == INSTANCE Parcels WITH Batches <- DeliveryBatches

\* An order's own record moves without touching a batch: only whether it left matters to batches.
LEMMA LifeMoveKeeps ==
    ASSUME Life!Inv, NEW o \in Orders, NEW from, NEW to \in Life!Standing, Life!Move(o, from, to),
           \A s \in from : Life!Left(s) <=> Life!Left(to)
    PROVE  Life!Inv'
<1>1. Life!TypeOK'
  BY DEF Life!Inv, Life!TypeOK, Life!Move
<1>2. \A p \in Orders : Life!Left(standing'[p]) <=> Life!Left(standing[p])
  BY DEF Life!Inv, Life!TypeOK, Life!Move
<1>3. Life!LeftInABatch'
  BY <1>1, <1>2 DEF Life!Inv, Life!TypeOK, Life!LeftInABatch, Life!Move
<1> QED
  BY <1>1, <1>3 DEF Life!Inv, Life!OneBatchAtATime, Life!OnlyLiveBatchesHaveOrders, Life!Move

LEMMA LifeRecordKeeps ==
    ASSUME Life!Inv, NEW o \in Orders,
           Life!Confirm(o) \/ Life!Cancel(o) \/ Life!NotDelivered(o) \/ Life!BackInShop(o) \/ Life!StillWithCourier(o)
    PROVE  Life!Inv'
BY LifeMoveKeeps DEF Life!Confirm, Life!Cancel, Life!NotDelivered, Life!BackInShop, Life!StillWithCourier, Life!Standing, Life!Left

\* A batch still in the shop may be given any orders that can join it.
LEMMA LifeFillKeeps ==
    ASSUME Life!Inv, NEW d \in DeliveryBatches, NEW S \in SUBSET Orders,
           batch[d] \in {"None", "Open"}, Life!CanJoin(S \ contents[d]),
           batch' = [batch EXCEPT ![d] = "Open"], contents' = [contents EXCEPT ![d] = S], UNCHANGED standing
    PROVE  Life!Inv'
<1>1. Life!TypeOK'
  BY DEF Life!Inv, Life!TypeOK
<1>2. Life!OneBatchAtATime'
  BY DEF Life!Inv, Life!TypeOK, Life!OneBatchAtATime, Life!CanJoin
<1>3. Life!LeftInABatch'
  BY DEF Life!Inv, Life!TypeOK, Life!LeftInABatch
<1>4. Life!OnlyLiveBatchesHaveOrders'
  BY DEF Life!Inv, Life!TypeOK, Life!OnlyLiveBatchesHaveOrders
<1> QED
  BY <1>1, <1>2, <1>3, <1>4 DEF Life!Inv

LEMMA LifeMakeKeeps ==
    ASSUME Life!Inv, NEW d \in DeliveryBatches, NEW S \in SUBSET Orders, Life!Make(d, S) \/ Life!Change(d, S)
    PROVE  Life!Inv'
<1>1. CASE Life!Make(d, S)
  <2>1. Life!CanJoin(S \ contents[d])
    BY <1>1 DEF Life!Make, Life!CanJoin
  <2> QED
    BY <1>1, <2>1, LifeFillKeeps DEF Life!Make
<1>2. CASE Life!Change(d, S)
  <2>1. batch' = [batch EXCEPT ![d] = "Open"]
    BY <1>2 DEF Life!Inv, Life!TypeOK, Life!Change
  <2> QED
    BY <1>2, <2>1, LifeFillKeeps DEF Life!Change
<1> QED
  BY <1>1, <1>2

LEMMA LifeCancelBatchKeeps ==
    ASSUME Life!Inv, NEW d \in DeliveryBatches, Life!CancelBatch(d)
    PROVE  Life!Inv'
<1>1. Life!TypeOK'
  BY DEF Life!Inv, Life!TypeOK, Life!CancelBatch
<1>2. Life!OneBatchAtATime'
  BY DEF Life!Inv, Life!TypeOK, Life!OneBatchAtATime, Life!CancelBatch
<1>3. Life!LeftInABatch'
  BY DEF Life!Inv, Life!TypeOK, Life!LeftInABatch, Life!CancelBatch
<1>4. Life!OnlyLiveBatchesHaveOrders'
  BY DEF Life!Inv, Life!TypeOK, Life!OnlyLiveBatchesHaveOrders, Life!CancelBatch
<1> QED
  BY <1>1, <1>2, <1>3, <1>4 DEF Life!Inv

\* The orders that leave were in this batch alone, and none of them had left.
LEMMA LifeHandOverKeeps ==
    ASSUME Life!Inv, NEW d \in DeliveryBatches, Life!HandOver(d)
    PROVE  Life!Inv'
<1> DEFINE leaving == {o \in contents[d] : standing[o] = "Confirmed"}
<1>1. /\ batch[d] = "Open" /\ batch' = [batch EXCEPT ![d] = "HandedOver"]
      /\ contents' = [contents EXCEPT ![d] = leaving]
      /\ standing' = [o \in Orders |-> IF o \in leaving THEN "WithCourier" ELSE standing[o]]
  BY DEF Life!HandOver
<1>2. leaving \subseteq contents[d] /\ leaving \subseteq Orders
  BY DEF Life!Inv, Life!TypeOK
<1>3. Life!TypeOK'
  BY <1>1, <1>2 DEF Life!Inv, Life!TypeOK, Life!Standing
<1>4. Life!OneBatchAtATime'
  BY <1>1, <1>2 DEF Life!Inv, Life!TypeOK, Life!OneBatchAtATime
<1>5. Life!LeftInABatch'
  <2>1. ASSUME NEW e \in DeliveryBatches, batch'[e] = "HandedOver", NEW o \in contents'[e]
        PROVE  Life!Left(standing'[o])
    BY <1>1, <1>2, <2>1 DEF Life!Inv, Life!TypeOK, Life!LeftInABatch, Life!Left
  <2>2. ASSUME NEW o \in Orders, Life!Left(standing'[o])
        PROVE  \E e \in DeliveryBatches : batch'[e] = "HandedOver" /\ o \in contents'[e]
    <3>1. CASE o \in leaving
      BY <1>1, <3>1 DEF Life!Inv, Life!TypeOK
    <3>2. CASE o \notin leaving
      BY <1>1, <2>2, <3>2 DEF Life!Inv, Life!TypeOK, Life!LeftInABatch
    <3> QED
      BY <3>1, <3>2
  <2> QED
    BY <2>1, <2>2 DEF Life!LeftInABatch
<1>6. Life!OnlyLiveBatchesHaveOrders'
  BY <1>1, <1>2 DEF Life!Inv, Life!TypeOK, Life!OnlyLiveBatchesHaveOrders
<1> QED
  BY <1>3, <1>4, <1>5, <1>6 DEF Life!Inv

LEMMA LifeDeliverKeeps ==
    ASSUME Life!Inv, NEW d \in DeliveryBatches, NEW S \in SUBSET Orders, Life!Deliver(d, S)
    PROVE  Life!Inv'
<1>1. Life!TypeOK'
  BY DEF Life!Inv, Life!TypeOK, Life!Deliver, Life!Standing
<1>2. \A o \in Orders : Life!Left(standing'[o]) <=> Life!Left(standing[o])
  BY DEF Life!Inv, Life!TypeOK, Life!Deliver, Life!Left
<1>3. Life!LeftInABatch'
  BY <1>1, <1>2 DEF Life!Inv, Life!TypeOK, Life!LeftInABatch, Life!Deliver
<1> QED
  BY <1>1, <1>3 DEF Life!Inv, Life!OneBatchAtATime, Life!OnlyLiveBatchesHaveOrders, Life!Deliver

\* A parcel that left is in exactly one batch that was handed over, an order is in one live batch at
\* most, and a cancelled batch is empty, through every press of every button (delivery-batch, sales/order).
THEOREM ParcelsAgree == Life!Spec => []Life!Inv
<1>1. Life!Init => Life!Inv
  BY DEF Life!Init
<1>2. Life!Inv /\ [Life!Next]_(Life!vars) => Life!Inv'
  <2> SUFFICES ASSUME Life!Inv, [Life!Next]_(Life!vars) PROVE Life!Inv'
    OBVIOUS
  <2>1. CASE UNCHANGED Life!vars
    BY <2>1 DEF Life!vars, Life!Inv, Life!TypeOK, Life!OneBatchAtATime, Life!LeftInABatch, Life!OnlyLiveBatchesHaveOrders
  <2> QED
    BY <2>1, LifeRecordKeeps, LifeMakeKeeps, LifeCancelBatchKeeps, LifeHandOverKeeps, LifeDeliverKeeps DEF Life!Next
<1> QED
  BY <1>1, <1>2, PTL DEF Life!Spec

-----------------------------------------------------------------------------
(* What is committed behaves like Parcels *)

\* An order stands where its two rows say.
LEMMA SameStanding ==
    ASSUME NEW rows, NEW after, NEW o, after[Order(o)] = rows[Order(o)], after[Parcel(o)] = rows[Parcel(o)]
    PROVE  StandingOf(after, o) = StandingOf(rows, o)
BY DEF StandingOf

\* Where committed rows say an order stands is a standing of the abstract shop.
LEMMA StandingsAgree ==
    ASSUME NEW rows, RowsAgree(rows), NEW o \in Orders
    PROVE  /\ StandingOf(rows, o) \in Shop!Standing
           /\ rows[Order(o)] = "Confirmed" <=> StandingOf(rows, o) = "Confirmed"
           /\ Gone(rows[Parcel(o)]) <=> Shop!Left(StandingOf(rows, o))
           /\ Sent(rows[Order(o)]) => Gone(rows[Parcel(o)])
<1>1. Paired(rows[Order(o)], rows[Parcel(o)])
  BY AgreePairs
<1>2. /\ rows[Order(o)] = "Cancelled" => StandingOf(rows, o) = "Cancelled"
      /\ rows[Order(o)] = "Pending" => StandingOf(rows, o) = "Pending"
      /\ rows[Order(o)] = "Confirmed" => StandingOf(rows, o) = "Confirmed"
      /\ rows[Order(o)] = "Delivered" => StandingOf(rows, o) = "Delivered"
      /\ rows[Order(o)] = "Returned" => StandingOf(rows, o) = "BackInShop"
      /\ rows[Order(o)] = "Dispatched" /\ rows[Parcel(o)] = "WithCourier" => StandingOf(rows, o) = "WithCourier"
      /\ rows[Order(o)] = "Dispatched" /\ rows[Parcel(o)] = "Failed" => StandingOf(rows, o) = "Failed"
  BY <1>1, StandingIs
<1> QED
  BY <1>1, <1>2 DEF Paired, Gone, Sent, Shop!Standing, Shop!Left

\* Every opening is one of the abstract shop's.
LEMMA InitShop ==
    ASSUME RowsAgree(db)
    PROVE  Shop!Init
<1>1. Shop!TypeOK
  <2>1. \A o \in Orders : StandingOf(db, o) \in Shop!Standing
    BY StandingsAgree
  <2>2. \A d \in DeliveryBatches : db[Batch(d)] \in {"None", "Open", "HandedOver", "Cancelled"}
    BY DEF RowsAgree, RowTypes, BatchStatus
  <2> QED
    BY <2>1, <2>2 DEF Shop!TypeOK
<1>2. Shop!OneBatchAtATime
  BY DEF RowsAgree, OneBatchAtATime, Shop!OneBatchAtATime
<1>3. Shop!LeftInABatch
  <2>1. ASSUME NEW d \in DeliveryBatches, NEW o \in Orders, db[Batch(d)] = "HandedOver", db[Entry(d, o)] = "Active"
        PROVE  Shop!Left(StandingOf(db, o))
    <3>1. Sent(db[Order(o)])
      BY <2>1 DEF RowsAgree, NoneLeftBehind, Sent
    <3> QED
      BY <3>1, StandingsAgree
  <2>2. ASSUME NEW o \in Orders, Shop!Left(StandingOf(db, o))
        PROVE  \E d \in DeliveryBatches : db[Batch(d)] = "HandedOver" /\ db[Entry(d, o)] = "Active"
    <3>1. Gone(db[Parcel(o)])
      BY <2>2, StandingsAgree
    <3> QED
      BY <3>1 DEF RowsAgree, LeftInABatch, Gone
  <2> QED
    BY <2>1, <2>2 DEF Shop!LeftInABatch
<1>4. Shop!OnlyLiveBatchesHaveOrders
  BY DEF RowsAgree, NoneLeftBehind, Shop!OnlyLiveBatchesHaveOrders
<1> QED
  BY <1>1, <1>2, <1>3, <1>4 DEF Shop!Init, Shop!Inv

\* One order's record moves on in the shop too.
LEMMA ShopMoves ==
    ASSUME NEW o \in Orders, NEW from, NEW to, RecordMoves(db, db', o, from, to)
    PROVE  Shop!Move(o, from, to)
<1>1. \A p \in Orders : p # o => StandingOf(db', p) = StandingOf(db, p)
  BY SameStanding DEF RecordMoves, Elsewhere
<1>2. StandingOf(db, o) \in from /\ StandingOf(db', o) = to
  BY DEF RecordMoves
<1>3. [p \in Orders |-> StandingOf(db', p)] = [[p \in Orders |-> StandingOf(db, p)] EXCEPT ![o] = to]
  BY <1>1, <1>2
<1>4. [d \in DeliveryBatches |-> db'[Batch(d)]] = [d \in DeliveryBatches |-> db[Batch(d)]]
  BY DEF RecordMoves, Elsewhere
<1>5. \A d \in DeliveryBatches : {p \in Orders : db'[Entry(d, p)] = "Active"} = {p \in Orders : db[Entry(d, p)] = "Active"}
  BY DEF RecordMoves, Elsewhere
<1>6. [d \in DeliveryBatches |-> {p \in Orders : db'[Entry(d, p)] = "Active"}]
        = [d \in DeliveryBatches |-> {p \in Orders : db[Entry(d, p)] = "Active"}]
  BY <1>5
<1> QED
  BY <1>2, <1>3, <1>4, <1>6 DEF Shop!Move

\* Only the contents of d differ, if any.
LEMMA ShopContents ==
    ASSUME NEW rows, NEW after, NEW d \in DeliveryBatches, NEW S, OtherTrips(rows, after, d), Contents(after, d) = S
    PROVE  [e \in DeliveryBatches |-> Contents(after, e)] = [[e \in DeliveryBatches |-> Contents(rows, e)] EXCEPT ![d] = S]
<1>1. \A e \in DeliveryBatches : e # d => Contents(after, e) = Contents(rows, e)
  BY DEF OtherTrips, Contents
<1> QED
  BY <1>1

\* Only batch d differs, if any.
LEMMA ShopBatches ==
    ASSUME NEW rows, NEW after, NEW d \in DeliveryBatches, OtherTrips(rows, after, d)
    PROVE  [e \in DeliveryBatches |-> after[Batch(e)]]
             = [[e \in DeliveryBatches |-> rows[Batch(e)]] EXCEPT ![d] = after[Batch(d)]]
BY DEF OtherTrips

\* Records that stay stand where they stood.
LEMMA ShopStandings ==
    ASSUME NEW rows, NEW after, SameRecords(rows, after, Orders)
    PROVE  [p \in Orders |-> StandingOf(after, p)] = [p \in Orders |-> StandingOf(rows, p)]
<1>1. \A p \in Orders : StandingOf(after, p) = StandingOf(rows, p)
  BY SameStanding DEF SameRecords
<1> QED
  BY <1>1

\* Confirmed orders in no batch can join one in the shop.
LEMMA ShopJoins ==
    ASSUME RowsAgree(db), NEW S \in SUBSET Orders,
           \A o \in S : db[Order(o)] = "Confirmed" /\ \A e \in DeliveryBatches : db[Entry(e, o)] # "Active"
    PROVE  Shop!CanJoin(S)
<1>1. \A o \in S : StandingOf(db, o) = "Confirmed"
  BY StandingsAgree
<1> QED
  BY <1>1 DEF Shop!CanJoin

\* A batch made in the rows is made in the shop.
LEMMA ShopMakes ==
    ASSUME RowsAgree(db), NEW d \in DeliveryBatches, NEW S \in SUBSET Orders,
           db[Batch(d)] = "None", Repacked(db, db', d, S)
    PROVE  Shop!Make(d, S)
<1>1. OtherTrips(db, db', d) /\ SameRecords(db, db', Orders) /\ db'[Batch(d)] = "Open" /\ Contents(db', d) = S
  BY DEF Repacked
<1>2. Contents(db, d) = {}
  BY NewBatchEmpty
<1>3. Shop!CanJoin(S)
  BY <1>2, ShopJoins DEF Repacked
<1>4. [e \in DeliveryBatches |-> Contents(db', e)] = [[e \in DeliveryBatches |-> Contents(db, e)] EXCEPT ![d] = S]
  BY <1>1, ShopContents
<1>5. [e \in DeliveryBatches |-> db'[Batch(e)]] = [[e \in DeliveryBatches |-> db[Batch(e)]] EXCEPT ![d] = "Open"]
  BY <1>1, ShopBatches
<1>6. [p \in Orders |-> StandingOf(db', p)] = [p \in Orders |-> StandingOf(db, p)]
  BY <1>1, ShopStandings
<1> QED
  BY <1>3, <1>4, <1>5, <1>6 DEF Shop!Make, Contents

\* A batch changed in the rows is changed in the shop.
LEMMA ShopChanges ==
    ASSUME RowsAgree(db), NEW d \in DeliveryBatches, NEW S \in SUBSET Orders,
           db[Batch(d)] = "Open", Repacked(db, db', d, S)
    PROVE  Shop!Change(d, S)
<1>1. OtherTrips(db, db', d) /\ SameRecords(db, db', Orders) /\ db'[Batch(d)] = "Open" /\ Contents(db', d) = S
  BY DEF Repacked
<1>2. Shop!CanJoin(S \ Contents(db, d))
  BY ShopJoins DEF Repacked
<1>3. [e \in DeliveryBatches |-> db'[Batch(e)]] = [e \in DeliveryBatches |-> db[Batch(e)]]
  BY <1>1 DEF OtherTrips
<1> QED
  BY <1>1, <1>2, <1>3, ShopContents, ShopStandings DEF Shop!Change, Contents

\* A batch cancelled in the rows is cancelled in the shop.
LEMMA ShopCancels ==
    ASSUME NEW d \in DeliveryBatches, OtherTrips(db, db', d), SameRecords(db, db', Orders),
           db[Batch(d)] = "Open", db'[Batch(d)] = "Cancelled", Contents(db', d) = {}
    PROVE  Shop!CancelBatch(d)
<1>1. [e \in DeliveryBatches |-> Contents(db', e)] = [[e \in DeliveryBatches |-> Contents(db, e)] EXCEPT ![d] = {}]
  BY ShopContents
<1>2. [e \in DeliveryBatches |-> db'[Batch(e)]] = [[e \in DeliveryBatches |-> db[Batch(e)]] EXCEPT ![d] = "Cancelled"]
  BY ShopBatches
<1>3. [p \in Orders |-> StandingOf(db', p)] = [p \in Orders |-> StandingOf(db, p)]
  BY ShopStandings
<1> QED
  BY <1>1, <1>2, <1>3 DEF Shop!CancelBatch, Contents

\* A batch that leaves in the rows is handed over in the shop.
LEMMA ShopHandsOver ==
    ASSUME RowsAgree(db), NEW d \in DeliveryBatches, NEW S, Leaves(db, db', d, S)
    PROVE  Shop!HandOver(d)
<1>1. /\ OtherTrips(db, db', d) /\ SameRecords(db, db', Orders \ S)
      /\ db[Batch(d)] = "Open" /\ db'[Batch(d)] = "HandedOver" /\ Contents(db', d) = S
      /\ S = {o \in Contents(db, d) : db[Order(o)] = "Confirmed"} /\ S # {}
      /\ \A o \in S : db'[Order(o)] = "Dispatched" /\ db'[Parcel(o)] = "WithCourier"
  BY DEF Leaves
<1>2. [e \in DeliveryBatches |-> Contents(db', e)] = [[e \in DeliveryBatches |-> Contents(db, e)] EXCEPT ![d] = S]
  BY <1>1, ShopContents
<1>3. [e \in DeliveryBatches |-> db'[Batch(e)]] = [[e \in DeliveryBatches |-> db[Batch(e)]] EXCEPT ![d] = "HandedOver"]
  BY <1>1, ShopBatches
<1>4. S = {o \in {p \in Orders : db[Entry(d, p)] = "Active"} : StandingOf(db, o) = "Confirmed"}
  <2>1. \A o \in Orders : db[Order(o)] = "Confirmed" <=> StandingOf(db, o) = "Confirmed"
    BY StandingsAgree
  <2> QED
    BY <1>1, <2>1 DEF Contents
<1>5. \A p \in Orders : StandingOf(db', p) = IF p \in S THEN "WithCourier" ELSE StandingOf(db, p)
  <2>1. ASSUME NEW p \in S
        PROVE  StandingOf(db', p) = "WithCourier"
    <3>1. Paired(db'[Order(p)], db'[Parcel(p)])
      BY <1>1 DEF Paired
    <3> QED
      BY <1>1, <3>1, StandingIs
  <2>2. ASSUME NEW p \in Orders, p \notin S
        PROVE  StandingOf(db', p) = StandingOf(db, p)
    BY <1>1, <2>2, SameStanding DEF SameRecords
  <2> QED
    BY <2>1, <2>2
<1>6. [e \in DeliveryBatches |-> {p \in Orders : db[Entry(e, p)] = "Active"}][d] = {p \in Orders : db[Entry(d, p)] = "Active"}
  OBVIOUS
<1>7. S = {o \in [e \in DeliveryBatches |-> {p \in Orders : db[Entry(e, p)] = "Active"}][d] :
             [p \in Orders |-> StandingOf(db, p)][o] = "Confirmed"}
  BY <1>4, <1>6
<1>8. [p \in Orders |-> StandingOf(db', p)]
        = [o \in Orders |-> IF o \in S THEN "WithCourier" ELSE [p \in Orders |-> StandingOf(db, p)][o]]
  BY <1>5
<1> QED
  BY <1>1, <1>2, <1>3, <1>7, <1>8 DEF Shop!HandOver, Contents

\* Orders that arrive in the rows are delivered in the shop.
LEMMA ShopDelivers ==
    ASSUME RowsAgree(db), NEW d \in DeliveryBatches, NEW S, Arrives(db, db', d, S)
    PROVE  Shop!Deliver(d, S) /\ S \subseteq Orders
<1>1. /\ OtherTrips(db, db', d) /\ SameRecords(db, db', Orders \ S)
      /\ db[Batch(d)] = "HandedOver" /\ db'[Batch(d)] = "HandedOver"
      /\ S # {} /\ S \subseteq Contents(db, d) /\ S \subseteq Orders
      /\ \A o \in Orders : db'[Entry(d, o)] = db[Entry(d, o)]
      /\ \A o \in S : /\ db[Order(o)] = "Dispatched" /\ db[Parcel(o)] = "WithCourier"
                      /\ db'[Order(o)] = "Delivered" /\ db'[Parcel(o)] = "Delivered"
  BY DEF Arrives, Contents
<1>2. \A e \in DeliveryBatches : {p \in Orders : db'[Entry(e, p)] = "Active"} = {p \in Orders : db[Entry(e, p)] = "Active"}
  BY <1>1 DEF OtherTrips
<1>3. [e \in DeliveryBatches |-> {p \in Orders : db'[Entry(e, p)] = "Active"}]
        = [e \in DeliveryBatches |-> {p \in Orders : db[Entry(e, p)] = "Active"}]
  BY <1>2
<1>4. [e \in DeliveryBatches |-> db'[Batch(e)]] = [e \in DeliveryBatches |-> db[Batch(e)]]
  BY <1>1 DEF OtherTrips
<1>5. \A p \in S : StandingOf(db, p) = "WithCourier" /\ StandingOf(db', p) = "Delivered"
  <2>1. ASSUME NEW p \in S
        PROVE  Paired(db[Order(p)], db[Parcel(p)]) /\ Paired(db'[Order(p)], db'[Parcel(p)])
    BY <1>1 DEF Paired
  <2> QED
    BY <1>1, <2>1, StandingIs
<1>6. \A p \in Orders \ S : StandingOf(db', p) = StandingOf(db, p)
  BY <1>1, SameStanding DEF SameRecords
<1>7. [p \in Orders |-> StandingOf(db', p)]
        = [o \in Orders |-> IF o \in S THEN "Delivered" ELSE [p \in Orders |-> StandingOf(db, p)][o]]
  BY <1>5, <1>6
<1>8. \A o \in S : [p \in Orders |-> StandingOf(db, p)][o] = "WithCourier"
  BY <1>1, <1>5
<1>9. S \subseteq [e \in DeliveryBatches |-> {p \in Orders : db[Entry(e, p)] = "Active"}][d]
  BY <1>1 DEF Contents
<1> QED
  BY <1>1, <1>3, <1>4, <1>7, <1>8, <1>9 DEF Shop!Deliver

\* Every COMMIT is one press of a button in the shop.
LEMMA CommitIsAPress ==
    ASSUME PInv, NEW t \in Requests, Commit(t)
    PROVE  Shop!Next
<1> DEFINE j == job[t]
<1>1. Effect(db, db', tx[t], j) /\ RowsAgree(db) /\ Sensible(j)
  BY CommitIs, CommitAgrees
<1>2. j.batch \in DeliveryBatches /\ j.wanted \in SUBSET Orders
  BY <1>1 DEF Sensible
<1> HIDE DEF j
<1>3. ASSUME j.kind \in {"confirm", "cancel", "notDelivered", "confirmReturn", "cancelReturn"}
      PROVE  \E o \in Orders : Shop!Confirm(o) \/ Shop!Cancel(o) \/ Shop!NotDelivered(o)
                                 \/ Shop!BackInShop(o) \/ Shop!StillWithCourier(o)
  <2>1. j.order \in Orders
    BY <1>1, <1>3 DEF Sensible
  <2>2. \/ RecordMoves(db, db', j.order, {"Pending"}, "Confirmed")
        \/ RecordMoves(db, db', j.order, {"Pending", "Confirmed"}, "Cancelled")
        \/ RecordMoves(db, db', j.order, {"WithCourier"}, "Failed")
        \/ RecordMoves(db, db', j.order, {"Failed"}, "BackInShop")
        \/ RecordMoves(db, db', j.order, {"Failed"}, "WithCourier")
    BY <1>1, <1>3 DEF Effect
  <2>3. \/ Shop!Move(j.order, {"Pending"}, "Confirmed")
        \/ Shop!Move(j.order, {"Pending", "Confirmed"}, "Cancelled")
        \/ Shop!Move(j.order, {"WithCourier"}, "Failed")
        \/ Shop!Move(j.order, {"Failed"}, "BackInShop")
        \/ Shop!Move(j.order, {"Failed"}, "WithCourier")
    BY <2>1, <2>2, ShopMoves
  <2> QED
    BY <2>1, <2>3 DEF Shop!Confirm, Shop!Cancel, Shop!NotDelivered, Shop!BackInShop, Shop!StillWithCourier
<1>4. ASSUME j.kind \in {"create", "change"}
      PROVE  Shop!Make(j.batch, j.wanted) \/ Shop!Change(j.batch, j.wanted)
  BY <1>1, <1>2, <1>4, ShopMakes, ShopChanges DEF Effect
<1>5. ASSUME j.kind = "cancelBatch"
      PROVE  Shop!CancelBatch(j.batch)
  BY <1>1, <1>2, <1>5, ShopCancels DEF Effect
<1>6. ASSUME j.kind = "handOver"
      PROVE  Shop!HandOver(j.batch)
  BY <1>1, <1>2, <1>6, ShopHandsOver DEF Effect
<1>7. ASSUME j.kind = "deliver"
      PROVE  \E S \in SUBSET Orders : Shop!Deliver(j.batch, S)
  BY <1>1, <1>2, <1>7, ShopDelivers DEF Effect
<1>8. j.kind \in Kinds
  BY <1>1 DEF Sensible
<1> QED
  BY <1>2, <1>3, <1>4, <1>5, <1>6, <1>7, <1>8 DEF Shop!Next, Kinds

\* Only a COMMIT changes what is committed.
LEMMA OthersLeaveRows ==
    ASSUME [Next]_vars, ~\E t \in Requests : Commit(t)
    PROVE  UNCHANGED db
<1>1. ASSUME NEW t \in Requests
      PROVE  /\ Fail(t) => UNCHANGED db
             /\ \A new, next : Write(t, new, next) => UNCHANGED db
             /\ \A r, next : Lock(t, r, next) => UNCHANGED db
             /\ \A next : Read(t, next) => UNCHANGED db
  BY DEF Fail, Write, Lock, Read
<1>2. ASSUME NEW t \in Requests, RecordStep(t)
      PROVE  UNCHANGED db
  BY <1>1, <1>2 DEF RecordStep, ConfirmOrder, PrepareParcel, CancelOrder, LockUndelivered, MarkFailed, LockReturn,
       ReadReturnedParcel, LockReturnedOrder, TakeParcelBack, CancelReturn, StillWithCourier
<1>3. ASSUME NEW t \in Requests, BatchStep(t)
      PROVE  UNCHANGED db
  <2>1. CASE CreateBatch(t) \/ ChangeBatch(t) \/ RefuseStale(t) \/ CancelBatch(t) \/ HandOverBatch(t) \/ DeliverBatch(t)
    BY <1>1, <2>1 DEF CreateBatch, ChangeBatch, RefuseStale, CancelBatch, HandOverBatch, DeliverBatch
  <2>2. CASE SelectToAdd(t) \/ SelectToHandOver(t) \/ SelectToDeliver(t)
    BY <1>1, <2>2 DEF SelectToAdd, SelectToHandOver, SelectToDeliver, Select
  <2>3. CASE AllFitToAdd(t) \/ LeaveOut(t) \/ SomeToDeliver(t)
    BY <1>1, <2>3 DEF AllFitToAdd, LeaveOut, SomeToDeliver
  <2>4. ASSUME NEW o \in Orders, LockOrder(t, o) \/ AddEntry(t, o) \/ DispatchOrder(t, o) \/ DeliverOrder(t, o)
        PROVE  UNCHANGED db
    BY <1>1, <2>4 DEF LockOrder, AddEntry, DispatchOrder, DeliverOrder
  <2> QED
    BY <1>3, <2>1, <2>2, <2>3, <2>4 DEF BatchStep
<1>4. ASSUME NEW t \in Requests, StockStep(t) \/ Interrupt(t) \/ BreakDeadlock(t, Needs)
      PROVE  UNCHANGED db
  BY <1>1, <1>4 DEF StockStep, LockStock, Interrupt, BreakDeadlock
<1>5. CASE AllAnswered \/ UNCHANGED vars
  BY <1>5 DEF AllAnswered, vars
<1> QED
  BY <1>2, <1>3, <1>4, <1>5 DEF Next

\* However the handlers' statements interleave, what is committed behaves as if every press of a button
\* took effect at one instant, on the orders and the batch it found then, or was refused.
THEOREM TransactionsImplementParcels == Spec => ImplementsParcels
<1>1. Init => Shop!Init
  BY InitPInv, InitShop DEF PInv
<1>2. PInv /\ [Next]_vars => [Shop!Next]_(Shop!vars)
  <2> SUFFICES ASSUME PInv, [Next]_vars
               PROVE  [Shop!Next]_(Shop!vars)
    OBVIOUS
  <2>1. CASE \E t \in Requests : Commit(t)
    BY <2>1, CommitIsAPress
  <2>2. CASE ~\E t \in Requests : Commit(t)
    BY <2>2, OthersLeaveRows DEF Shop!vars
  <2> QED
    BY <2>1, <2>2
<1> QED
  BY <1>1, <1>2, AlwaysPInv, PTL DEF Spec, ImplementsParcels, Shop!Spec

-----------------------------------------------------------------------------
(* Buttons wait for each other in a circle over stock and figures only *)

\* Of some numbers one is the smallest.
LEMMA SmallestExists ==
    ASSUME NEW F \in SUBSET Nat, F # {}
    PROVE  \E m \in F : \A n \in F : m <= n
<1>1. PICK m \in F : \A n \in F : ~(<<n, m>> \in OpToRel(<, Nat))
  BY NatLessThanWellFounded, WFMin, Zenon
<1>2. ASSUME NEW n \in F
      PROVE  m <= n
  <2>1. n \in Nat /\ m \in Nat
    BY <1>1
  <2>2. ~(n < m)
    BY <1>1, <2>1, Zenon DEF OpToRel
  <2> QED
    BY <2>1, <2>2
<1> QED
  BY <1>2

\* o is the oldest order t has yet to lock.
Head(t, o) == o \in tx[t].todo /\ \A p \in tx[t].todo : o <= p

\* t has nothing locked but the return it is about.
HasOnlyReturn(t) == DOMAIN tx[t].mine = {ItsReturn(t)}

\* Where a request that has started, puts no orders in a batch and counts no units yet, can wait: for a parcel whose order it
\* has locked, or with nothing but a return; for an order with nothing but a return, or oldest first.
LEMMA CanWait ==
    ASSUME PInv, NEW t \in Requests, Kind(t) \notin {"create", "change"}, ~At(t, "first"), ~At(t, "stock"),
           NEW r \in Needs(t)
    PROVE  \E o \in Orders :
             \/ r = Parcel(o) /\ (Order(o) \in DOMAIN tx[t].mine \/ HasOnlyReturn(t))
             \/ r = Order(o) /\ (Order(o) \in DOMAIN tx[t].mine \/ HasOnlyReturn(t))
             \/ r = Order(o) /\ Kind(t) \in {"handOver", "deliver"} /\ tx[t].pc = "lock" /\ Head(t, o)
<1> DEFINE x == tx[t]
<1>1. Knows(db, x, job[t]) /\ IsTx(x) /\ Sensible(job[t])
  BY About DEF Sensible
<1>2. x.pc \notin Resting
  BY DEF Needs, At, Resting
<1>3. Working(db, x, job[t])
  BY <1>1, <1>2 DEF Knows
<1>4. CASE x.pc = "parcel"
  <2>1. r \in {It(t), ItsParcel(t)} \ (IF Kind(t) = "cancelReturn" THEN {It(t)} ELSE {})
    BY <1>4 DEF Needs, At
  <2>2. job[t].kind \in {"confirm", "notDelivered", "confirmReturn", "cancelReturn"}
    BY <1>1, <1>3, <1>4 DEF Working, Sensible, Kinds, KnowsCancel, KnowsCancelBatch, KnowsAdd, KnowsHandOver, KnowsDeliver,
         Staged
  <2>3. job[t].order \in Orders
    BY <1>1, <2>2 DEF Sensible
  <2>4. Order(job[t].order) \in DOMAIN x.mine \/ HasOnlyReturn(t)
    BY <1>3, <1>4, <2>2 DEF Working, KnowsConfirm, KnowsNotDelivered, KnowsConfirmReturn, KnowsCancelReturn,
         HasOnlyReturn, ItsReturn
  <2> QED
    BY <2>1, <2>3, <2>4 DEF It, ItsParcel
<1>5. CASE x.pc = "lock" /\ Kind(t) = "confirmReturn"
  <2>1. r = It(t)
    BY <1>5 DEF Needs, At
  <2>2. job[t].order \in Orders
    BY <1>1, <1>5 DEF Sensible, Kind
  <2>3. HasOnlyReturn(t)
    BY <1>3, <1>5 DEF Working, Kind, KnowsConfirmReturn, HasOnlyReturn, ItsReturn
  <2> QED
    BY <2>1, <2>2, <2>3 DEF It
<1>6. CASE x.pc = "lock" /\ Kind(t) # "confirmReturn"
  <2>1. PICK o \in Orders : InTurn(t, o) /\ r = Order(o)
    BY <1>6 DEF Needs, At
  <2>2. Kind(t) \in {"handOver", "deliver"}
    BY <1>1, <1>3, <1>6 DEF Working, Sensible, Kinds, Kind, KnowsConfirm, KnowsCancel, KnowsNotDelivered,
         KnowsCancelReturn, KnowsCancelBatch
  <2> QED
    BY <1>6, <2>1, <2>2 DEF InTurn, Head
<1>7. CASE x.pc = "work"
  <2>1. PICK o \in Orders : InTurn(t, o) /\ r = Parcel(o)
    BY <1>7 DEF Needs, At
  <2>2. job[t].kind \in {"handOver", "deliver"}
    BY <1>1, <1>3, <1>7 DEF Working, Sensible, Kinds, Kind, KnowsConfirm, KnowsCancel, KnowsNotDelivered,
         KnowsConfirmReturn, KnowsCancelReturn, KnowsCancelBatch
  <2>3. o \in x.fit
    BY <1>3, <1>7, <2>1, <2>2 DEF Working, KnowsHandOver, KnowsDeliver, Staged, InTurn
  <2>4. Order(o) \in DOMAIN x.mine
    BY <1>3, <2>2, <2>3 DEF Working, KnowsHandOver, KnowsDeliver
  <2> QED
    BY <2>1, <2>4
<1>8. x.pc \in {"parcel", "lock", "work"}
  BY <1>2 DEF Needs, At, Resting
<1> QED
  BY <1>4, <1>5, <1>6, <1>7, <1>8

\* Whoever has a parcel's row locked and still waits for something has its order locked too.
LEMMA ParcelAfterOrder ==
    ASSUME PInv, NEW t \in Requests, NEW o \in Orders, Parcel(o) \in DOMAIN tx[t].mine, Needs(t) # {}
    PROVE  Order(o) \in DOMAIN tx[t].mine
<1> DEFINE x == tx[t]
<1>1. Knows(db, x, job[t]) /\ IsTx(x) /\ Sensible(job[t])
  BY About DEF Sensible
<1>2. x.pc \notin Resting
  <2>1. x.pc \in Resting => DOMAIN x.mine = {}
    BY <1>1, BlankIs DEF Knows
  <2> QED
    BY <2>1
<1>3. Working(db, x, job[t])
  BY <1>1, <1>2 DEF Knows
<1>4. x.pc \in {"parcel", "lock", "work", "stock"}
  BY <1>2 DEF Needs, At, Resting
<1>returning. CASE job[t].kind = "confirmReturn" /\ x.pc = "stock"
  <2>1. DOMAIN x.mine \ StockRows = {ItsReturn(t), It(t), ItsParcel(t)}
    BY <1>3, <1>returning DEF Working, KnowsConfirmReturn, ItsReturn, It, ItsParcel
  <2>2. Parcel(o) = ItsParcel(t)
    BY <2>1, StockNames, RowNames DEF ItsReturn, It
  <2>3. o = job[t].order
    BY <2>2, RowNames DEF ItsParcel
  <2> QED
    BY <2>1, <2>3 DEF It
<1>otherwise. CASE ~(job[t].kind = "confirmReturn" /\ x.pc = "stock")
  <2>5. job[t].kind \in {"handOver", "deliver"}
    <3>1. job[t].kind \notin {"create", "change"}
      BY <1>3 DEF Working, KnowsAdd
    <3>2. job[t].kind \notin {"cancel", "cancelBatch"}
      BY <1>3, <1>4 DEF Working, KnowsCancel, KnowsCancelBatch
    <3>3. job[t].kind \notin {"confirm", "notDelivered", "confirmReturn", "cancelReturn"}
      <4>1. \A a \in Orders : Parcel(o) # Order(a) /\ \A n : Parcel(o) # Return(a, n)
        BY RowNames
      <4> QED
        BY <1>1, <1>3, <1>4, <1>otherwise, <4>1 DEF Working, Sensible, KnowsConfirm, KnowsNotDelivered, KnowsConfirmReturn,
             KnowsCancelReturn
    <3> QED
      BY <1>1, <3>1, <3>2, <3>3 DEF Sensible, Kinds
  <2>6. o \in Worked(x)
    BY <1>3, <2>5 DEF Working, KnowsHandOver, KnowsDeliver
  <2>7. o \in x.fit
    BY <2>6 DEF Worked
  <2> QED
    BY <1>3, <2>5, <2>7 DEF Working, KnowsHandOver, KnowsDeliver
<1> QED
  BY <1>returning, <1>otherwise

\* A request that puts no orders in a batch counts its units at its own stage of the work.
LEMMA StockAtWork ==
    ASSUME PInv, NEW t \in Requests, Kind(t) \notin {"create", "change"}
    PROVE  Stocked(tx[t])
<1> DEFINE x == tx[t]
<1>1. Knows(db, x, job[t]) /\ Sensible(job[t])
  BY About DEF Sensible
<1>2. CASE x.pc \in Resting
  BY <1>1, <1>2, BlankIs DEF Knows, Resting, Stocked
<1>3. CASE x.pc \notin Resting
  <2>1. Working(db, x, job[t])
    BY <1>1, <1>3 DEF Knows
  <2>2. CASE job[t].kind \in {"confirmReturn", "handOver", "deliver"}
    BY <2>1, <2>2 DEF Working, KnowsConfirmReturn, KnowsHandOver, KnowsDeliver
  <2>3. CASE job[t].kind \in {"confirm", "cancel", "notDelivered", "cancelReturn"}
    <3>1. x.pc # "stock"
      BY <2>1, <2>3 DEF Working, KnowsConfirm, KnowsCancel, KnowsNotDelivered, KnowsCancelReturn
    <3>2. x.pc = "parcel" => DOMAIN x.mine \cap StockRows = {}
      BY <2>1, <2>3, StockNames DEF Working, KnowsConfirm, KnowsCancel, KnowsNotDelivered, KnowsCancelReturn
    <3>3. x.pc \in {"parcel", "commit"}
      BY <2>1, <2>3 DEF Working, KnowsConfirm, KnowsCancel, KnowsNotDelivered, KnowsCancelReturn
    <3> QED
      BY <3>1, <3>2, <3>3 DEF Stocked
  <2>4. CASE job[t].kind = "cancelBatch"
    BY <2>1, <2>4 DEF Working, KnowsCancelBatch, Stocked
  <2> QED
    BY <1>1, <2>2, <2>3, <2>4 DEF Sensible, Kinds, Kind
<1> QED
  BY <1>2, <1>3

\* A request that moves orders of a batch has more locked than a return.
LEMMA OnlyReturnBefore ==
    ASSUME PInv, NEW t \in Requests, Kind(t) \notin {"create", "change"}, At(t, "work")
    PROVE  ~HasOnlyReturn(t)
<1> DEFINE x == tx[t]
<1>1. Knows(db, x, job[t]) /\ Sensible(job[t])
  BY About DEF Sensible
<1>2. Working(db, x, job[t]) /\ x.pc = "work"
  BY <1>1 DEF Knows, At, Resting
<1>3. job[t].kind \in {"handOver", "deliver"}
  BY <1>1, <1>2 DEF Working, Sensible, Kinds, Kind, KnowsConfirm, KnowsCancel, KnowsNotDelivered,
       KnowsConfirmReturn, KnowsCancelReturn, KnowsCancelBatch
<1>4. Batch(job[t].batch) \in DOMAIN x.mine
  BY <1>2, <1>3 DEF Working, KnowsHandOver, KnowsDeliver, OnTrip
<1> QED
  BY <1>4, RowNames DEF HasOnlyReturn, ItsReturn

\* In a circle of waits that puts no orders in a batch, whoever waits has locked something.
LEMMA CircleHolds ==
    ASSUME PInv, NEW S \in SUBSET Requests, Deadlocked(S, Needs), NEW t \in S
    PROVE  /\ \E u \in S : u # t /\ \E r \in Needs(t) : lock[r] = u
           /\ \E u \in S : u # t /\ \E r \in Needs(u) : lock[r] = t
BY DEF Deadlocked

\* What such a request waits for, once it has started, is an order or a parcel.
LEMMA RowsNeeded ==
    ASSUME PInv, NEW t \in Requests, Kind(t) \notin {"create", "change"}, NEW r \in Needs(t)
    PROVE  /\ r \in Rows
           /\ ~At(t, "first") /\ ~At(t, "stock") => \E o \in Orders : r \in {Order(o), Parcel(o)}
           /\ At(t, "stock") => r \in StockRows
<1>4. ~(At(t, "first") /\ At(t, "stock"))
  BY DEF At
<1>1. CASE At(t, "first")
  <2>1. Sensible(job[t])
    BY About DEF Sensible
  <2>2. Needs(t) = CASE Kind(t) \in {"confirm", "cancel", "notDelivered"} -> {It(t)}
                     [] Kind(t) \in {"confirmReturn", "cancelReturn"} -> {ItsReturn(t)}
                     [] OTHER -> {ItsBatch(t)}
    BY <1>1 DEF Needs, At
  <2>3. \/ r = It(t) /\ Kind(t) \in {"confirm", "cancel", "notDelivered"}
        \/ r = ItsReturn(t) /\ Kind(t) \in {"confirmReturn", "cancelReturn"}
        \/ r = ItsBatch(t)
    BY <2>2
  <2>4. CASE r = It(t) /\ Kind(t) \in {"confirm", "cancel", "notDelivered"}
    BY <1>1, <1>4, <2>1, <2>4, RowsExist DEF Sensible, It, Kind
  <2>5. CASE r = ItsReturn(t) /\ Kind(t) \in {"confirmReturn", "cancelReturn"}
    BY <1>1, <1>4, <2>1, <2>5, RowsExist DEF Sensible, ItsReturn, Kind
  <2>6. CASE r = ItsBatch(t)
    BY <1>1, <1>4, <2>1, <2>6, RowsExist DEF Sensible, ItsBatch
  <2> QED
    BY <2>3, <2>4, <2>5, <2>6
<1>2. CASE ~At(t, "first") /\ ~At(t, "stock")
  BY <1>2, CanWait, RowsExist
<1>3. CASE At(t, "stock")
  <2>1. Stocked(tx[t]) /\ r \in tx[t].seen
    BY <1>3, StockAtWork DEF Needs, At
  <2>2. r \in StockRows
    BY <1>3, <2>1 DEF Stocked, At
  <2> QED
    BY <1>3, <2>2, RowsExist DEF At
<1> QED
  BY <1>1, <1>2, <1>3, <1>4

\* A batch's order is moved by locking its parcel.
LEMMA NeededAtWork ==
    ASSUME NEW t, Kind(t) \notin {"create", "change"}, At(t, "work"), NEW r \in Needs(t)
    PROVE  \E o \in Orders : r = Parcel(o)
BY DEF Needs, At

\* A COMMIT waits for nobody.
LEMMA NeededToCommit ==
    ASSUME NEW t, tx[t].pc = "commit"
    PROVE  Needs(t) = {}
BY DEF Needs, At

\* Nobody in it waits for a parcel of an order it has locked: its holder would have that order locked.
LEMMA NobodyAtWork ==
    ASSUME PInv, NEW S \in SUBSET Requests, Deadlocked(S, Needs), \A s \in S : Kind(s) \notin {"create", "change"},
           NEW t \in S
    PROVE  ~At(t, "work")
<1> SUFFICES ASSUME At(t, "work")
             PROVE  FALSE
  OBVIOUS
<1>1. PICK u \in S : u # t /\ \E r \in Needs(t) : lock[r] = u
  BY CircleHolds
<1>2. PICK r \in Needs(t) : lock[r] = u
  BY <1>1
<1>3. ~At(t, "first") /\ ~At(t, "stock") /\ tx[t].pc # "lock" /\ tx[t].pc # "parcel"
  BY DEF At
<1>4. PICK o \in Orders : r = Parcel(o)
  <2>1. Kind(t) \notin {"create", "change"}
    OBVIOUS
  <2> QED
    BY <1>2, <2>1, NeededAtWork
<1>5. Order(o) \in DOMAIN tx[t].mine
  <2>1. ~HasOnlyReturn(t)
    BY OnlyReturnBefore
  <2>2. \A p \in Orders : Parcel(o) # Order(p) /\ (Parcel(o) = Parcel(p) => p = o)
    BY RowNames
  <2> QED
    BY <1>2, <1>3, <1>4, <2>1, <2>2, CanWait
<1>6. \A s \in Requests : {q \in Rows : lock[q] = s} = DOMAIN tx[s].mine
  BY DEF PInv, TypeOK
<1>7. Parcel(o) \in DOMAIN tx[u].mine
  BY <1>2, <1>4, <1>6, RowsExist
<1>8. Needs(u) # {}
  BY CircleHolds
<1>9. Order(o) \in DOMAIN tx[u].mine
  BY <1>7, <1>8, ParcelAfterOrder
<1> QED
  BY <1>1, <1>5, <1>6, <1>9

\* So who waits for a row of stock or figures is waited for over such rows alone.
LEMMA WaitedOutsideStock ==
    ASSUME PInv, NEW S \in SUBSET Requests, Deadlocked(S, Needs), \A s \in S : Kind(s) \notin {"create", "change"},
           NEW t \in S, ~At(t, "stock")
    PROVE  \E u \in S : u # t /\ ~At(u, "stock") /\ \E r \in Needs(u) : lock[r] = t
<1>1. PICK u \in S : u # t /\ \E r \in Needs(u) : lock[r] = t
  BY CircleHolds
<1>2. PICK r \in Needs(u) : lock[r] = t
  BY <1>1
<1>3. ASSUME At(u, "stock")
      PROVE  FALSE
  <2>1. r \in StockRows /\ r \in Rows
    BY <1>2, <1>3, RowsNeeded
  <2>2. {q \in Rows : lock[q] = t} = DOMAIN tx[t].mine
    BY DEF PInv, TypeOK
  <2>3. r \in DOMAIN tx[t].mine
    BY <1>2, <2>1, <2>2
  <2>4. tx[t].pc \in {"work", "stock", "commit"}
    BY <2>1, <2>3, StockAtWork DEF Stocked
  <2>5. ~At(t, "work") /\ Needs(t) # {}
    BY NobodyAtWork, CircleHolds
  <2>6. tx[t].pc = "commit"
    BY <2>4, <2>5 DEF At
  <2> QED
    BY <2>5, <2>6, NeededToCommit
<1> QED
  BY <1>1, <1>3

\* So whoever in it waits for another row waits for the oldest order it has yet to lock: not for a parcel,
\* and not with nothing but a return.
LEMMA CircleLocksOrders ==
    ASSUME PInv, NEW S \in SUBSET Requests, Deadlocked(S, Needs), \A s \in S : Kind(s) \notin {"create", "change"},
           NEW t \in S, ~At(t, "stock"), NEW u \in S, u # t, NEW r \in Needs(t), lock[r] = u
    PROVE  /\ Kind(t) \in {"handOver", "deliver"} /\ tx[t].pc = "lock"
           /\ \E o \in Orders : Head(t, o) /\ Order(o) \in DOMAIN tx[u].mine
<1>1. \A s \in Requests : {q \in Rows : lock[q] = s} = DOMAIN tx[s].mine
  BY DEF PInv, TypeOK
<1>2. ASSUME NEW s \in S
      PROVE  DOMAIN tx[s].mine # {} /\ Needs(s) # {}
  <2>1. PICK w \in S : w # s /\ \E q \in Needs(w) : lock[q] = s
    BY CircleHolds
  <2>2. PICK q \in Needs(w) : lock[q] = s
    BY <2>1
  <2>3. q \in Rows
    BY <2>2, RowsNeeded
  <2>4. Needs(s) # {}
    BY CircleHolds
  <2> QED
    BY <1>1, <2>2, <2>3, <2>4
<1>3. ~HasOnlyReturn(t)
  <2>1. PICK w \in S : w # t /\ ~At(w, "stock") /\ \E q \in Needs(w) : lock[q] = t
    BY WaitedOutsideStock
  <2>2. PICK q \in Needs(w) : lock[q] = t
    BY <2>1
  <2>3. ~At(w, "first")
    BY <1>2, AtFirst
  <2>4. q \in Rows /\ \E o \in Orders : q \in {Order(o), Parcel(o)}
    BY <2>1, <2>2, <2>3, RowsNeeded
  <2>5. q \in DOMAIN tx[t].mine
    BY <1>1, <2>2, <2>4
  <2> QED
    BY <2>4, <2>5, RowNames DEF HasOnlyReturn, ItsReturn
<1>4. PICK o \in Orders :
             \/ r = Parcel(o) /\ Order(o) \in DOMAIN tx[t].mine
             \/ r = Order(o) /\ Order(o) \in DOMAIN tx[t].mine
             \/ r = Order(o) /\ Kind(t) \in {"handOver", "deliver"} /\ tx[t].pc = "lock" /\ Head(t, o)
  <2>1. ~At(t, "first")
    BY <1>2, AtFirst
  <2> QED
    BY <1>3, <2>1, CanWait
<1>5. Order(o) \in Rows /\ Parcel(o) \in Rows
  BY RowsExist
<1>6. r \in DOMAIN tx[u].mine
  BY <1>1, <1>4, <1>5
<1>7. \A q \in DOMAIN tx[t].mine : q \notin DOMAIN tx[u].mine
  BY <1>1
<1>8. r # Parcel(o) \/ Order(o) \notin DOMAIN tx[t].mine
  BY <1>2, <1>6, <1>7, ParcelAfterOrder
<1> QED
  BY <1>4, <1>6, <1>7, <1>8

\* An order younger than the one its neighbour waits for, all around the circle; and for the oldest of
\* them nobody waits.
LEMMA CirclesAreOverStock == PInv => RecordsMeetOnStock
<1> SUFFICES ASSUME PInv, NEW S \in SUBSET Requests, Deadlocked(S, Needs),
                    \A s \in S : Kind(s) \notin {"create", "change"},
                    NEW first \in S, ~At(first, "stock")
             PROVE  FALSE
  BY DEF RecordsMeetOnStock
<1> DEFINE W == {t \in S : ~At(t, "stock")}
           F == {o \in Orders : \E t \in W : Head(t, o)}
<1>1. ASSUME NEW t \in W
      PROVE  \E u \in S : u # t /\ \E r \in Needs(t) : lock[r] = u
  BY CircleHolds
<1>2. ASSUME NEW o \in Orders, NEW t \in W, Head(t, o)
      PROVE  \E p \in F : p < o
  <2>1. PICK u \in W : u # t /\ \E r \in Needs(u) : lock[r] = t
    BY WaitedOutsideStock
  <2>2. PICK p \in Orders : Head(u, p) /\ Order(p) \in DOMAIN tx[t].mine
    BY <2>1, CircleLocksOrders
  <2>3. Kind(t) \in {"handOver", "deliver"} /\ tx[t].pc = "lock"
    <3>1. PICK v \in S : v # t /\ \E r \in Needs(t) : lock[r] = v
      BY <1>1
    <3>2. PICK r \in Needs(t) : lock[r] = v
      BY <3>1
    <3> QED
      BY <3>1, <3>2, CircleLocksOrders
  <2>4. InTurnSoFar(tx[t])
    BY <2>3, About DEF Knows, Resting, Working, KnowsHandOver, KnowsDeliver, Kind
  <2>5. p < o
    BY <1>2, <2>2, <2>3, <2>4 DEF InTurnSoFar, Head
  <2> QED
    BY <2>2, <2>5
<1>3. F \in SUBSET Nat
  BY OrdersAssumption
<1>4. F # {}
  <2>1. first \in W
    OBVIOUS
  <2>2. PICK u \in S : u # first /\ \E r \in Needs(first) : lock[r] = u
    BY <1>1, <2>1
  <2>3. PICK r \in Needs(first) : lock[r] = u
    BY <2>2
  <2>4. \E o \in Orders : Head(first, o)
    BY <2>2, <2>3, CircleLocksOrders
  <2> QED
    BY <2>1, <2>4
<1> HIDE DEF F
<1>5. PICK m \in F : \A n \in F : m <= n
  BY <1>3, <1>4, SmallestExists
<1>6. PICK p \in F : p < m
  BY <1>2, <1>5 DEF F
<1> QED
  BY <1>3, <1>5, <1>6

\* Pressing an order's buttons and a batch's Hand over, Deliver and Cancel at once ends in a deadlock over rows
\* of stock and figures only, however many people press: the order is locked before its parcel, and the orders
\* of a batch oldest first, so orders, parcels, batches and returns are in no circle of waits
\* (mark-order-not-delivered.js, order-moves.js).
THEOREM ButtonsMeetOnStock == Spec => []RecordsMeetOnStock
BY CirclesAreOverStock, AlwaysPInv, PTL
=============================================================================
