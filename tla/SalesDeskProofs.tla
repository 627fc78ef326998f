---------------------------- MODULE SalesDeskProofs ----------------------------
(***************************************************************************)
(* Whoever sells, books, gives and plans at once, every request writes     *)
(* what its kind may (DInv).  The questions about the sales desk build on  *)
(* that, each with what its own requests know besides.                     *)
(***************************************************************************)
EXTENDS SalesDesk, TLAPS, FiniteSetTheorems

-----------------------------------------------------------------------------
(* What a request may have written *)

\* The shape of a request's own record.
IsTx(x) == x = [pc |-> x.pc, mine |-> x.mine, todo |-> x.todo, fit |-> x.fit, seen |-> x.seen]

\* A row has the columns of its table, and refers to rows of the right ones.
HasColumns(v, C) == v = [c \in C |-> v[c]]

CustomerColumns == {"is", "phone", "flag", "filled", "version"}
AddressColumns == {"is", "of", "default", "label", "at", "version"}
BookingColumns == {"is", "by", "customer", "units", "advance", "due", "refunded", "order", "version"}
OrderColumns == {"is", "channel", "by", "customer", "number", "units", "total", "paid", "booking", "held", "version"}
GiftColumns == {"is", "by", "order", "line", "units", "hold", "version"}

Fits(r, v) ==
    /\ r \in Phones => v \in Customers \cup {Nobody}
    /\ r \in Customers => HasColumns(v, CustomerColumns) /\ v.phone \in Phones
    /\ r \in Addresses => HasColumns(v, AddressColumns) /\ v.of \in Customers
    /\ r \in PreOrders => HasColumns(v, BookingColumns)
    /\ r \in Campaigns_ => HasColumns(v, {"is", "by", "label", "version"})
    /\ r \in Lines => HasColumns(v, {"is", "campaign", "partner", "fee", "version"}) /\ v.campaign \in Campaigns_
    /\ r \in Payments => HasColumns(v, {"is", "line", "amount", "version"}) /\ v.line \in Lines
    /\ r \in Deliverables => HasColumns(v, {"is", "line", "version"}) /\ v.line \in Lines
    /\ r \in Orders => HasColumns(v, OrderColumns) /\ v.booking \in PreOrders \cup {NoOrder}
    /\ r \in Gifts => HasColumns(v, GiftColumns) /\ v.line \in Lines \cup {NoLine} /\ v.order \in Orders \cup {NoOrder}

\* The customer, and the address, a request adds.
Sells(j) == j.do \in {"place", "checkout"} \/ (j.do = "save" /\ j.row \in Orders)
Makes(j, c) == (j.do \in {"register", "book"} \/ (j.do = "save" /\ j.row \in PreOrders) \/ Sells(j)) /\ c = j.to.new
Adds(j, a) == (j.do \in {"register", "address"} \/ Sells(j)) /\ a = j.to.address

\* Who writes the lines of a campaign: whoever makes it, or saves its form.
Arranges(j) == j.do \in {"plan", "save"} /\ j.row \in Campaigns_

\* What may become of a row at the hands of request j.
CustomerMoves(old, new, j, c) ==
    \/ Makes(j, c) /\ new.is # "None" /\ new.flag = "None"
    \/ /\ new.is = "None" <=> old.is = "None"
       /\ new.flag = old.flag \/ (j.do = "flag" /\ c = j.row)

AddressMoves(old, new, j, a) ==
    \/ Adds(j, a)
    \/ new.of = old.of /\ (new.is = "None" <=> old.is = "None")

BookingMoves(old, new, j, b) ==
    /\ old.is = "Converted" => new = old
    /\ new.is = "Converted" => new = old \/ (j.do = "place" /\ b = j.to.booking)

LineMoves(old, new, j) ==
    \/ new = old
    \/ /\ Arranges(j) /\ new.campaign = j.row
       /\ \/ old.is = "None" /\ new.is = "On"
          \/ old.is = "On" /\ old.campaign = j.row /\ new.is \in {"On", "Off"}

PaymentMoves(old, new, j, p) ==
    \/ new = old
    \/ j.do = "pay partner" /\ p = j.row /\ old.is = "None" /\ new.is = "Paid" /\ new.line = j.to.line

DeliverableMoves(old, new, j, d) ==
    \/ new = old
    \/ j.do = "promise" /\ d = j.row /\ old.is = "None" /\ new.is = "Pending" /\ new.line = j.to
    \/ j.do \in {"save", "remove"} /\ d = j.row /\ new.line = old.line

\* A gift comes to be drafted, or given, at its own request or in a parcel.
Gives(j) == j.do \in {"draft gift", "give"}
MayBecome(old, is, j, g) == is \in {"Draft", "Given"} => (Gives(j) /\ g = j.row) \/ old.order # NoOrder

GiftMoves(old, new, j, g) ==
    /\ \/ new.line = old.line /\ new.order = old.order /\ (new.is = "None" <=> old.is = "None")
       \/ /\ j.do \in {"add", "draft gift"} /\ g = j.row /\ old.is = "None"
          /\ new.is # "None" /\ new.line = j.to.line /\ new.order = j.to.order
    /\ new.is = old.is \/ MayBecome(new, new.is, j, g)

\* An order goes its way: it stays what was sold, and is paid what was paid until it is delivered.
Follows(old, new) ==
    /\ new.is = "None" <=> old.is = "None"
    /\ new.is \in {"Pending", "Draft"} => new.is = old.is
    /\ new.number = old.number /\ new.customer = old.customer /\ new.units = old.units /\ new.total = old.total
    /\ new.booking = old.booking
    /\ \/ new.paid = old.paid /\ (new.is = "Delivered" <=> old.is = "Delivered")
       \/ new.is = "Delivered" /\ new.paid = new.total

OrderMoves(old, new, j, o) ==
    \/ Follows(old, new)
    \/ /\ j.do \in {"place", "draft", "checkout"} /\ o = j.row /\ old.is \in {"None", "Draft"} /\ new.is # "None"
       /\ new.is = "Pending" => j.do = "place"
       /\ old.is = "Draft" => new.number = old.number
       /\ new.booking = NoOrder \/ (j.do = "place" /\ new.booking = j.to.booking)
    \/ /\ j.do = "save" /\ o = j.row /\ old.is = "Pending" /\ new.is \notin {"None", "Draft"}
       /\ new.number = old.number /\ new.booking = old.booking

Moves(r, old, new, j) ==
    /\ r \in Customers => CustomerMoves(old, new, j, r)
    /\ r \in Addresses => AddressMoves(old, new, j, r)
    /\ r \in PreOrders => BookingMoves(old, new, j, r)
    /\ r \in Lines => LineMoves(old, new, j)
    /\ r \in Payments => PaymentMoves(old, new, j, r)
    /\ r \in Deliverables => DeliverableMoves(old, new, j, r)
    /\ r \in Gifts => GiftMoves(old, new, j, r)
    /\ r \in Orders => OrderMoves(old, new, j, r)

Fair(rows, r, v, j) == r \in Rows /\ Fits(r, v) /\ Moves(r, rows[r], v, j)

\* Where a request has nothing locked.
Idle(x) == x.pc \in {"begin", "save", "owner", "done", "failed"}

\* What a request has found out where it stands.
Stands(rows, x, j) ==
    /\ x.pc \in {"save", "check"} => j.do \in {"save", "pay"}
    /\ x.pc = "save" => j.row \in Rows
    /\ x.pc = "check" => j.row \in DOMAIN x.mine
    /\ x.pc \in {"customer", "address", "step down", "in front", "beside", "header", "book", "rebook"} => x.fit \in Customers
    /\ x.pc \in {"address", "step down", "in front", "beside"} => j.to.address \in Addresses
    /\ x.pc = "convert" => j.do = "place" /\ j.to.booking \in PreOrders
    /\ x.pc = "leave" /\ j.do = "dispatch" => x.todo \subseteq Gifts
    /\ j.do = "save" /\ j.row \in PreOrders /\ x.pc \in {"find", "register", "find again", "rebook"} =>
            j.row \in DOMAIN x.mine /\ x.mine[j.row].is \in OPEN_STATUSES
    /\ j.do = "checkout" /\ x.pc \in {"find", "register", "find again"} => j.to.phone \in Phones
    /\ x.pc = "register" => j.to.new \in Customers
    /\ x.pc \in {"number", "insert"} => j.do \in {"place", "draft", "checkout"}
    /\ j.do = "save" /\ j.row \in Orders /\ x.pc = "booking" => j.row \in DOMAIN x.mine /\ x.mine[j.row].booking \in PreOrders
    /\ Arranges(j) /\ x.pc # "commit" => \A l \in Lines \cap DOMAIN x.mine : x.mine[l] = rows[l]
    /\ j.do = "add" /\ x.pc = "hold" => j.row \in DOMAIN x.mine /\ rows[j.row].is = "None"

\* What every request knows.
Knows(rows, x, j) ==
    /\ IsTx(x)
    /\ \A r \in DOMAIN x.mine : Fair(rows, r, x.mine[r], j)
    /\ Idle(x) => DOMAIN x.mine = {}
    /\ Stands(rows, x, j)

\* The tables and the locks, and what every request knows.
DInv ==
    /\ db = [r \in Rows |-> db[r]] /\ \A r \in Rows : Fits(r, db[r])
    /\ lock = [r \in Rows |-> lock[r]]
    /\ shared = [r \in Rows |-> shared[r]]
    /\ \A t \in Requests : {r \in Rows : lock[r] = t} = DOMAIN tx[t].mine
    /\ \A t \in Requests, r \in Rows : lock[r] = t => shared[r] \subseteq {t}
    /\ tx = [t \in Requests |-> tx[t]]
    /\ job \in Starts
    /\ \A t \in Requests : Knows(db, tx[t], job[t])

-----------------------------------------------------------------------------
(* Rows and versions *)

\* The rows of different tables differ.
LEMMA TablesDiffer ==
    /\ \A r \in Phones : r \notin Customers \cup Addresses \cup PreOrders \cup CampaignRows \cup Orders \cup Gifts
    /\ \A r \in Customers : r \notin Addresses \cup PreOrders \cup CampaignRows \cup Orders \cup Gifts
    /\ \A r \in Addresses : r \notin PreOrders \cup CampaignRows \cup Orders \cup Gifts
    /\ \A r \in PreOrders : r \notin CampaignRows \cup Orders \cup Gifts
    /\ \A r \in CampaignRows : r \notin Orders \cup Gifts
    /\ \A r \in Campaigns_ : r \notin Partners \cup Lines \cup Payments \cup Deliverables
    /\ \A r \in Partners : r \notin Lines \cup Payments \cup Deliverables
    /\ \A r \in Lines : r \notin Payments \cup Deliverables
    /\ \A r \in Payments : r \notin Deliverables
    /\ \A r \in Orders : r \notin Gifts
    /\ \A r \in {TheBatch, InvoiceDesk} :
        r \notin Phones \cup Customers \cup Addresses \cup PreOrders \cup CampaignRows \cup Orders \cup Gifts
    /\ TheBatch # InvoiceDesk /\ NoOrder \notin Orders \cup PreOrders /\ NoLine \notin Lines
    /\ Nobody \notin Phones \cup Customers \cup Addresses
BY CustomersAssumption, BookingsAssumption, CampaignsAssumption, ShelfAssumption DEF CustomerRows, CampaignRows

\* They are rows.
LEMMA RowsAre ==
    /\ Phones \subseteq Rows /\ Customers \subseteq Rows /\ Addresses \subseteq Rows /\ PreOrders \subseteq Rows
    /\ Campaigns_ \subseteq Rows /\ Partners \subseteq Rows /\ Lines \subseteq Rows /\ Payments \subseteq Rows
    /\ Deliverables \subseteq Rows /\ Orders \subseteq Rows /\ Gifts \subseteq Rows
    /\ TheBatch \in Rows /\ InvoiceDesk \in Rows
    /\ Campaigns_ \subseteq CampaignRows /\ Partners \subseteq CampaignRows /\ Lines \subseteq CampaignRows
    /\ Payments \subseteq CampaignRows /\ Deliverables \subseteq CampaignRows
BY CustomersAssumption, BookingsAssumption, CampaignsAssumption, ShelfAssumption DEF CustomerRows, CampaignRows

\* A statement that writes one row writes that row.
LEMMA OneVersion ==
    ASSUME NEW r, NEW v
    PROVE  DOMAIN Version(r, v) = {r} /\ Version(r, v)[r] = v
BY DEF Version

\* A new version hides the older one.
Newest(h, f, g) ==
    /\ h = [r \in DOMAIN f \cup DOMAIN g |-> h[r]]
    /\ \A r \in DOMAIN f : h[r] = f[r]
    /\ \A r \in DOMAIN g : r \notin DOMAIN f => h[r] = g[r]

LEMMA NewestCounts == ASSUME NEW f, NEW g PROVE Newest(f ++ g, f, g)
BY DEF ++, Newest

\* Two rows at once.
LEMMA TwoVersions ==
    ASSUME NEW r, NEW v, NEW s, NEW w, r # s
    PROVE  LET new == Version(r, v) ++ Version(s, w)
           IN  DOMAIN new = {r, s} /\ new[r] = v /\ new[s] = w
<1>1. PICK f, g, h : f = Version(r, v) /\ g = Version(s, w) /\ h = f ++ g
  OBVIOUS
<1>2. Newest(h, f, g) /\ DOMAIN f = {r} /\ f[r] = v /\ DOMAIN g = {s} /\ g[s] = w
  BY <1>1, NewestCounts, OneVersion
<1>3. DOMAIN h = {r, s} /\ h[r] = v /\ h[s] = w
  BY <1>2 DEF Newest
<1> QED
  BY <1>1, <1>3

\* An UPDATE writes the columns it names and the version, and leaves the others.
Rewritten(v, old, new) ==
    /\ v = [c \in DOMAIN v |-> v[c]]
    /\ DOMAIN v = DOMAIN new \cup DOMAIN old
    /\ \A c \in DOMAIN new : c # "version" => v[c] = new[c]
    /\ \A c \in DOMAIN old : c \notin DOMAIN new /\ c # "version" => v[c] = old[c]

LEMMA UpdatedIs == ASSUME NEW old, NEW new PROVE Rewritten(Updated(old, new), old, new)
<1>1. PICK f, n : f = new ++ old /\ n = old.version + 1
  OBVIOUS
<1>2. Newest(f, new, old)
  BY <1>1, NewestCounts
<1>3. PICK g : g = [f EXCEPT !.version = n]
  OBVIOUS
<1>4. /\ g = [c \in DOMAIN g |-> g[c]]
      /\ DOMAIN g = DOMAIN f
      /\ \A c \in DOMAIN f : c # "version" => g[c] = f[c]
  BY <1>3
<1>5. Rewritten(g, old, new)
  BY <1>2, <1>4 DEF Newest, Rewritten
<1> QED
  BY <1>1, <1>3, <1>5 DEF Updated

\* An UPDATE of some columns of a row keeps its columns.
LEMMA UpdatedColumns ==
    ASSUME NEW C, NEW old, HasColumns(old, C), NEW new, DOMAIN new \subseteq C
    PROVE  /\ HasColumns(Updated(old, new), C)
           /\ \A c \in DOMAIN new : c # "version" => Updated(old, new)[c] = new[c]
           /\ \A c \in C : c \notin DOMAIN new /\ c # "version" => Updated(old, new)[c] = old[c]
<1>1. PICK v : v = Updated(old, new) /\ Rewritten(v, old, new)
  BY UpdatedIs
<1>2. DOMAIN old = C
  BY DEF HasColumns
<1>3. /\ v = [c \in C |-> v[c]]
      /\ \A c \in DOMAIN new : c # "version" => v[c] = new[c]
      /\ \A c \in C : c \notin DOMAIN new /\ c # "version" => v[c] = old[c]
  BY <1>1, <1>2 DEF Rewritten
<1> QED
  BY <1>1, <1>3 DEF HasColumns

-----------------------------------------------------------------------------
(* One request's step *)

\* What the invariant says of one request.
LEMMA About ==
    ASSUME DInv, NEW t \in Requests
    PROVE  /\ IsTx(tx[t]) /\ Knows(db, tx[t], job[t]) /\ Form(job[t])
           /\ DOMAIN tx[t].mine \subseteq Rows
           /\ \A r \in Rows : View(t, r) = IF r \in DOMAIN tx[t].mine THEN tx[t].mine[r] ELSE db[r]
           /\ \A r \in Rows : lock[r] = t <=> r \in DOMAIN tx[t].mine
           /\ \A r \in DOMAIN tx[t].mine : shared[r] \subseteq {t}
           /\ \A r \in Rows : Fits(r, db[r])
           /\ t # NoRequest
<1>1. {r \in Rows : lock[r] = t} = DOMAIN tx[t].mine
  BY DEF DInv
<1>2. \A r \in Rows : View(t, r) = IF r \in DOMAIN tx[t].mine THEN tx[t].mine[r] ELSE db[r]
  BY <1>1 DEF View
<1>3. Form(job[t])
  BY SalesDeskAssumption DEF DInv
<1>4. \A r \in DOMAIN tx[t].mine : shared[r] \subseteq {t}
  BY <1>1 DEF DInv
<1> QED
  BY <1>1, <1>2, <1>3, <1>4, ReadCommittedAssumption DEF DInv, Knows

\* Two requests have no row in common.
LEMMA Apart ==
    ASSUME DInv, NEW t \in Requests, NEW u \in Requests, u # t
    PROVE  DOMAIN tx[t].mine \cap DOMAIN tx[u].mine = {}
BY About

\* A row as it is may stay so.
LEMMA StaysFair ==
    ASSUME NEW rows, NEW r \in Rows, Fits(r, rows[r]), NEW j
    PROVE  Fair(rows, r, rows[r], j)
<1>1. Moves(r, rows[r], rows[r], j)
  BY DEF Moves, CustomerMoves, AddressMoves, BookingMoves, LineMoves, PaymentMoves, DeliverableMoves, GiftMoves, OrderMoves, Follows
<1> QED
  BY <1>1 DEF Fair

\* A row as t sees it is one it may have written.
LEMMA SeenFair ==
    ASSUME DInv, NEW t \in Requests, NEW r \in Rows
    PROVE  Fair(db, r, View(t, r), job[t])
<1>1. CASE r \in DOMAIN tx[t].mine
  BY <1>1, About DEF Knows
<1>2. CASE r \notin DOMAIN tx[t].mine
  BY <1>2, About, StaysFair
<1> QED
  BY <1>1, <1>2

\* t's record is another; no row changes, its locks are those of its versions, and it shares what nobody
\* has locked.
Went(t, y) ==
    /\ tx' = [tx EXCEPT ![t] = y]
    /\ db' = db /\ job' = job
    /\ lock' = [r \in Rows |-> lock'[r]] /\ shared' = [r \in Rows |-> shared'[r]]
    /\ \A r \in Rows : lock'[r] = IF r \in DOMAIN y.mine THEN t ELSE IF lock[r] = t THEN NoRequest ELSE lock[r]
    /\ \A r \in DOMAIN y.mine : r \in Rows /\ lock[r] \in {NoRequest, t} /\ shared[r] \subseteq {t}
    /\ \A r \in Rows : shared'[r] \ {t} = shared[r] \ {t}
    /\ \A r \in Rows : t \in shared'[r] => t \in shared[r] \/ lock[r] \in {NoRequest, t}

\* The invariant is kept by a step of t that changes no row and nobody else's record.
Goes(t) == DInv' /\ \E y : Went(t, y)

LEMMA WentKeeps ==
    ASSUME DInv, NEW t \in Requests, NEW y, Went(t, y), Knows(db, y, job[t])
    PROVE  Goes(t)
<1>1. /\ tx'[t] = y /\ \A u \in Requests : u # t => tx'[u] = tx[u]
      /\ tx' = [u \in Requests |-> tx'[u]]
  BY DEF DInv, Went
<1>2. ASSUME NEW u \in Requests
      PROVE  {r \in Rows : lock'[r] = u} = DOMAIN tx'[u].mine
  <2>1. CASE u = t
    BY <1>1, <2>1, About DEF Went
  <2>2. CASE u # t
    BY <1>1, <2>2, About DEF Went
  <2> QED
    BY <2>1, <2>2
<1>3. ASSUME NEW u \in Requests
      PROVE  Knows(db', tx'[u], job'[u])
  BY <1>1, About DEF Went
<1>4. /\ db' = [r \in Rows |-> db'[r]] /\ \A r \in Rows : Fits(r, db'[r])
      /\ lock' = [r \in Rows |-> lock'[r]] /\ job' \in Starts /\ shared' = [r \in Rows |-> shared'[r]]
  BY DEF DInv, Went
<1>5. ASSUME NEW u \in Requests, NEW r \in Rows, lock'[r] = u
      PROVE  shared'[r] \subseteq {u}
  <2>1. CASE u = t
    <3>1. r \in DOMAIN y.mine
      BY <1>5, <2>1, About DEF Went
    <3> QED
      BY <2>1, <3>1 DEF Went
  <2>2. CASE u # t
    <3>1. lock[r] = u /\ lock[r] # NoRequest
      BY <1>5, <2>2, About DEF Went
    <3>2. shared[r] \subseteq {u}
      BY <3>1 DEF DInv
    <3> QED
      BY <2>2, <3>1, <3>2 DEF Went
  <2> QED
    BY <2>1, <2>2
<1> QED
  BY <1>1, <1>2, <1>3, <1>4, <1>5 DEF DInv, Goes

\* A statement that reads.
LEMMA LookIs ==
    ASSUME DInv, NEW t \in Requests, NEW next, Look(t, next), next.mine = tx[t].mine
    PROVE  Went(t, next)
BY About DEF Look, Read, Went, DInv

\* A statement that shares a row.
LEMMA ShareIs ==
    ASSUME DInv, NEW t \in Requests, NEW r, NEW next, Share(t, {r}, next), next.mine = tx[t].mine
    PROVE  Went(t, next) /\ (r \in Rows => t \in shared'[r])
<1>1. /\ tx' = [tx EXCEPT ![t] = next] /\ db' = db /\ lock' = lock /\ job' = job
      /\ shared' = [s \in Rows |-> IF s \in {r} THEN shared[s] \cup {t} ELSE shared[s]]
      /\ lock[r] \in {NoRequest, t}
  BY DEF Share, Read, Free
<1>2. lock = [s \in Rows |-> lock[s]]
  BY DEF DInv
<1>3. \A s \in Rows : shared'[s] \ {t} = shared[s] \ {t} /\ (t \in shared'[s] => t \in shared[s] \/ lock[s] \in {NoRequest, t})
  BY <1>1
<1>4. shared' = [s \in Rows |-> shared'[s]] /\ (r \in Rows => t \in shared'[r])
  BY <1>1
<1> QED
  BY <1>1, <1>2, <1>3, <1>4, About DEF Went

\* A statement that writes.
Wrote(t, new, next) == [next EXCEPT !.mine = new ++ @]

LEMMA ChangeIs ==
    ASSUME DInv, NEW t \in Requests, NEW new, NEW next, Change(t, new, next), next.mine = tx[t].mine, IsTx(next),
           DOMAIN new \subseteq Rows
    PROVE  /\ Went(t, Wrote(t, new, next))
           /\ IsTx(Wrote(t, new, next)) /\ Newest(Wrote(t, new, next).mine, new, tx[t].mine)
           /\ Wrote(t, new, next).pc = next.pc /\ Wrote(t, new, next).todo = next.todo
           /\ Wrote(t, new, next).fit = next.fit /\ Wrote(t, new, next).seen = next.seen
<1>1. PICK m : m = new ++ next.mine /\ Newest(m, new, tx[t].mine)
  BY NewestCounts
<1>2. PICK y : y = Wrote(t, new, next)
  OBVIOUS
<1>3. /\ y.mine = m /\ y.pc = next.pc /\ y.todo = next.todo /\ y.fit = next.fit /\ y.seen = next.seen
      /\ IsTx(y)
  BY <1>1, <1>2 DEF Wrote, IsTx
<1>4. /\ tx' = [tx EXCEPT ![t] = y] /\ db' = db /\ job' = job /\ shared' = shared
      /\ lock' = [r \in Rows |-> IF r \in DOMAIN new THEN t ELSE lock[r]]
      /\ \A r \in DOMAIN new : lock[r] \in {NoRequest, t} /\ shared[r] \subseteq {t}
  BY <1>2 DEF Change, Write, Wrote, Free, OursAlone
<1>5. DOMAIN m = DOMAIN new \cup DOMAIN tx[t].mine
  BY <1>1 DEF Newest
<1>6. shared = [r \in Rows |-> shared[r]]
  BY DEF DInv
<1>7. Went(t, y)
  BY <1>3, <1>4, <1>5, <1>6, About DEF Went
<1> QED
  BY <1>1, <1>2, <1>3, <1>7

\* A transaction that was not begun, or is over, has nothing locked.
LEMMA BlankIs ==
    ASSUME NEW pc
    PROVE  /\ Blank(pc).pc = pc /\ Blank(pc).todo = {} /\ IsTx(Blank(pc))
           /\ DOMAIN Blank(pc).mine = {}
<1>1. Blank(pc).pc = pc /\ Blank(pc).todo = {} /\ IsTx(Blank(pc))
  BY DEF Blank, IsTx
<1>2. DOMAIN Blank(pc).mine = {}
  BY DEF Blank
<1> QED
  BY <1>1, <1>2

LEMMA BlankKnows ==
    ASSUME NEW rows, NEW j, NEW pc, pc \in {"begin", "done", "failed"}
    PROVE  Knows(rows, Blank(pc), j)
<1>1. PICK x : x = Blank(pc)
  OBVIOUS
<1>2. x.pc = pc /\ DOMAIN x.mine = {} /\ IsTx(x)
  BY <1>1, BlankIs
<1>3. Stands(rows, x, j)
  BY <1>2 DEF Stands
<1>4. Knows(rows, x, j)
  BY <1>2, <1>3 DEF Knows
<1> QED
  BY <1>1, <1>4

\* A statement that gives up.
LEMMA RefuseIs ==
    ASSUME DInv, NEW t \in Requests, Refuse(t)
    PROVE  Went(t, Blank("failed"))
<1>1. PICK y : y = Blank("failed") /\ DOMAIN y.mine = {}
  BY BlankIs
<1>2. /\ tx' = [tx EXCEPT ![t] = y] /\ db' = db /\ job' = job
      /\ lock' = [r \in Rows |-> IF lock[r] = t THEN NoRequest ELSE lock[r]]
      /\ shared' = [r \in Rows |-> shared[r] \ {t}]
  BY <1>1 DEF Refuse, Fail, End, LetGo
<1>3. Went(t, y)
  BY <1>1, <1>2 DEF Went
<1> QED
  BY <1>1, <1>3

LEMMA RefuseKeeps ==
    ASSUME DInv, NEW t \in Requests, Refuse(t)
    PROVE  Goes(t)
BY BlankKnows, RefuseIs, WentKeeps

\* What a request knows is about the rows it has locked.
LEMMA KnowledgeOutlives ==
    ASSUME NEW rows, NEW new, NEW x, NEW j, Knows(rows, x, j), \A r \in DOMAIN x.mine : new[r] = rows[r]
    PROVE  Knows(new, x, j)
<1>1. \A r \in DOMAIN x.mine : Fair(rows, r, x.mine[r], j) => Fair(new, r, x.mine[r], j)
  BY DEF Fair
<1>2. Stands(new, x, j)
  BY DEF Knows, Stands
<1> QED
  BY <1>1, <1>2 DEF Knows

\* COMMIT.
LEMMA FinishIs ==
    ASSUME DInv, NEW t \in Requests, Finish(t)
    PROVE  /\ tx[t].pc = "commit" /\ tx' = [tx EXCEPT ![t] = Blank("done")] /\ job' = job
           /\ tx'[t] = Blank("done") /\ \A u \in Requests : u # t => tx'[u] = tx[u]
           /\ db' = [r \in Rows |-> db'[r]]
           /\ \A r \in Rows : db'[r] = IF r \in DOMAIN tx[t].mine THEN tx[t].mine[r] ELSE db[r]
           /\ lock' = [r \in Rows |-> IF lock[r] = t THEN NoRequest ELSE lock[r]]
           /\ shared' = [r \in Rows |-> shared[r] \ {t}]
           /\ \A u \in Requests : u # t => \A r \in DOMAIN tx[u].mine : db'[r] = db[r]
<1>1. db' = [r \in Rows |-> View(t, r)] /\ tx[t].pc = "commit"
  BY DEF Finish, Commit, At
<1>2. /\ tx' = [tx EXCEPT ![t] = Blank("done")] /\ job' = job
      /\ lock' = [r \in Rows |-> IF lock[r] = t THEN NoRequest ELSE lock[r]]
      /\ shared' = [r \in Rows |-> shared[r] \ {t}]
  BY DEF Finish, Commit, End, LetGo
<1>3. tx'[t] = Blank("done") /\ \A u \in Requests : u # t => tx'[u] = tx[u]
  BY <1>2 DEF DInv
<1>4. \A u \in Requests : u # t => \A r \in DOMAIN tx[u].mine : db'[r] = db[r]
  BY <1>1, Apart, About
<1> QED
  BY <1>1, <1>2, <1>3, <1>4, About

LEMMA FinishKeeps ==
    ASSUME DInv, NEW t \in Requests, Finish(t)
    PROVE  DInv'
<1>1. /\ tx' = [tx EXCEPT ![t] = Blank("done")] /\ job' = job
      /\ tx'[t] = Blank("done") /\ \A u \in Requests : u # t => tx'[u] = tx[u]
      /\ db' = [r \in Rows |-> db'[r]]
      /\ \A r \in Rows : db'[r] = IF r \in DOMAIN tx[t].mine THEN tx[t].mine[r] ELSE db[r]
      /\ lock' = [r \in Rows |-> IF lock[r] = t THEN NoRequest ELSE lock[r]]
      /\ shared' = [r \in Rows |-> shared[r] \ {t}]
      /\ \A u \in Requests : u # t => \A r \in DOMAIN tx[u].mine : db'[r] = db[r]
  BY FinishIs
<1>2. \A r \in Rows : Fits(r, db'[r])
  BY <1>1, About DEF Knows, Fair
<1>3. ASSUME NEW u \in Requests
      PROVE  Knows(db', tx'[u], job'[u])
  <2>1. CASE u = t
    BY <1>1, <2>1, BlankKnows
  <2>2. CASE u # t
    <3>1. Knows(db, tx[u], job[u])
      BY About
    <3> QED
      BY <1>1, <2>2, <3>1, KnowledgeOutlives
  <2> QED
    BY <2>1, <2>2
<1>4. ASSUME NEW u \in Requests
      PROVE  {r \in Rows : lock'[r] = u} = DOMAIN tx'[u].mine
  <2>1. CASE u = t
    <3>1. DOMAIN tx'[u].mine = {}
      BY <1>1, <2>1, BlankIs
    <3> QED
      BY <1>1, <2>1, <3>1, About
  <2>2. CASE u # t
    BY <1>1, <2>2, About
  <2> QED
    BY <2>1, <2>2
<1>5. \A u \in Requests, r \in Rows : lock'[r] = u => shared'[r] \subseteq {u}
  BY <1>1, About DEF DInv
<1>6. /\ lock' = [r \in Rows |-> lock'[r]] /\ shared' = [r \in Rows |-> shared'[r]]
      /\ tx' = [u \in Requests |-> tx'[u]] /\ job' \in Starts
  BY <1>1 DEF DInv
<1> QED
  BY <1>1, <1>2, <1>3, <1>4, <1>5, <1>6 DEF DInv

-----------------------------------------------------------------------------
(* Statements *)

\* A request goes on to another statement, with what it has.
LEMMA GoesOn ==
    ASSUME NEW x, IsTx(x), NEW pc
    PROVE  LET y == [x EXCEPT !.pc = pc]
           IN  y.pc = pc /\ y.mine = x.mine /\ y.todo = x.todo /\ y.fit = x.fit /\ y.seen = x.seen /\ IsTx(y)
<1>1. PICK y : y = [x EXCEPT !.pc = pc]
  OBVIOUS
<1>2. y = [pc |-> pc, mine |-> x.mine, todo |-> x.todo, fit |-> x.fit, seen |-> x.seen]
  BY <1>1 DEF IsTx
<1> QED
  BY <1>1, <1>2 DEF IsTx

LEMMA ToIs ==
    ASSUME DInv, NEW t \in Requests, NEW pc
    PROVE  /\ To(t, pc).pc = pc /\ To(t, pc).mine = tx[t].mine /\ To(t, pc).todo = tx[t].todo
           /\ To(t, pc).fit = tx[t].fit /\ To(t, pc).seen = tx[t].seen /\ IsTx(To(t, pc))
BY About, GoesOn DEF To

\* With other findings.
LEMMA WithTodo ==
    ASSUME NEW x, IsTx(x), NEW v, NEW y, y = [x EXCEPT !.todo = v]
    PROVE  y.pc = x.pc /\ y.mine = x.mine /\ y.todo = v /\ y.fit = x.fit /\ y.seen = x.seen /\ IsTx(y)
<1>1. y = [pc |-> x.pc, mine |-> x.mine, todo |-> v, fit |-> x.fit, seen |-> x.seen]
  BY DEF IsTx
<1> QED
  BY <1>1 DEF IsTx

LEMMA WithFit ==
    ASSUME NEW x, IsTx(x), NEW v, NEW y, y = [x EXCEPT !.fit = v]
    PROVE  y.pc = x.pc /\ y.mine = x.mine /\ y.todo = x.todo /\ y.fit = v /\ y.seen = x.seen /\ IsTx(y)
<1>1. y = [pc |-> x.pc, mine |-> x.mine, todo |-> x.todo, fit |-> v, seen |-> x.seen]
  BY DEF IsTx
<1> QED
  BY <1>1 DEF IsTx

LEMMA WithSeen ==
    ASSUME NEW x, IsTx(x), NEW v, NEW y, y = [x EXCEPT !.seen = v]
    PROVE  y.pc = x.pc /\ y.mine = x.mine /\ y.todo = x.todo /\ y.fit = x.fit /\ y.seen = v /\ IsTx(y)
<1>1. y = [pc |-> x.pc, mine |-> x.mine, todo |-> x.todo, fit |-> x.fit, seen |-> v]
  BY DEF IsTx
<1> QED
  BY <1>1 DEF IsTx

LEMMA ForIs ==
    ASSUME DInv, NEW t \in Requests, NEW c, NEW pc
    PROVE  /\ For(t, c, pc).pc = pc /\ For(t, c, pc).mine = tx[t].mine /\ For(t, c, pc).todo = tx[t].todo
           /\ For(t, c, pc).fit = c /\ For(t, c, pc).seen = tx[t].seen /\ IsTx(For(t, c, pc))
<1>1. PICK x, y : x = To(t, pc) /\ y = [x EXCEPT !.fit = c]
  OBVIOUS
<1>2. /\ x.pc = pc /\ x.mine = tx[t].mine /\ x.todo = tx[t].todo /\ x.fit = tx[t].fit /\ x.seen = tx[t].seen /\ IsTx(x)
  BY <1>1, ToIs
<1>3. y.pc = pc /\ y.mine = tx[t].mine /\ y.todo = tx[t].todo /\ y.fit = c /\ y.seen = tx[t].seen /\ IsTx(y)
  BY <1>1, <1>2, WithFit
<1>4. y = For(t, c, pc)
  BY <1>1 DEF For
<1> QED
  BY <1>3, <1>4

\* Where nothing is asked of who stands there.
Easy(pc, j) ==
    /\ pc \notin {"customer", "address", "step down", "in front", "beside", "header", "book", "rebook", "convert",
                  "number", "insert", "save", "register", "check"}
    /\ ~(j.do = "checkout" /\ pc \in {"find", "register", "find again"})
    /\ ~(pc = "leave" /\ j.do = "dispatch") /\ ~(pc = "hold" /\ j.do = "add")
    /\ ~(j.do = "save" /\ j.row \in PreOrders /\ pc \in {"find", "register", "find again", "rebook"})
    /\ ~(j.do = "save" /\ j.row \in Orders /\ pc = "booking")
    /\ Arranges(j) => pc = "commit"

LEMMA EasyStands ==
    ASSUME NEW rows, NEW x, NEW j, Easy(x.pc, j)
    PROVE  Stands(rows, x, j)
BY DEF Easy, Stands

IdleAt == {"begin", "save", "owner", "done", "failed"}

LEMMA LookKeeps ==
    ASSUME DInv, NEW t \in Requests, NEW next, Look(t, next), next.mine = tx[t].mine, IsTx(next),
           next.pc \in IdleAt => Idle(tx[t]), Stands(db, next, job[t])
    PROVE  Goes(t)
<1>1. Knows(db, next, job[t])
  BY About DEF Knows, Idle, IdleAt
<1> QED
  BY <1>1, LookIs, WentKeeps

LEMMA LookToKeeps ==
    ASSUME DInv, NEW t \in Requests, NEW pc, Look(t, To(t, pc)), pc \in IdleAt => Idle(tx[t]), Easy(pc, job[t])
    PROVE  Goes(t)
<1>1. PICK next : next = To(t, pc) /\ next.pc = pc /\ next.mine = tx[t].mine /\ IsTx(next)
  BY ToIs
<1>2. Stands(db, next, job[t])
  BY <1>1, EasyStands
<1> QED
  BY <1>1, <1>2, LookKeeps

LEMMA ShareToKeeps ==
    ASSUME DInv, NEW t \in Requests, NEW r, NEW pc, Share(t, {r}, To(t, pc)), pc \notin IdleAt, Easy(pc, job[t])
    PROVE  Goes(t)
<1>1. PICK next : next = To(t, pc) /\ next.pc = pc /\ next.mine = tx[t].mine /\ IsTx(next)
  BY ToIs
<1>2. Stands(db, next, job[t])
  BY <1>1, EasyStands
<1>3. Knows(db, next, job[t])
  BY <1>1, <1>2, About DEF Knows, Idle, IdleAt
<1> QED
  BY <1>1, <1>3, ShareIs, WentKeeps

LEMMA ChangeKeeps ==
    ASSUME DInv, NEW t \in Requests, NEW new, NEW next, Change(t, new, next), next.mine = tx[t].mine, IsTx(next),
           \A r \in DOMAIN new : Fair(db, r, new[r], job[t]),
           next.pc \notin IdleAt,
           \A y : y.pc = next.pc /\ y.fit = next.fit /\ y.todo = next.todo /\ Newest(y.mine, new, tx[t].mine) =>
                    Stands(db, y, job[t])
    PROVE  Goes(t)
<1>1. DOMAIN new \subseteq Rows
  BY DEF Fair
<1>2. PICK y : y = Wrote(t, new, next)
  OBVIOUS
<1>3. /\ Went(t, y) /\ IsTx(y) /\ Newest(y.mine, new, tx[t].mine)
      /\ y.pc = next.pc /\ y.todo = next.todo /\ y.fit = next.fit /\ y.seen = next.seen
  BY <1>1, <1>2, ChangeIs
<1>4. \A r \in DOMAIN y.mine : Fair(db, r, y.mine[r], job[t])
  BY <1>3, About DEF Newest, Knows
<1>5. Stands(db, y, job[t])
  BY <1>3
<1>6. Knows(db, y, job[t])
  BY <1>3, <1>4, <1>5 DEF Knows, Idle, IdleAt
<1> QED
  BY <1>3, <1>6, WentKeeps

\* The usual cases: several rows, or one, and nothing asked of who goes on.
LEMMA ChangesKeep ==
    ASSUME DInv, NEW t \in Requests, NEW new, NEW pc, Change(t, new, To(t, pc)),
           \A r \in DOMAIN new : Fair(db, r, new[r], job[t]), pc \notin IdleAt, Easy(pc, job[t])
    PROVE  Goes(t)
<1>1. PICK next : next = To(t, pc) /\ next.pc = pc /\ next.mine = tx[t].mine /\ IsTx(next)
  BY ToIs
<1>2. \A y : y.pc = next.pc => Stands(db, y, job[t])
  BY <1>1, EasyStands
<1> QED
  BY <1>1, <1>2, ChangeKeeps

LEMMA ChangeToKeeps ==
    ASSUME DInv, NEW t \in Requests, NEW r, NEW v, NEW pc, Change(t, Version(r, v), To(t, pc)),
           Fair(db, r, v, job[t]), pc \notin IdleAt, Easy(pc, job[t])
    PROVE  Goes(t)
<1>1. PICK new : new = Version(r, v) /\ DOMAIN new = {r} /\ new[r] = v
  BY OneVersion
<1>2. \A s \in DOMAIN new : Fair(db, s, new[s], job[t])
  BY <1>1
<1> QED
  BY <1>1, <1>2, ChangesKeep

\* The same, with something asked of who goes on.
LEMMA ChangeOnKeeps ==
    ASSUME DInv, NEW t \in Requests, NEW r, NEW v, NEW next, Change(t, Version(r, v), next), next.mine = tx[t].mine, IsTx(next),
           Fair(db, r, v, job[t]), next.pc \notin IdleAt,
           \A y : /\ y.pc = next.pc /\ y.fit = next.fit /\ y.todo = next.todo
                  /\ DOMAIN y.mine = DOMAIN tx[t].mine \cup {r} /\ y.mine[r] = v
                  /\ \A s \in DOMAIN tx[t].mine : s # r => y.mine[s] = tx[t].mine[s]
                  => Stands(db, y, job[t])
    PROVE  Goes(t)
<1>1. PICK new : new = Version(r, v) /\ DOMAIN new = {r} /\ new[r] = v
  BY OneVersion
<1>2. \A s \in DOMAIN new : Fair(db, s, new[s], job[t])
  BY <1>1
<1>3. ASSUME NEW y, y.pc = next.pc, y.fit = next.fit, y.todo = next.todo, Newest(y.mine, new, tx[t].mine)
      PROVE  Stands(db, y, job[t])
  <2>1. /\ DOMAIN y.mine = DOMAIN tx[t].mine \cup {r} /\ y.mine[r] = v
        /\ \A s \in DOMAIN tx[t].mine : s # r => y.mine[s] = tx[t].mine[s]
    BY <1>1, <1>3 DEF Newest
  <2> QED
    BY <1>3, <2>1
<1>4. Change(t, new, next)
  BY <1>1
<1> QED
  BY <1>2, <1>3, <1>4, ChangeKeeps

-----------------------------------------------------------------------------
(* Updates, table by table *)

\* An order that goes its way may do so at anybody's hands.
LEMMA OrderFollows ==
    ASSUME NEW rows, NEW j, NEW o \in Orders, NEW old, Fair(rows, o, old, j), NEW v, HasColumns(v, OrderColumns), Follows(old, v)
    PROVE  Fair(rows, o, v, j)
<1>1. OrderMoves(rows[o], old, j, o) /\ o \in Rows /\ old.booking \in PreOrders \cup {NoOrder}
  BY DEF Fair, Fits, Moves
<1>2. OrderMoves(rows[o], v, j, o)
  BY <1>1 DEF OrderMoves, Follows
<1>3. v.booking \in PreOrders \cup {NoOrder}
  BY <1>1 DEF Follows
<1>4. Fits(o, v) /\ Moves(o, rows[o], v, j)
  BY <1>1, <1>2, <1>3, TablesDiffer, RowsAre DEF Fits, Moves
<1> QED
  BY <1>1, <1>4 DEF Fair

\* An UPDATE of its status does.
LEMMA OrderUpdate ==
    ASSUME NEW rows, NEW j, NEW o \in Orders, NEW old, Fair(rows, o, old, j), NEW new,
           DOMAIN new \subseteq {"is", "held", "paid"}, "is" \in DOMAIN new,
           old.is \notin {"None", "Delivered"}, new.is \notin {"None", "Pending", "Draft"},
           "paid" \in DOMAIN new <=> new.is = "Delivered", new.is = "Delivered" => new.paid = old.total
    PROVE  Fair(rows, o, Updated(old, new), j) /\ Follows(old, Updated(old, new))
<1>1. PICK v : v = Updated(old, new)
  OBVIOUS
<1>2. HasColumns(old, OrderColumns)
  BY DEF Fair, Fits
<1>3. /\ HasColumns(v, OrderColumns)
      /\ \A c \in DOMAIN new : c # "version" => v[c] = new[c]
      /\ \A c \in OrderColumns : c \notin DOMAIN new /\ c # "version" => v[c] = old[c]
  BY <1>1, <1>2, UpdatedColumns DEF OrderColumns
<1>4. /\ v.number = old.number /\ v.customer = old.customer /\ v.units = old.units /\ v.total = old.total
      /\ v.booking = old.booking /\ v.is = new.is
      /\ v.paid = IF new.is = "Delivered" THEN old.total ELSE old.paid
  BY <1>3 DEF OrderColumns
<1>5. Follows(old, v)
  BY <1>4 DEF Follows
<1> QED
  BY <1>1, <1>3, <1>5, OrderFollows

\* So does what is done to its holds.
LEMMA OrderHold ==
    ASSUME NEW rows, NEW j, NEW o \in Orders, NEW old, Fair(rows, o, old, j), NEW held
    PROVE  Fair(rows, o, [old EXCEPT !.held = held], j) /\ Follows(old, [old EXCEPT !.held = held])
<1>1. PICK v : v = [old EXCEPT !.held = held]
  OBVIOUS
<1>2. HasColumns(old, OrderColumns)
  BY DEF Fair, Fits
<1>3. /\ HasColumns(v, OrderColumns) /\ v.number = old.number /\ v.booking = old.booking /\ v.is = old.is
      /\ v.customer = old.customer /\ v.units = old.units /\ v.total = old.total /\ v.paid = old.paid
  BY <1>1, <1>2 DEF HasColumns, OrderColumns
<1>4. Follows(old, v)
  BY <1>3 DEF Follows
<1> QED
  BY <1>1, <1>3, <1>4, OrderFollows

\* An UPDATE of a gift that exists leaves it with its order and its line.
LEMMA GiftUpdate ==
    ASSUME NEW rows, NEW j, NEW g \in Gifts, NEW old, Fair(rows, g, old, j), NEW new, DOMAIN new \subseteq {"is"},
           "is" \in DOMAIN new => old.is # "None" /\ new.is # "None" /\ MayBecome(old, new.is, j, g)
    PROVE  Fair(rows, g, Updated(old, new), j)
<1>1. PICK v : v = Updated(old, new)
  OBVIOUS
<1>2. HasColumns(old, GiftColumns) /\ GiftMoves(rows[g], old, j, g) /\ g \in Rows /\ old.line \in Lines \cup {NoLine}
      /\ old.order \in Orders \cup {NoOrder}
  BY DEF Fair, Fits, Moves
<1>3. /\ HasColumns(v, GiftColumns)
      /\ \A c \in DOMAIN new : c # "version" => v[c] = new[c]
      /\ \A c \in GiftColumns : c \notin DOMAIN new /\ c # "version" => v[c] = old[c]
  BY <1>1, <1>2, UpdatedColumns DEF GiftColumns
<1>4. /\ v.line = old.line /\ v.order = old.order
      /\ v.is = old.is \/ (old.is # "None" /\ v.is # "None" /\ MayBecome(old, v.is, j, g))
  BY <1>3 DEF GiftColumns
<1>5. GiftMoves(rows[g], v, j, g)
  BY <1>2, <1>4 DEF GiftMoves, MayBecome
<1>6. Fits(g, v) /\ Moves(g, rows[g], v, j)
  BY <1>2, <1>3, <1>4, <1>5, TablesDiffer, RowsAre DEF Fits, Moves
<1> QED
  BY <1>1, <1>2, <1>6 DEF Fair

LEMMA GiftHold ==
    ASSUME NEW rows, NEW j, NEW g \in Gifts, NEW old, Fair(rows, g, old, j), NEW hold
    PROVE  Fair(rows, g, [old EXCEPT !.hold = hold], j)
<1>1. PICK v : v = [old EXCEPT !.hold = hold]
  OBVIOUS
<1>2. HasColumns(old, GiftColumns) /\ GiftMoves(rows[g], old, j, g) /\ g \in Rows /\ old.line \in Lines \cup {NoLine}
      /\ old.order \in Orders \cup {NoOrder}
  BY DEF Fair, Fits, Moves
<1>3. HasColumns(v, GiftColumns) /\ v.line = old.line /\ v.order = old.order /\ v.is = old.is
  BY <1>1, <1>2 DEF HasColumns, GiftColumns
<1>4. GiftMoves(rows[g], v, j, g)
  BY <1>2, <1>3 DEF GiftMoves, MayBecome
<1>5. Fits(g, v) /\ Moves(g, rows[g], v, j)
  BY <1>2, <1>3, <1>4, TablesDiffer, RowsAre DEF Fits, Moves
<1> QED
  BY <1>1, <1>2, <1>5 DEF Fair

\* A booking that became an order is never changed.
LEMMA BookingUpdate ==
    ASSUME NEW rows, NEW j, NEW b \in PreOrders, NEW old, Fair(rows, b, old, j), NEW new,
           DOMAIN new \subseteq BookingColumns \ {"version"}, old.is # "Converted",
           "is" \in DOMAIN new => new.is # "Converted" \/ (j.do = "place" /\ b = j.to.booking)
    PROVE  Fair(rows, b, Updated(old, new), j)
<1>1. PICK v : v = Updated(old, new)
  OBVIOUS
<1>2. HasColumns(old, BookingColumns) /\ BookingMoves(rows[b], old, j, b) /\ b \in Rows
  BY DEF Fair, Fits, Moves
<1>3. /\ HasColumns(v, BookingColumns)
      /\ \A c \in DOMAIN new : c # "version" => v[c] = new[c]
      /\ \A c \in BookingColumns : c \notin DOMAIN new /\ c # "version" => v[c] = old[c]
  BY <1>1, <1>2, UpdatedColumns
<1>4. v.is = old.is \/ v.is # "Converted" \/ (j.do = "place" /\ b = j.to.booking)
  BY <1>3 DEF BookingColumns
<1>5. BookingMoves(rows[b], v, j, b)
  BY <1>2, <1>4 DEF BookingMoves
<1>6. Fits(b, v) /\ Moves(b, rows[b], v, j)
  BY <1>2, <1>3, <1>5, TablesDiffer, RowsAre DEF Fits, Moves
<1> QED
  BY <1>1, <1>2, <1>6 DEF Fair

\* Only flag_customer flags a customer.
LEMMA CustomerUpdate ==
    ASSUME NEW rows, NEW j, NEW c \in Customers, NEW old, Fair(rows, c, old, j), NEW new,
           DOMAIN new \subseteq {"phone", "flag", "filled"},
           "phone" \in DOMAIN new => new.phone \in Phones,
           "flag" \in DOMAIN new => j.do = "flag" /\ c = j.row
    PROVE  Fair(rows, c, Updated(old, new), j)
<1>1. PICK v : v = Updated(old, new)
  OBVIOUS
<1>2. HasColumns(old, CustomerColumns) /\ CustomerMoves(rows[c], old, j, c) /\ c \in Rows /\ old.phone \in Phones
  BY DEF Fair, Fits, Moves
<1>3. /\ HasColumns(v, CustomerColumns)
      /\ \A k \in DOMAIN new : k # "version" => v[k] = new[k]
      /\ \A k \in CustomerColumns : k \notin DOMAIN new /\ k # "version" => v[k] = old[k]
  BY <1>1, <1>2, UpdatedColumns DEF CustomerColumns
<1>4. v.is = old.is /\ v.phone \in Phones /\ (v.flag = old.flag \/ (j.do = "flag" /\ c = j.row))
  BY <1>2, <1>3 DEF CustomerColumns
<1>5. CustomerMoves(rows[c], v, j, c)
  BY <1>2, <1>4 DEF CustomerMoves, Makes, Sells
<1>6. Fits(c, v) /\ Moves(c, rows[c], v, j)
  BY <1>2, <1>3, <1>4, <1>5, TablesDiffer, RowsAre DEF Fits, Moves
<1> QED
  BY <1>1, <1>2, <1>6 DEF Fair

\* An address stays its customer's.
LEMMA AddressUpdate ==
    ASSUME NEW rows, NEW j, NEW a \in Addresses, NEW old, Fair(rows, a, old, j), NEW new,
           DOMAIN new \subseteq {"is", "default", "label"},
           "is" \in DOMAIN new => old.is # "None" /\ new.is # "None"
    PROVE  Fair(rows, a, Updated(old, new), j)
<1>1. PICK v : v = Updated(old, new)
  OBVIOUS
<1>2. HasColumns(old, AddressColumns) /\ AddressMoves(rows[a], old, j, a) /\ a \in Rows /\ old.of \in Customers
  BY DEF Fair, Fits, Moves
<1>3. /\ HasColumns(v, AddressColumns)
      /\ \A c \in DOMAIN new : c # "version" => v[c] = new[c]
      /\ \A c \in AddressColumns : c \notin DOMAIN new /\ c # "version" => v[c] = old[c]
  BY <1>1, <1>2, UpdatedColumns DEF AddressColumns
<1>4. v.of = old.of /\ (v.is = old.is \/ (old.is # "None" /\ v.is # "None"))
  BY <1>3 DEF AddressColumns
<1>5. AddressMoves(rows[a], v, j, a)
  BY <1>2, <1>4 DEF AddressMoves
<1>6. Fits(a, v) /\ Moves(a, rows[a], v, j)
  BY <1>2, <1>3, <1>4, <1>5, TablesDiffer, RowsAre DEF Fits, Moves
<1> QED
  BY <1>1, <1>2, <1>6 DEF Fair

\* A campaign's own row, a partner, a phone, the batch and the desk: nothing but their columns is asked.
LEMMA CampaignUpdate ==
    ASSUME NEW rows, NEW j, NEW k \in Campaigns_, NEW old, Fair(rows, k, old, j), NEW new,
           DOMAIN new \subseteq {"is", "by", "label"}
    PROVE  Fair(rows, k, Updated(old, new), j)
<1>1. PICK v, C : v = Updated(old, new) /\ C = {"is", "by", "label", "version"}
  OBVIOUS
<1>2. HasColumns(old, C) /\ k \in Rows
  BY <1>1 DEF Fair, Fits
<1>3. HasColumns(v, C)
  BY <1>1, <1>2, UpdatedColumns
<1>4. Fits(k, v) /\ Moves(k, rows[k], v, j)
  BY <1>1, <1>3, TablesDiffer, RowsAre DEF Fits, Moves
<1> QED
  BY <1>1, <1>2, <1>4 DEF Fair

LEMMA FreeFair ==
    ASSUME NEW rows, NEW j, NEW r \in Partners \cup {TheBatch, InvoiceDesk}, NEW v
    PROVE  Fair(rows, r, v, j)
BY TablesDiffer, RowsAre DEF Fair, Fits, Moves

LEMMA PhoneFair ==
    ASSUME NEW rows, NEW j, NEW p \in Phones, NEW v \in Customers \cup {Nobody}
    PROVE  Fair(rows, p, v, j)
BY TablesDiffer, RowsAre DEF Fair, Fits, Moves

\* Versions every one of which the request may write.
AllFair(rows, new, j) == \A r \in DOMAIN new : Fair(rows, r, new[r], j)

LEMMA OneFair == ASSUME NEW rows, NEW j, NEW r, NEW v, Fair(rows, r, v, j) PROVE AllFair(rows, Version(r, v), j)
<1>1. PICK new : new = Version(r, v) /\ DOMAIN new = {r} /\ new[r] = v
  BY OneVersion
<1>2. AllFair(rows, new, j)
  BY <1>1 DEF AllFair
<1> QED
  BY <1>1, <1>2

LEMMA BothFair ==
    ASSUME NEW rows, NEW j, NEW f, NEW g, AllFair(rows, f, j), AllFair(rows, g, j)
    PROVE  AllFair(rows, f ++ g, j)
<1>1. PICK h : h = f ++ g /\ Newest(h, f, g)
  BY NewestCounts
<1>2. AllFair(rows, h, j)
  BY <1>1 DEF Newest, AllFair
<1> QED
  BY <1>1, <1>2

\* A step that writes such versions, and goes on with something asked of who does, or nothing.
LEMMA WriteKeeps ==
    ASSUME DInv, NEW t \in Requests, NEW new, NEW next, Change(t, new, next), next.mine = tx[t].mine, IsTx(next),
           AllFair(db, new, job[t]), next.pc \notin IdleAt,
           \A y : y.pc = next.pc /\ y.fit = next.fit /\ y.todo = next.todo => Stands(db, y, job[t])
    PROVE  Goes(t)
BY ChangeKeeps DEF AllFair

LEMMA WriteToKeeps ==
    ASSUME DInv, NEW t \in Requests, NEW new, NEW pc, Change(t, new, To(t, pc)), AllFair(db, new, job[t]),
           pc \notin IdleAt, Easy(pc, job[t])
    PROVE  Goes(t)
BY ChangesKeep DEF AllFair

\* A customer is known to whoever goes on to sell, book or write an address.
WithCustomer == {"customer", "address", "step down", "in front", "beside", "header", "book"}

LEMMA FitStands ==
    ASSUME NEW rows, NEW x, NEW j, x.pc \in WithCustomer, x.fit \in Customers, ~Arranges(j),
           x.pc \notin {"customer", "header", "book"} => j.to.address \in Addresses
    PROVE  Stands(rows, x, j)
BY DEF WithCustomer, Stands

LEMMA LookFitKeeps ==
    ASSUME DInv, NEW t \in Requests, NEW pc \in WithCustomer, Look(t, To(t, pc)), tx[t].fit \in Customers, ~Arranges(job[t]),
           pc \notin {"customer", "header", "book"} => job[t].to.address \in Addresses
    PROVE  Goes(t)
<1>1. PICK next : next = To(t, pc) /\ next.pc = pc /\ next.mine = tx[t].mine /\ next.fit = tx[t].fit /\ IsTx(next)
  BY ToIs
<1>2. Stands(db, next, job[t])
  BY <1>1, FitStands
<1>3. pc \notin IdleAt
  BY DEF WithCustomer, IdleAt
<1> QED
  BY <1>1, <1>2, <1>3, LookKeeps

LEMMA WriteFitKeeps ==
    ASSUME DInv, NEW t \in Requests, NEW new, NEW pc \in WithCustomer, Change(t, new, To(t, pc)), AllFair(db, new, job[t]),
           tx[t].fit \in Customers, ~Arranges(job[t]),
           pc \notin {"customer", "header", "book"} => job[t].to.address \in Addresses
    PROVE  Goes(t)
<1>1. PICK next : next = To(t, pc) /\ next.pc = pc /\ next.mine = tx[t].mine /\ next.fit = tx[t].fit /\ IsTx(next)
  BY ToIs
<1>2. \A y : y.pc = next.pc /\ y.fit = next.fit => Stands(db, y, job[t])
  BY <1>1, FitStands
<1>3. pc \notin IdleAt
  BY DEF WithCustomer, IdleAt
<1> QED
  BY <1>1, <1>2, <1>3, WriteKeeps

LEMMA WriteForKeeps ==
    ASSUME DInv, NEW t \in Requests, NEW new, NEW c \in Customers, NEW pc, pc \in WithCustomer \/ Easy(pc, job[t]),
           pc \notin IdleAt, Change(t, new, For(t, c, pc)), AllFair(db, new, job[t]), ~Arranges(job[t]),
           pc \in WithCustomer \ {"customer", "header", "book"} => job[t].to.address \in Addresses
    PROVE  Goes(t)
<1>1. PICK next : next = For(t, c, pc) /\ next.pc = pc /\ next.mine = tx[t].mine /\ next.fit = c /\ IsTx(next)
  BY ForIs
<1>2. \A y : y.pc = next.pc /\ y.fit = next.fit => Stands(db, y, job[t])
  BY <1>1, FitStands, EasyStands
<1> QED
  BY <1>1, <1>2, WriteKeeps

-----------------------------------------------------------------------------
(* Forms and customers *)

LEMMA FormStepKeeps ==
    ASSUME DInv, NEW t \in Requests, FormStep(t)
    PROVE  Goes(t)
<1>0. /\ IsTx(tx[t]) /\ (Idle(tx[t]) => DOMAIN tx[t].mine = {})
      /\ Do(t) \in {"save", "pay"} => Row(t) \in Rows
      /\ tx[t].pc = "save" => Row(t) \in Rows /\ Do(t) \in {"save", "pay"}
  BY About DEF Knows, Form, Do, Row, Stands
<1>1. CASE OpenForm(t)
  <2>1. PICK x, next : x = To(t, "save") /\ next = [x EXCEPT !.seen = db[Row(t)].version]
    OBVIOUS
  <2>2. x.pc = "save" /\ x.mine = tx[t].mine /\ IsTx(x)
    BY <2>1, ToIs
  <2>3. next.pc = "save" /\ next.mine = tx[t].mine /\ IsTx(next)
    BY <2>1, <2>2, WithSeen
  <2>4. Look(t, next) /\ Idle(tx[t])
    BY <1>1, <2>1 DEF OpenForm, At, Idle
  <2>5. Stands(db, next, job[t])
    BY <1>0, <1>1, <2>3, <2>4 DEF Stands, OpenForm, Row, Do
  <2> QED
    BY <2>3, <2>4, <2>5, LookKeeps
<1>2. CASE LockForm(t)
  <2>1. PICK next : next = To(t, "check") /\ next.pc = "check" /\ next.mine = tx[t].mine /\ IsTx(next)
    BY ToIs
  <2>2. tx[t].pc = "save" /\ DOMAIN tx[t].mine = {} /\ Change(t, Version(Row(t), db[Row(t)]), next)
    BY <1>0, <1>2, <2>1 DEF LockForm, At, Idle
  <2>3. Row(t) \in Rows /\ Fair(db, Row(t), db[Row(t)], job[t])
    BY <1>0, <2>2, About, StaysFair
  <2>4. \A y : y.pc = "check" /\ DOMAIN y.mine = DOMAIN tx[t].mine \cup {Row(t)} => Stands(db, y, job[t])
    BY <1>0, <2>2, TablesDiffer, RowsAre DEF Stands, Arranges, Row, Do
  <2>5. next.pc \notin IdleAt
    BY <2>1 DEF IdleAt
  <2> QED
    BY <2>1, <2>2, <2>3, <2>4, <2>5, ChangeOnKeeps
<1>3. CASE RefuseStale(t)
  BY <1>3, RefuseKeeps DEF RefuseStale
<1> QED
  BY <1>1, <1>2, <1>3 DEF FormStep

\* A request that looks up its buyer by phone, and may add one.
Seeks(j) ==
    /\ j.to.phone \in Phones /\ j.to.new \in Customers \cup {Nobody}
    /\ j.do \in {"register", "book"} \/ (j.do = "save" /\ j.row \in PreOrders) \/ Sells(j)

Rebooks(j) == j.do = "save" /\ j.row \in PreOrders

LEMMA SeeksIs == ASSUME NEW j, Seeks(j) PROVE Makes(j, j.to.new) /\ ~Arranges(j)
BY TablesDiffer, RowsAre DEF Seeks, Makes, Arranges, Sells

LEMMA PhoneLeads == ASSUME DInv, NEW t \in Requests, NEW p \in Phones PROVE View(t, p) \in Customers \cup {Nobody}
BY SeenFair, RowsAre DEF Fair, Fits

LEMMA RegisterFair ==
    ASSUME DInv, NEW t \in Requests, NEW p \in Phones, NEW c \in Customers, Makes(job[t], c)
    PROVE  AllFair(db, Version(p, c) ++ Version(c, NewCustomer(p)), job[t])
<1>1. PICK v : v = NewCustomer(p)
  OBVIOUS
<1>2. HasColumns(v, CustomerColumns) /\ v.phone = p /\ v.is # "None" /\ v.flag = "None"
  BY <1>1 DEF NewCustomer, HasColumns, CustomerColumns
<1>3. Fits(c, v) /\ Moves(c, db[c], v, job[t])
  BY <1>2, TablesDiffer, RowsAre DEF Fits, Moves, CustomerMoves
<1>4. Fair(db, c, v, job[t])
  BY <1>3, RowsAre DEF Fair
<1>5. Fair(db, p, c, job[t])
  BY PhoneFair
<1> QED
  BY <1>1, <1>4, <1>5, OneFair, BothFair

LEMMA FinderStands ==
    ASSUME NEW rows, NEW x, NEW j, ~Arranges(j), j.to.phone \in Phones,
           x.pc \in {"register", "find again", "customer", "sale", "book", "rebook"},
           x.pc \in {"customer", "book", "rebook"} => x.fit \in Customers,
           x.pc = "register" => j.to.new \in Customers,
           Rebooks(j) => j.row \in DOMAIN x.mine /\ x.mine[j.row].is \in OPEN_STATUSES
    PROVE  Stands(rows, x, j)
BY DEF Stands, Rebooks

\* Whoever is found, or added, is a customer.
LEMMA FinderKeeps ==
    ASSUME DInv, NEW t \in Requests, NEW from \in {"begin", "find"}, NEW next \in {"customer", "sale", "book", "rebook"},
           Seeks(job[t]), Rebooks(job[t]) => from = "find",
           find_or_create_customer(t, from, next)
    PROVE  Goes(t)
<1> DEFINE has == View(t, Sent(t).phone)
<1>1. /\ has \in Customers \cup {Nobody} /\ Sent(t) = job[t].to /\ Sent(t).phone \in Phones
      /\ Sent(t).new \in Customers \cup {Nobody} /\ Makes(job[t], Sent(t).new) /\ ~Arranges(job[t])
  BY PhoneLeads, SeeksIs DEF Seeks, Sent
<1>2. /\ tx[t].pc = "register" => Sent(t).new \in Customers
      /\ Rebooks(job[t]) /\ tx[t].pc \in {from, "register", "find again"} =>
            job[t].row \in DOMAIN tx[t].mine /\ tx[t].mine[job[t].row].is \in OPEN_STATUSES
  BY <1>1, About DEF Knows, Stands, Rebooks
<1>3. ASSUME has # Nobody, Look(t, For(t, has, next)), tx[t].pc \in {from, "find again"}
      PROVE  Goes(t)
  <2>1. PICK x : x = For(t, has, next) /\ x.pc = next /\ x.mine = tx[t].mine /\ x.fit = has /\ IsTx(x)
    BY ForIs
  <2>2. has \in Customers
    BY <1>1, <1>3
  <2>3. Stands(db, x, job[t])
    BY <1>1, <1>2, <1>3, <2>1, <2>2, FinderStands
  <2> QED
    BY <1>3, <2>1, <2>3, LookKeeps DEF IdleAt
<1>4. ASSUME NEW pc \in {"register", "find again"}, Look(t, To(t, pc)), pc = "register" => Sent(t).new # Nobody,
             tx[t].pc \in {from, "register"}
      PROVE  Goes(t)
  <2>1. PICK x : x = To(t, pc) /\ x.pc = pc /\ x.mine = tx[t].mine /\ IsTx(x)
    BY ToIs
  <2>2. Stands(db, x, job[t])
    BY <1>1, <1>2, <1>4, <2>1, FinderStands
  <2> QED
    BY <1>4, <2>1, <2>2, LookKeeps DEF IdleAt
<1>5. ASSUME Register(t, next), tx[t].pc = "register"
      PROVE  Goes(t)
  <2>1. PICK new, c : new = Version(Sent(t).phone, Sent(t).new) ++ Version(Sent(t).new, NewCustomer(Sent(t).phone)) /\ c = Sent(t).new
    OBVIOUS
  <2>2. PICK x : x = For(t, c, next) /\ x.pc = next /\ x.mine = tx[t].mine /\ x.fit = c /\ IsTx(x)
    BY ForIs
  <2>3. Change(t, new, x) /\ c \in Customers
    BY <1>2, <1>5, <2>1, <2>2 DEF Register
  <2>4. \A r \in DOMAIN new : Fair(db, r, new[r], job[t])
    BY <1>1, <2>1, <2>3, RegisterFair DEF AllFair
  <2>5. DOMAIN new = {Sent(t).phone, c}
    <3>1. PICK f, g : f = Version(Sent(t).phone, Sent(t).new) /\ g = Version(Sent(t).new, NewCustomer(Sent(t).phone))
      OBVIOUS
    <3>2. DOMAIN f = {Sent(t).phone} /\ DOMAIN g = {c} /\ Newest(new, f, g)
      BY <2>1, <3>1, OneVersion, NewestCounts
    <3> QED
      BY <3>2 DEF Newest
  <2>6. ASSUME NEW y, y.pc = x.pc, y.fit = x.fit, y.todo = x.todo, Newest(y.mine, new, tx[t].mine)
        PROVE  Stands(db, y, job[t])
    <3>1. Rebooks(job[t]) => job[t].row \notin DOMAIN new
      BY <1>1, <2>3, <2>5, TablesDiffer DEF Rebooks
    <3>2. Rebooks(job[t]) => job[t].row \in DOMAIN y.mine /\ y.mine[job[t].row].is \in OPEN_STATUSES
      BY <1>2, <1>5, <2>6, <3>1 DEF Newest
    <3> QED
      BY <1>1, <2>2, <2>3, <2>6, <3>2, FinderStands
  <2>7. x.pc \notin IdleAt
    BY <2>2 DEF IdleAt
  <2> QED
    BY <2>2, <2>3, <2>4, <2>6, <2>7, ChangeKeeps
<1>6. CASE /\ At(t, from)
           /\ IF has # Nobody THEN Look(t, For(t, has, next))
              ELSE IF Sent(t).new = Nobody THEN Refuse(t) ELSE Look(t, To(t, "register"))
  BY <1>3, <1>4, <1>6, RefuseKeeps DEF At
<1>7. CASE At(t, "register") /\ PhoneFree(t) /\ Register(t, next)
  BY <1>5, <1>7 DEF At
<1>8. CASE At(t, "register") /\ PhoneTaken(t) /\ Look(t, To(t, "find again"))
  BY <1>4, <1>8 DEF At
<1>9. CASE At(t, "find again") /\ IF has # Nobody THEN Look(t, For(t, has, next)) ELSE Refuse(t)
  BY <1>3, <1>9, RefuseKeeps DEF At
<1> QED
  BY <1>6, <1>7, <1>8, <1>9 DEF find_or_create_customer

\* An address is added by whoever asked for it, and another one steps down for it.
AddressAt == {"address", "step down", "in front", "beside"}

LEMMA StepsDownFair ==
    ASSUME DInv, NEW t \in Requests, NEW A, A \subseteq Addresses
    PROVE  AllFair(db, StepsDown(t, A), job[t])
<1>1. PICK d : d = [default |-> FALSE]
  OBVIOUS
<1>0. DOMAIN d = {"default"}
  BY <1>1
<1>2. ASSUME NEW a \in A
      PROVE  Fair(db, a, Updated(View(t, a), d), job[t])
  <2>1. Fair(db, a, View(t, a), job[t])
    BY SeenFair, RowsAre
  <2> QED
    BY <1>0, <2>1, AddressUpdate
<1>3. StepsDown(t, A) = [a \in A |-> Updated(View(t, a), d)]
  BY <1>1 DEF StepsDown
<1> QED
  BY <1>2, <1>3 DEF AllFair

LEMMA InsertAddressKeeps ==
    ASSUME DInv, NEW t \in Requests, NEW next \in {"commit", "header"}, ~Arranges(job[t]),
           job[t].do \in {"register", "address"} \/ Sells(job[t]), insert_address(t, next)
    PROVE  Goes(t)
<1>1. tx[t].pc \in AddressAt => tx[t].fit \in Customers /\ job[t].to.address \in Addresses
  BY About DEF Knows, Stands, AddressAt
<1>2. "commit" \notin IdleAt /\ Easy("commit", job[t])
  BY DEF IdleAt, Easy
<1>3. CASE /\ At(t, "address")
           /\ Look(t, To(t, IF Sent(t).default \/ Defaults(t, Customer(t)) = {} THEN "step down" ELSE "beside"))
  <2>1. PICK pc : pc \in {"step down", "beside"} /\ Look(t, To(t, pc))
    BY <1>3
  <2> QED
    BY <1>1, <1>3, <2>1, LookFitKeeps DEF WithCustomer, At, AddressAt
<1>4. CASE At(t, "step down") /\ Change(t, StepsDown(t, Defaults(t, Customer(t))), To(t, "in front"))
  <2>1. PICK new : new = StepsDown(t, Defaults(t, Customer(t))) /\ Change(t, new, To(t, "in front"))
    BY <1>4
  <2>2. AllFair(db, new, job[t])
    BY <2>1, StepsDownFair DEF Defaults, Saved
  <2> QED
    BY <1>1, <1>4, <2>1, <2>2, WriteFitKeeps DEF WithCustomer, At, AddressAt
<1>5. ASSUME NEW pc \in AddressAt, At(t, pc), NEW default, NEW at,
             Change(t, Version(Sent(t).address, [is |-> "Active", of |-> Customer(t), default |-> default, label |-> 0,
                                                 at |-> at, version |-> 1]), To(t, next))
      PROVE  Goes(t)
  <2>1. PICK v : v = [is |-> "Active", of |-> Customer(t), default |-> default, label |-> 0, at |-> at, version |-> 1]
    OBVIOUS
  <2>2. Sent(t).address \in Addresses /\ Customer(t) \in Customers /\ Adds(job[t], Sent(t).address) /\ Sent(t) = job[t].to
    BY <1>1, <1>5 DEF At, Sent, Customer, Adds
  <2>3. HasColumns(v, AddressColumns) /\ v.of \in Customers
    BY <2>1, <2>2 DEF HasColumns, AddressColumns
  <2>4. Fits(Sent(t).address, v) /\ Moves(Sent(t).address, db[Sent(t).address], v, job[t])
    BY <2>2, <2>3, TablesDiffer, RowsAre DEF Fits, Moves, AddressMoves
  <2>5. Fair(db, Sent(t).address, v, job[t])
    BY <2>2, <2>4, RowsAre DEF Fair
  <2>6. PICK new : new = Version(Sent(t).address, v) /\ AllFair(db, new, job[t]) /\ Change(t, new, To(t, next))
    BY <1>5, <2>1, <2>5, OneFair
  <2> QED
    BY <1>1, <1>2, <1>5, <2>6, WriteFitKeeps, WriteToKeeps DEF WithCustomer, At, AddressAt
<1> QED
  BY <1>3, <1>4, <1>5, RefuseKeeps DEF insert_address, AddressAt

LEMMA CreateCustomerKeeps ==
    ASSUME DInv, NEW t \in Requests, create_customer(t)
    PROVE  Goes(t)
<1>1. /\ job[t].do = "register" /\ ~Arranges(job[t]) /\ Sent(t) = job[t].to
      /\ Sent(t).phone \in Phones /\ Sent(t).new \in Customers /\ Sent(t).address \in Addresses \cup {Nobody}
  BY About DEF create_customer, Do, Form, Arranges, Sent
<1>2. CASE At(t, "begin") /\ PhoneFree(t) /\ Register(t, IF Sent(t).address = Nobody THEN "commit" ELSE "address")
  <2>1. PICK pc, new : /\ pc = IF Sent(t).address = Nobody THEN "commit" ELSE "address"
                       /\ new = Version(Sent(t).phone, Sent(t).new) ++ Version(Sent(t).new, NewCustomer(Sent(t).phone))
    OBVIOUS
  <2>2. Change(t, new, For(t, Sent(t).new, pc))
    BY <1>2, <2>1 DEF Register
  <2>3. AllFair(db, new, job[t])
    BY <1>1, <2>1, RegisterFair DEF Makes
  <2>4. pc \in WithCustomer \/ Easy(pc, job[t])
    BY <1>1, <2>1 DEF WithCustomer, Easy
  <2>5. pc \in WithCustomer \ {"customer", "header", "book"} => job[t].to.address \in Addresses
    BY <1>1, <2>1 DEF WithCustomer
  <2>6. pc \notin IdleAt
    BY <2>1 DEF IdleAt
  <2> QED
    BY <1>1, <2>2, <2>3, <2>4, <2>5, <2>6, WriteForKeeps
<1>3. CASE insert_address(t, "commit")
  BY <1>1, <1>3, InsertAddressKeeps
<1>4. CASE At(t, "begin") /\ PhoneTaken(t) /\ Refuse(t)
  BY <1>4, RefuseKeeps
<1> QED
  BY <1>2, <1>3, <1>4 DEF create_customer

\* The customer is locked before an address is.
LEMMA LockCustomerKeeps ==
    ASSUME DInv, NEW t \in Requests, NEW c \in Customers, NEW pc, pc = "address" \/ Easy(pc, job[t]), pc \notin IdleAt,
           pc = "address" => job[t].to.address \in Addresses, ~Arranges(job[t]), LockCustomer(t, c, pc)
    PROVE  Goes(t)
<1>1. Change(t, Version(c, View(t, c)), For(t, c, pc)) /\ Fair(db, c, View(t, c), job[t])
  BY SeenFair, RowsAre DEF LockCustomer
<1>2. PICK new : new = Version(c, View(t, c)) /\ AllFair(db, new, job[t])
  BY <1>1, OneFair
<1>3. pc \in WithCustomer \ {"customer", "header", "book"} => job[t].to.address \in Addresses
  BY DEF Easy, WithCustomer
<1> QED
  BY <1>1, <1>2, <1>3, WriteForKeeps DEF WithCustomer

LEMMA CreateAddressKeeps ==
    ASSUME DInv, NEW t \in Requests, create_customer_address(t)
    PROVE  Goes(t)
<1>1. job[t].do = "address" /\ ~Arranges(job[t]) /\ job[t].to.address \in Addresses /\ Row(t) \in Customers
  BY About DEF create_customer_address, Asks, Do, Form, Arranges
<1>2. CASE At(t, "begin") /\ LockCustomer(t, Row(t), "address")
  BY <1>1, <1>2, LockCustomerKeeps DEF IdleAt
<1>3. CASE insert_address(t, "commit")
  BY <1>1, <1>3, InsertAddressKeeps
<1> QED
  BY <1>2, <1>3 DEF create_customer_address

\* An address belongs to a customer, whoever looks.
LEMMA AddressIs ==
    ASSUME DInv, NEW t \in Requests, NEW a \in Addresses
    PROVE  Fair(db, a, View(t, a), job[t]) /\ View(t, a).of \in Customers
BY SeenFair, RowsAre DEF Fair, Fits

LEMMA RetireKeeps ==
    ASSUME DInv, NEW t \in Requests, retire_customer_address(t)
    PROVE  Goes(t)
<1>1. /\ job[t].do = "retire" /\ ~Arranges(job[t]) /\ Row(t) \in Addresses
      /\ Fair(db, Row(t), Own(t), job[t]) /\ Own(t).of \in Customers
  BY AddressIs DEF retire_customer_address, Asks, Do, Arranges, Own
<1>2. "commit" \notin IdleAt /\ Easy("commit", job[t]) /\ Easy("heir", job[t]) /\ Easy("retire", job[t])
  BY <1>1 DEF IdleAt, Easy
<1>3. CASE At(t, "begin") /\ LockCustomer(t, Own(t).of, "retire")
  BY <1>1, <1>2, <1>3, LockCustomerKeeps DEF IdleAt
<1>4. CASE /\ At(t, "retire") /\ Own(t).is = "Active"
           /\ Change(t, Version(Row(t), Updated(Own(t), [is |-> "Inactive", default |-> FALSE])),
                     To(t, IF Own(t).default THEN "heir" ELSE "commit"))
  <2>1. PICK d : d = [is |-> "Inactive", default |-> FALSE]
    OBVIOUS
  <2>2. DOMAIN d = {"is", "default"} /\ d.is = "Inactive"
    BY <2>1
  <2>3. Fair(db, Row(t), Updated(Own(t), d), job[t])
    BY <1>1, <1>4, <2>2, AddressUpdate
  <2>4. PICK new, pc : /\ new = Version(Row(t), Updated(Own(t), d)) /\ AllFair(db, new, job[t])
                       /\ pc \in {"heir", "commit"} /\ Change(t, new, To(t, pc))
    BY <1>4, <2>1, <2>3, OneFair
  <2> QED
    BY <1>2, <2>4, WriteToKeeps DEF IdleAt
<1>5. ASSUME NEW heir \in Heirs(t), Change(t, Version(heir, Updated(View(t, heir), [default |-> TRUE])), To(t, "commit"))
      PROVE  Goes(t)
  <2>1. PICK d : d = [default |-> TRUE]
    OBVIOUS
  <2>2. DOMAIN d = {"default"} /\ heir \in Addresses
    BY <1>5, <2>1 DEF Heirs, Saved
  <2>3. Fair(db, heir, View(t, heir), job[t])
    BY <2>2, AddressIs
  <2>4. Fair(db, heir, Updated(View(t, heir), d), job[t])
    BY <2>2, <2>3, AddressUpdate
  <2>5. PICK new : new = Version(heir, Updated(View(t, heir), d)) /\ AllFair(db, new, job[t]) /\ Change(t, new, To(t, "commit"))
    BY <1>5, <2>1, <2>4, OneFair
  <2> QED
    BY <1>2, <2>5, WriteToKeeps
<1>6. CASE Look(t, To(t, "commit"))
  BY <1>2, <1>6, LookToKeeps
<1> QED
  BY <1>3, <1>4, <1>5, <1>6, RefuseKeeps DEF retire_customer_address

LEMMA RedirectKeeps ==
    ASSUME DInv, NEW t \in Requests, update_customer_address(t)
    PROVE  Goes(t)
<1>1. /\ job[t].do = "redirect" /\ ~Arranges(job[t]) /\ Row(t) \in Addresses /\ Row(t) \in Rows
      /\ Fair(db, Row(t), Own(t), job[t]) /\ View(t, Row(t)).of \in Customers
  BY AddressIs, RowsAre DEF update_customer_address, Asks, Do, Arranges, Own
<1>2. \A pc \in {"commit", "step aside", "compare", "form", "write", "owner"} : Easy(pc, job[t]) /\ (pc \in IdleAt => pc = "owner")
  BY <1>1 DEF IdleAt, Easy
<1>3. CASE At(t, "begin") /\ Look(t, [To(t, "owner") EXCEPT !.seen = db[Row(t)].version])
  <2>1. PICK x, next : x = To(t, "owner") /\ next = [x EXCEPT !.seen = db[Row(t)].version]
    OBVIOUS
  <2>2. x.pc = "owner" /\ x.mine = tx[t].mine /\ IsTx(x)
    BY <2>1, ToIs
  <2>3. next.pc = "owner" /\ next.mine = tx[t].mine /\ IsTx(next)
    BY <2>1, <2>2, WithSeen
  <2>4. Look(t, next) /\ Idle(tx[t]) /\ Stands(db, next, job[t])
    BY <1>2, <1>3, <2>1, <2>3, EasyStands DEF At, Idle
  <2> QED
    BY <2>3, <2>4, LookKeeps
<1>4. CASE At(t, "owner") /\ LockCustomer(t, View(t, Row(t)).of, "form")
  BY <1>1, <1>2, <1>4, LockCustomerKeeps
<1>5. CASE At(t, "form") /\ db[Row(t)].version = tx[t].seen /\ Change(t, Version(Row(t), db[Row(t)]), To(t, "compare"))
  BY <1>1, <1>2, <1>5, About, StaysFair, ChangeToKeeps
<1>6. ASSUME NEW same, Look(t, To(t, IF same THEN "commit" ELSE "step aside"))
      PROVE  Goes(t)
  BY <1>2, <1>6, LookToKeeps
<1>7. ASSUME NEW default, Change(t, IF default THEN StepsDown(t, Defaults(t, View(t, Row(t)).of) \ {Row(t)}) ELSE << >>, To(t, "write"))
      PROVE  Goes(t)
  <2>1. PICK new : /\ new = IF default THEN StepsDown(t, Defaults(t, View(t, Row(t)).of) \ {Row(t)}) ELSE << >>
                   /\ Change(t, new, To(t, "write"))
    BY <1>7
  <2>2. AllFair(db, StepsDown(t, Defaults(t, View(t, Row(t)).of) \ {Row(t)}), job[t])
    BY StepsDownFair DEF Defaults, Saved
  <2>3. AllFair(db, << >>, job[t])
    BY DEF AllFair
  <2>4. AllFair(db, new, job[t])
    BY <2>1, <2>2, <2>3
  <2> QED
    BY <1>2, <2>1, <2>4, WriteToKeeps
<1>8. ASSUME NEW label, NEW default, Change(t, Version(Row(t), Updated(Own(t), [label |-> label, default |-> default])), To(t, "commit"))
      PROVE  Goes(t)
  <2>1. PICK d : d = [label |-> label, default |-> default]
    OBVIOUS
  <2>2. DOMAIN d = {"label", "default"}
    BY <2>1
  <2>3. Fair(db, Row(t), Updated(Own(t), d), job[t])
    BY <1>1, <2>2, AddressUpdate
  <2>4. Change(t, Version(Row(t), Updated(Own(t), d)), To(t, "commit"))
    BY <1>8, <2>1
  <2> QED
    BY <1>2, <2>3, <2>4, ChangeToKeeps
<1> QED
  BY <1>3, <1>4, <1>5, <1>6, <1>7, <1>8, RefuseKeeps DEF update_customer_address

LEMMA FlagKeeps ==
    ASSUME DInv, NEW t \in Requests, flag_customer(t)
    PROVE  Goes(t)
<1>1. /\ job[t].do = "flag" /\ Row(t) = job[t].row /\ Row(t) \in Customers /\ Fair(db, Row(t), Own(t), job[t])
      /\ "commit" \notin IdleAt /\ Easy("commit", job[t])
  BY SeenFair, RowsAre DEF flag_customer, Asks, Do, Row, Own, IdleAt, Easy
<1>2. PICK d : d = [flag |-> Sent(t)]
  OBVIOUS
<1>3. DOMAIN d = {"flag"}
  BY <1>2
<1>4. Fair(db, Row(t), Updated(Own(t), d), job[t])
  BY <1>1, <1>3, CustomerUpdate
<1>5. PICK v : /\ v = IF Own(t).flag = Sent(t) THEN Own(t) ELSE Updated(Own(t), d)
               /\ Change(t, Version(Row(t), v), To(t, "commit"))
  BY <1>2 DEF flag_customer
<1> QED
  BY <1>1, <1>4, <1>5, ChangeToKeeps

LEMMA DetailsKeep ==
    ASSUME DInv, NEW t \in Requests, update_customer_details(t)
    PROVE  Goes(t)
<1>0. job[t].do = "save" /\ Row(t) = job[t].row /\ Row(t) \in Customers /\ Sent(t) = job[t].to
  BY DEF update_customer_details, Asks, Do, Row, Sent
<1>1. /\ job[t].do = "save" /\ Row(t) = job[t].row /\ Row(t) \in Customers /\ Fair(db, Row(t), Own(t), job[t])
      /\ Sent(t) = job[t].to /\ Sent(t) \in [phone : Phones] /\ Own(t).phone \in Phones
  <2>1. Form(job[t])
    BY About
  <2>2. Sent(t) \in [phone : Phones]
    BY <1>0, <2>1 DEF Form
  <2>3. Fair(db, Row(t), Own(t), job[t])
    BY <1>0, SeenFair, RowsAre DEF Own
  <2>4. Own(t).phone \in Phones
    BY <1>0, <2>3 DEF Fair, Fits
  <2> QED
    BY <1>0, <2>2, <2>3, <2>4
<1>2. \A pc \in {"commit", "phone"} : Easy(pc, job[t]) /\ pc \notin IdleAt
  BY <1>1, TablesDiffer, RowsAre DEF IdleAt, Easy, Arranges
<1>3. DOMAIN Sent(t) = {"phone"} /\ Sent(t).phone \in Phones
  BY <1>1
<1>4. Fair(db, Row(t), Updated(Own(t), Sent(t)), job[t])
  BY <1>1, <1>3, CustomerUpdate
<1>5. CASE Save(t, << >>, "commit")
  <2>1. PICK new : new = << >> ++ Sent(t) /\ Newest(new, << >>, Sent(t))
    BY NewestCounts
  <2>2. DOMAIN new = {"phone"} /\ new.phone \in Phones
    BY <1>3, <2>1 DEF Newest
  <2>3. Fair(db, Row(t), Updated(Own(t), new), job[t])
    BY <1>1, <2>2, CustomerUpdate
  <2>4. PICK v : /\ v = IF Untouched(t) THEN Own(t) ELSE Updated(Own(t), new)
                 /\ Change(t, Version(Row(t), v), To(t, "commit"))
    BY <1>5, <2>1 DEF Save
  <2> QED
    BY <1>1, <1>2, <2>3, <2>4, ChangeToKeeps
<1>6. CASE Change(t, Version(Row(t), Updated(Own(t), Sent(t))) ++ Version(Own(t).phone, Nobody), To(t, "phone"))
  <2>1. Fair(db, Own(t).phone, Nobody, job[t])
    BY <1>1, PhoneFair
  <2> QED
    BY <1>2, <1>4, <1>6, <2>1, OneFair, BothFair, WriteToKeeps
<1>7. CASE PhoneFree(t) /\ Change(t, Version(Sent(t).phone, Row(t)), To(t, "commit"))
  BY <1>1, <1>2, <1>3, <1>7, PhoneFair, ChangeToKeeps
<1>8. CASE Look(t, To(t, "commit"))
  BY <1>2, <1>8, LookToKeeps
<1> QED
  BY <1>5, <1>6, <1>7, <1>8, RefuseKeeps DEF update_customer_details

LEMMA CustomerStepKeeps ==
    ASSUME DInv, NEW t \in Requests, CustomerStep(t)
    PROVE  Goes(t)
BY CreateCustomerKeeps, CreateAddressKeeps, RetireKeeps, RedirectKeeps, FlagKeeps, DetailsKeep DEF CustomerStep

-----------------------------------------------------------------------------
(* Bookings *)

\* A button, or any UPDATE guarded by the status.
LEMMA PressKeeps ==
    ASSUME DInv, NEW t \in Requests, NEW from, NEW to, NEW pc, Press(t, from, to, To(t, pc)),
           \A d : DOMAIN d = {"is"} /\ d.is = to /\ Own(t).is \in from => Fair(db, Row(t), Updated(Own(t), d), job[t]),
           pc \notin IdleAt, Easy(pc, job[t])
    PROVE  Goes(t)
<1>1. CASE Own(t).is \in from
  <2>1. PICK d : d = [is |-> to]
    OBVIOUS
  <2>2. DOMAIN d = {"is"} /\ d.is = to
    BY <2>1
  <2>3. Fair(db, Row(t), Updated(Own(t), d), job[t]) /\ Change(t, Version(Row(t), Updated(Own(t), d)), To(t, pc))
    BY <1>1, <2>1, <2>2 DEF Press
  <2> QED
    BY <2>3, ChangeToKeeps
<1>2. CASE Own(t).is \notin from
  BY <1>2, RefuseKeeps DEF Press
<1> QED
  BY <1>1, <1>2

\* A booking as its request sees it.
LEMMA BookingIs ==
    ASSUME DInv, NEW t \in Requests, NEW b \in PreOrders
    PROVE  Fair(db, b, View(t, b), job[t]) /\ (db[b].is = "Converted" => View(t, b).is = "Converted")
<1>1. Fair(db, b, View(t, b), job[t])
  BY SeenFair, RowsAre
<1> QED
  BY <1>1 DEF Fair, Moves, BookingMoves

LEMMA BookKeeps ==
    ASSUME DInv, NEW t \in Requests, create_pre_order(t)
    PROVE  Goes(t)
<1>1. /\ job[t].do = "book" /\ Row(t) \in PreOrders /\ ~Arranges(job[t]) /\ Seeks(job[t]) /\ ~Rebooks(job[t])
      /\ "commit" \notin IdleAt /\ Easy("commit", job[t])
  <2>1. job[t].do = "book" /\ Row(t) \in PreOrders /\ Form(job[t])
    BY About DEF create_pre_order, Asks, Do
  <2> QED
    BY <2>1 DEF Form, Arranges, Seeks, Rebooks, IdleAt, Easy
<1>2. CASE find_or_create_customer(t, "begin", "book")
  BY <1>1, <1>2, FinderKeeps
<1>3. CASE At(t, "book") /\ IsNew(t, Row(t)) /\ Change(t, Version(Row(t), NewBooking(t)), To(t, "commit"))
  <2>1. PICK v : v = NewBooking(t)
    OBVIOUS
  <2>2. HasColumns(v, BookingColumns) /\ v.is = "Pending"
    BY <2>1 DEF NewBooking, HasColumns, BookingColumns
  <2>3. db[Row(t)].is # "Converted"
    BY <1>1, <1>3, BookingIs DEF IsNew
  <2>4. Fits(Row(t), v) /\ Moves(Row(t), db[Row(t)], v, job[t]) /\ Row(t) \in Rows
    BY <1>1, <2>2, <2>3, TablesDiffer, RowsAre DEF Fits, Moves, BookingMoves
  <2>5. Fair(db, Row(t), v, job[t])
    BY <2>4 DEF Fair
  <2> QED
    BY <1>1, <1>3, <2>1, <2>5, ChangeToKeeps
<1>4. CASE Look(t, To(t, "commit"))
  BY <1>1, <1>4, LookToKeeps
<1> QED
  BY <1>2, <1>3, <1>4, RefuseKeeps DEF create_pre_order

LEMMA RebookKeeps ==
    ASSUME DInv, NEW t \in Requests, update_pre_order(t)
    PROVE  Goes(t)
<1>1. job[t].do = "save" /\ Row(t) = job[t].row /\ Row(t) \in PreOrders /\ Form(job[t]) /\ Rebooks(job[t])
  BY About DEF update_pre_order, Asks, Do, Row, Rebooks
<1>2. ~Arranges(job[t]) /\ Seeks(job[t]) /\ "commit" \notin IdleAt /\ Easy("commit", job[t])
  BY <1>1, TablesDiffer, RowsAre DEF Form, Arranges, Seeks, Rebooks, IdleAt, Easy
<1>3. Fair(db, Row(t), Own(t), job[t]) /\ Knows(db, tx[t], job[t])
  BY <1>1, BookingIs, About DEF Own
<1>4. CASE Check(t, "check", Own(t).is = "Pending" \/ (Own(t).is = "Confirmed" /\ Sent(t).units = Own(t).units), "find")
  <2>1. Row(t) \in DOMAIN tx[t].mine /\ View(t, Row(t)) = tx[t].mine[Row(t)]
    BY <1>1, <1>3, <1>4, About, RowsAre DEF Knows, Stands, Check, At
  <2>2. CASE Refuse(t)
    BY <2>2, RefuseKeeps
  <2>3. CASE Own(t).is \in OPEN_STATUSES /\ Look(t, To(t, "find"))
    <3>1. PICK x : x = To(t, "find") /\ x.pc = "find" /\ x.mine = tx[t].mine /\ IsTx(x)
      BY ToIs
    <3>2. Stands(db, x, job[t])
      BY <1>1, <1>2, <2>1, <2>3, <3>1 DEF Stands, Own
    <3> QED
      BY <2>3, <3>1, <3>2, LookKeeps DEF IdleAt
  <2> QED
    BY <1>4, <2>2, <2>3 DEF Check, OPEN_STATUSES
<1>5. CASE find_or_create_customer(t, "find", "rebook")
  BY <1>2, <1>5, FinderKeeps
<1>6. ASSUME At(t, "rebook"), NEW new, new = [customer |-> Customer(t), units |-> Sent(t).units, advance |-> Sent(t).advance],
             NEW same, Change(t, Version(Row(t), IF same THEN Own(t) ELSE Updated(Own(t), new)), To(t, "commit"))
      PROVE  Goes(t)
  <2>1. Row(t) \in DOMAIN tx[t].mine /\ tx[t].mine[Row(t)].is # "Converted"
    BY <1>1, <1>3, <1>6 DEF Knows, Stands, At, Rebooks, OPEN_STATUSES
  <2>2. Own(t).is # "Converted"
    BY <1>1, <2>1, About, RowsAre DEF Own
  <2>3. DOMAIN new = {"customer", "units", "advance"}
    BY <1>6
  <2>4. Fair(db, Row(t), Updated(Own(t), new), job[t])
    BY <1>1, <1>3, <2>2, <2>3, BookingUpdate DEF BookingColumns
  <2>5. PICK v : v = (IF same THEN Own(t) ELSE Updated(Own(t), new)) /\ Change(t, Version(Row(t), v), To(t, "commit"))
    BY <1>6
  <2> QED
    BY <1>2, <1>3, <2>4, <2>5, ChangeToKeeps
<1> QED
  BY <1>4, <1>5, <1>6, RefuseKeeps DEF update_pre_order

LEMMA BookingStepKeeps ==
    ASSUME DInv, NEW t \in Requests, BookingStep(t)
    PROVE  Goes(t)
<1>1. ASSUME NEW do, NEW from, do # "save", do # "plan", Asks(t, do, PreOrders), "Converted" \notin from
      PROVE  /\ Row(t) \in PreOrders /\ Fair(db, Row(t), Own(t), job[t]) /\ Easy("commit", job[t]) /\ "commit" \notin IdleAt
             /\ \A d : DOMAIN d \subseteq BookingColumns \ {"version"} /\ ("is" \in DOMAIN d => d.is # "Converted") /\ Own(t).is \in from =>
                    Fair(db, Row(t), Updated(Own(t), d), job[t])
  <2>1. Row(t) \in PreOrders /\ Fair(db, Row(t), Own(t), job[t]) /\ Easy("commit", job[t]) /\ "commit" \notin IdleAt
    BY <1>1, BookingIs DEF Asks, Own, Easy, IdleAt
  <2> QED
    BY <1>1, <2>1, BookingUpdate
<1>2. CASE confirm_pre_order(t)
  <2>1. Asks(t, "accept", PreOrders) /\ Press(t, {"Pending"}, "Confirmed", To(t, "commit"))
    BY <1>2 DEF confirm_pre_order, Button
  <2>2. \A d : DOMAIN d = {"is"} => DOMAIN d \subseteq BookingColumns \ {"version"}
    BY DEF BookingColumns
  <2> QED
    BY <1>1, <2>1, <2>2, PressKeeps
<1>3. CASE cancel_pre_order(t)
  <2>1. PICK d : d = [is |-> "Cancelled", due |-> Sent(t)]
    OBVIOUS
  <2>2. DOMAIN d = {"is", "due"} /\ d.is = "Cancelled"
    BY <2>1
  <2>3. Asks(t, "call off", PreOrders) /\ DOMAIN d \subseteq BookingColumns \ {"version"} /\ "Converted" \notin OPEN_STATUSES
    BY <1>3, <2>2 DEF cancel_pre_order, BookingColumns, OPEN_STATUSES
  <2>4. CASE Own(t).is \in OPEN_STATUSES /\ Change(t, Version(Row(t), Updated(Own(t), d)), To(t, "commit"))
    BY <1>1, <2>2, <2>3, <2>4, ChangeToKeeps
  <2> QED
    BY <1>3, <2>1, <2>4, RefuseKeeps DEF cancel_pre_order
<1>4. CASE record_pre_order_refund(t)
  <2>1. PICK d : d = [refunded |-> Own(t).due]
    OBVIOUS
  <2>2. DOMAIN d = {"refunded"}
    BY <2>1
  <2>3. Asks(t, "pay back", PreOrders) /\ DOMAIN d \subseteq BookingColumns \ {"version"}
    BY <1>4, <2>2 DEF record_pre_order_refund, BookingColumns
  <2>4. CASE Own(t).is \in {"Cancelled"} /\ Change(t, Version(Row(t), Updated(Own(t), d)), To(t, "commit"))
    BY <1>1, <2>2, <2>3, <2>4, ChangeToKeeps
  <2> QED
    BY <1>4, <2>1, <2>4, RefuseKeeps DEF record_pre_order_refund
<1> QED
  BY <1>2, <1>3, <1>4, BookKeeps, RebookKeeps DEF BookingStep

-----------------------------------------------------------------------------
(* Campaigns *)

LEMMA LineIs ==
    ASSUME DInv, NEW t \in Requests, NEW l \in Lines
    PROVE  /\ Fair(db, l, View(t, l), job[t]) /\ HasColumns(View(t, l), {"is", "campaign", "partner", "fee", "version"})
           /\ View(t, l).campaign \in Campaigns_ /\ LineMoves(db[l], View(t, l), job[t])
           /\ (Arranges(job[t]) /\ tx[t].pc # "commit" => View(t, l) = db[l])
<1>1. Fair(db, l, View(t, l), job[t])
  BY SeenFair, RowsAre
<1>2. Arranges(job[t]) /\ tx[t].pc # "commit" => View(t, l) = db[l]
  <2>1. Stands(db, tx[t], job[t])
    BY About DEF Knows
  <2>2. Arranges(job[t]) /\ tx[t].pc # "commit" => \A k \in Lines \cap DOMAIN tx[t].mine : tx[t].mine[k] = db[k]
    BY <2>1 DEF Stands
  <2>3. View(t, l) = IF l \in DOMAIN tx[t].mine THEN tx[t].mine[l] ELSE db[l]
    BY About, RowsAre
  <2> QED
    BY <2>2, <2>3
<1> QED
  BY <1>1, <1>2 DEF Fair, Fits, Moves

\* Who works on the lines of a campaign has only locked those that were there.
LEMMA ArrangesLook ==
    ASSUME DInv, NEW t \in Requests, Arranges(job[t]), tx[t].pc # "commit", NEW pc \in {"lines", "write"}, Look(t, To(t, pc))
    PROVE  Goes(t)
<1>1. PICK x : x = To(t, pc) /\ x.pc = pc /\ x.mine = tx[t].mine /\ IsTx(x)
  BY ToIs
<1>2. Knows(db, tx[t], job[t])
  BY About
<1>3. ~Rebooks(job[t]) /\ ~(job[t].do = "add")
  BY TablesDiffer, RowsAre DEF Arranges, Rebooks
<1>4. Stands(db, x, job[t])
  BY <1>1, <1>2, <1>3 DEF Knows, Stands, Rebooks
<1> QED
  BY <1>1, <1>4, LookKeeps DEF IdleAt

LEMMA ArrangesWrite ==
    ASSUME DInv, NEW t \in Requests, Arranges(job[t]), tx[t].pc # "commit", NEW pc \in {"partners", "records"}, NEW new,
           Change(t, new, To(t, pc)), AllFair(db, new, job[t]), \A l \in Lines \cap DOMAIN new : new[l] = db[l]
    PROVE  Goes(t)
<1>1. PICK x : x = To(t, pc) /\ x.pc = pc /\ x.mine = tx[t].mine /\ IsTx(x)
  BY ToIs
<1>2. \A l \in Lines \cap DOMAIN tx[t].mine : tx[t].mine[l] = db[l]
  BY About DEF Knows, Stands
<1>3. ~Rebooks(job[t]) /\ ~(job[t].do = "add")
  BY TablesDiffer, RowsAre DEF Arranges, Rebooks
<1>4. ASSUME NEW y, y.pc = x.pc, y.fit = x.fit, y.todo = x.todo, Newest(y.mine, new, tx[t].mine)
      PROVE  Stands(db, y, job[t])
  <2>1. \A l \in Lines \cap DOMAIN y.mine : y.mine[l] = db[l]
    BY <1>2, <1>4 DEF Newest
  <2> QED
    BY <1>1, <1>3, <1>4, <2>1 DEF Stands, Rebooks
<1> QED
  BY <1>1, <1>4, ChangeKeeps DEF IdleAt, AllFair

\* What a form writes: the fees of partners who stay, partners taken off, and rows for those who join.
LEMMA PartnersFair ==
    ASSUME DInv, NEW t \in Requests, Arranges(job[t]), tx[t].pc # "commit",
           NEW rowFor \in Injection(Added(t, Row(t)), UnusedLines(t))
    PROVE  AllFair(db, PartnersWritten(t, Row(t), rowFor), job[t])
<1> DEFINE c == Row(t)
<1> DEFINE fees == Sent(t).fees
<1> DEFINE kept == {l \in LinesOf(t, c) : View(t, l).partner \in DOMAIN fees}
<1> DEFINE given(p) == [is |-> "On", campaign |-> c, partner |-> p, fee |-> fees[p], version |-> 1]
<1>0. c \in Campaigns_ /\ c = job[t].row
  BY DEF Arranges, Row
<1>1. ASSUME NEW l \in LinesOf(t, c), NEW d, DOMAIN d = {"fee"} \/ (DOMAIN d = {"is"} /\ d.is = "Off")
      PROVE  Fair(db, l, Updated(View(t, l), d), job[t])
  <2>1. PICK C, v : C = {"is", "campaign", "partner", "fee", "version"} /\ v = Updated(View(t, l), d)
    OBVIOUS
  <2>2. l \in Lines /\ View(t, l).is = "On" /\ View(t, l).campaign = c
    BY DEF LinesOf
  <2>3. HasColumns(View(t, l), C) /\ View(t, l) = db[l]
    BY <2>1, <2>2, LineIs
  <2>4. /\ HasColumns(v, C)
        /\ \A k \in DOMAIN d : k # "version" => v[k] = d[k]
        /\ \A k \in C : k \notin DOMAIN d /\ k # "version" => v[k] = View(t, l)[k]
    BY <1>1, <2>1, <2>3, UpdatedColumns
  <2>5. v.campaign = c /\ v.is \in {"On", "Off"}
    BY <1>1, <2>1, <2>2, <2>4
  <2>6. LineMoves(db[l], v, job[t])
    BY <1>0, <2>2, <2>3, <2>5 DEF LineMoves
  <2>7. Fits(l, v) /\ Moves(l, db[l], v, job[t]) /\ l \in Rows
    BY <1>0, <2>1, <2>2, <2>4, <2>5, <2>6, TablesDiffer, RowsAre DEF Fits, Moves
  <2> QED
    BY <2>1, <2>7 DEF Fair
<1>2. ASSUME NEW l \in {rowFor[p] : p \in DOMAIN rowFor}, NEW p
      PROVE  Fair(db, l, given(p), job[t])
  <2>1. l \in Lines /\ View(t, l).is = "None"
    <3>1. rowFor \in [Added(t, Row(t)) -> UnusedLines(t)]
      BY DEF Injection
    <3> QED
      BY <1>2, <3>1 DEF UnusedLines
  <2>2. PICK v : v = given(p)
    OBVIOUS
  <2>3. HasColumns(v, {"is", "campaign", "partner", "fee", "version"}) /\ v.campaign = c /\ v.is = "On"
    BY <2>2 DEF HasColumns
  <2>4. LineMoves(db[l], v, job[t])
    BY <1>0, <2>1, <2>3, LineIs DEF LineMoves
  <2>5. Fits(l, v) /\ Moves(l, db[l], v, job[t]) /\ l \in Rows
    BY <1>0, <2>1, <2>3, <2>4, TablesDiffer, RowsAre DEF Fits, Moves
  <2> QED
    BY <2>2, <2>5 DEF Fair
<1>3. PICK f, g, h :
        /\ f = [l \in {k \in kept : View(t, k).fee # fees[View(t, k).partner]} |->
                    Updated(View(t, l), [fee |-> fees[View(t, l).partner]])]
        /\ g = [l \in LinesOf(t, c) \ kept |-> Updated(View(t, l), [is |-> "Off"])]
        /\ h = [l \in {rowFor[p] : p \in DOMAIN rowFor} |-> given(CHOOSE p \in DOMAIN rowFor : rowFor[p] = l)]
  OBVIOUS
<1>4. AllFair(db, f, job[t])
  <2>1. ASSUME NEW l \in LinesOf(t, c), NEW fee
        PROVE  Fair(db, l, Updated(View(t, l), [fee |-> fee]), job[t])
    <3>1. PICK d : d = [fee |-> fee]
      OBVIOUS
    <3>2. DOMAIN d = {"fee"}
      BY <3>1
    <3> QED
      BY <1>1, <3>1, <3>2
  <2> QED
    BY <1>3, <2>1 DEF AllFair
<1>5. AllFair(db, g, job[t])
  <2>1. ASSUME NEW l \in LinesOf(t, c)
        PROVE  Fair(db, l, Updated(View(t, l), [is |-> "Off"]), job[t])
    <3>1. PICK d : d = [is |-> "Off"]
      OBVIOUS
    <3>2. DOMAIN d = {"is"} /\ d.is = "Off"
      BY <3>1
    <3> QED
      BY <1>1, <3>1, <3>2
  <2> QED
    BY <1>3, <2>1 DEF AllFair
<1>6. AllFair(db, h, job[t])
  BY <1>2, <1>3 DEF AllFair
<1>7. PartnersWritten(t, Row(t), rowFor) = f ++ g ++ h
  BY <1>3 DEF PartnersWritten
<1> QED
  BY <1>4, <1>5, <1>6, <1>7, BothFair

LEMMA PartnersKeep ==
    ASSUME DInv, NEW t \in Requests, NEW kept, Arranges(job[t]), save_partners(t, kept)
    PROVE  Goes(t)
<1>1. "commit" \notin IdleAt /\ Easy("commit", job[t])
  BY DEF IdleAt, Easy
<1>2. ASSUME NEW pc, NEW fine, NEW next \in {"lines", "write"}, pc # "commit", Check(t, pc, fine, next)
      PROVE  Goes(t)
  BY <1>2, ArrangesLook, RefuseKeeps DEF Check, At
<1>3. CASE At(t, "lines") /\ LockLines(t, Row(t), To(t, "records"))
  <2>1. PICK new : new = [l \in LinesOf(t, Row(t)) |-> View(t, l)] /\ Change(t, new, To(t, "records"))
    BY <1>3 DEF LockLines
  <2>2. \A l \in DOMAIN new : l \in Lines /\ new[l] = View(t, l)
    BY <2>1 DEF LinesOf
  <2>3. tx[t].pc # "commit"
    BY <1>3 DEF At
  <2>4. AllFair(db, new, job[t]) /\ \A l \in Lines \cap DOMAIN new : new[l] = db[l]
    BY <2>2, <2>3, LineIs DEF AllFair
  <2> QED
    BY <2>1, <2>3, <2>4, ArrangesWrite
<1>4. ASSUME At(t, "write"), NEW rowFor \in Injection(Added(t, Row(t)), UnusedLines(t)),
             Change(t, PartnersWritten(t, Row(t), rowFor), To(t, "commit"))
      PROVE  Goes(t)
  <2>1. tx[t].pc # "commit"
    BY <1>4 DEF At
  <2>2. PICK new : new = PartnersWritten(t, Row(t), rowFor) /\ AllFair(db, new, job[t])
    BY <2>1, PartnersFair
  <2> QED
    BY <1>1, <1>4, <2>2, WriteToKeeps
<1> QED
  BY <1>2, <1>3, <1>4 DEF save_partners

LEMMA PlanKeeps ==
    ASSUME DInv, NEW t \in Requests, NEW kept, create_campaign(t, kept)
    PROVE  Goes(t)
<1>1. /\ job[t].do = "plan" /\ Row(t) \in Campaigns_ /\ Arranges(job[t])
      /\ "commit" \notin IdleAt /\ Easy("commit", job[t])
  BY DEF create_campaign, Asks, Do, Row, Arranges, IdleAt, Easy
<1>2. CASE /\ At(t, "begin") /\ IsNew(t, Row(t))
           /\ Change(t, Version(Row(t), [is |-> "Planned", by |-> By(t), label |-> Sent(t).label, version |-> 1]), To(t, "partners"))
  <2>0. PICK v : v = [is |-> "Planned", by |-> By(t), label |-> Sent(t).label, version |-> 1]
    OBVIOUS
  <2>1. PICK new : new = Version(Row(t), v) /\ DOMAIN new = {Row(t)}
    BY OneVersion
  <2>2. HasColumns(v, {"is", "by", "label", "version"})
    BY <2>0 DEF HasColumns
  <2>3. Fair(db, Row(t), v, job[t])
    BY <1>1, <2>2, TablesDiffer, RowsAre DEF Fair, Fits, Moves
  <2>4. AllFair(db, new, job[t]) /\ \A l \in Lines \cap DOMAIN new : new[l] = db[l]
    BY <1>1, <2>1, <2>3, OneFair, TablesDiffer, RowsAre
  <2>5. Change(t, new, To(t, "partners")) /\ tx[t].pc # "commit"
    BY <1>2, <2>0, <2>1 DEF At
  <2> QED
    BY <1>1, <2>4, <2>5, ArrangesWrite
<1>3. CASE Look(t, To(t, "commit"))
  BY <1>1, <1>3, LookToKeeps
<1> QED
  BY <1>1, <1>2, <1>3, RefuseKeeps, PartnersKeep DEF create_campaign

LEMMA UpdateCampaignKeeps ==
    ASSUME DInv, NEW t \in Requests, NEW kept, update_campaign(t, kept)
    PROVE  Goes(t)
<1>1. job[t].do = "save" /\ Row(t) \in Campaigns_ /\ Arranges(job[t])
  BY DEF update_campaign, Asks, Do, Row, Arranges
<1>2. CASE /\ At(t, "check") /\ Own(t).is \in Running
           /\ Change(t, Version(Row(t), Updated(Own(t), [label |-> Sent(t).label])), To(t, "partners"))
  <2>1. PICK d : d = [label |-> Sent(t).label]
    OBVIOUS
  <2>2. DOMAIN d = {"label"}
    BY <2>1
  <2>3. Fair(db, Row(t), Own(t), job[t])
    BY <1>1, SeenFair, RowsAre DEF Own
  <2>4. Fair(db, Row(t), Updated(Own(t), d), job[t])
    BY <1>1, <2>2, <2>3, CampaignUpdate
  <2>5. PICK new : new = Version(Row(t), Updated(Own(t), d)) /\ DOMAIN new = {Row(t)}
    BY OneVersion
  <2>6. AllFair(db, new, job[t]) /\ \A l \in Lines \cap DOMAIN new : new[l] = db[l]
    BY <1>1, <2>4, <2>5, OneFair, TablesDiffer, RowsAre
  <2>7. Change(t, new, To(t, "partners")) /\ tx[t].pc # "commit"
    BY <1>2, <2>1, <2>5 DEF At
  <2> QED
    BY <1>1, <2>6, <2>7, ArrangesWrite
<1> QED
  BY <1>1, <1>2, RefuseKeeps, PartnersKeep DEF update_campaign

LEMMA StatusKeeps ==
    ASSUME DInv, NEW t \in Requests, status_change(t)
    PROVE  Goes(t)
<1>1. PICK do, from, to : do \notin {"save", "plan"} /\ Button(t, do, Campaigns_, from, to, To(t, "commit"))
  BY DEF status_change
<1>2. Row(t) \in Campaigns_ /\ Press(t, from, to, To(t, "commit")) /\ "commit" \notin IdleAt /\ Easy("commit", job[t])
  BY <1>1 DEF Button, Asks, IdleAt, Easy
<1>3. Fair(db, Row(t), Own(t), job[t])
  BY <1>2, SeenFair, RowsAre DEF Own
<1>4. \A d : DOMAIN d = {"is"} => Fair(db, Row(t), Updated(Own(t), d), job[t])
  BY <1>2, <1>3, CampaignUpdate
<1> QED
  BY <1>2, <1>4, PressKeeps

\* A line is found, and locked.
LEMMA FindLineKeeps ==
    ASSUME DInv, NEW t \in Requests, NEW from, NEW l, FindLine(t, from, l, "line"), Easy("line", job[t])
    PROVE  Goes(t)
<1>1. CASE \E fit : Look(t, [To(t, "line") EXCEPT !.fit = fit])
  <2>1. PICK x, next, fit : x = To(t, "line") /\ next = [x EXCEPT !.fit = fit] /\ Look(t, next)
    BY <1>1
  <2>2. x.pc = "line" /\ x.mine = tx[t].mine /\ IsTx(x)
    BY <2>1, ToIs
  <2>3. next.pc = "line" /\ next.mine = tx[t].mine /\ IsTx(next)
    BY <2>1, <2>2, WithFit
  <2>4. Stands(db, next, job[t]) /\ next.pc \notin IdleAt
    BY <2>3, EasyStands DEF IdleAt
  <2> QED
    BY <2>1, <2>3, <2>4, LookKeeps
<1> QED
  BY <1>1, RefuseKeeps DEF FindLine

LEMMA LockLineKeeps ==
    ASSUME DInv, NEW t \in Requests, NEW l \in Lines, LockLine(t, "line", l, "write"), Easy("write", job[t])
    PROVE  Goes(t)
<1>1. CASE Change(t, Version(l, View(t, l)), To(t, "write"))
  BY <1>1, LineIs, ChangeToKeeps DEF IdleAt
<1> QED
  BY <1>1, RefuseKeeps DEF LockLine

LEMMA PaymentKeeps ==
    ASSUME DInv, NEW t \in Requests, create_partner_payment(t)
    PROVE  Goes(t)
<1>1. /\ job[t].do = "pay partner" /\ Row(t) = job[t].row /\ Row(t) \in Payments /\ Sent(t) = job[t].to
      /\ \A pc \in {"line", "write", "commit"} : Easy(pc, job[t]) /\ pc \notin IdleAt
  BY DEF create_partner_payment, Asks, Do, Row, Sent, Easy, IdleAt, Arranges
<1>2. Sent(t).line \in Lines
  BY <1>1, About DEF Form
<1>3. CASE /\ At(t, "write") /\ IsNew(t, Row(t))
           /\ Change(t, Version(Row(t), [is |-> "Paid", line |-> Sent(t).line, amount |-> Sent(t).amount, version |-> 1]), To(t, "commit"))
  <2>1. PICK v : v = [is |-> "Paid", line |-> Sent(t).line, amount |-> Sent(t).amount, version |-> 1]
    OBVIOUS
  <2>2. HasColumns(v, {"is", "line", "amount", "version"}) /\ v.line = job[t].to.line /\ v.is = "Paid"
    BY <1>1, <2>1 DEF HasColumns
  <2>3. PaymentMoves(db[Row(t)], View(t, Row(t)), job[t], Row(t))
    BY <1>1, SeenFair, RowsAre DEF Fair, Moves
  <2>4. PaymentMoves(db[Row(t)], v, job[t], Row(t))
    BY <1>1, <1>3, <2>2, <2>3 DEF PaymentMoves, IsNew
  <2>5. Fits(Row(t), v) /\ Moves(Row(t), db[Row(t)], v, job[t]) /\ Row(t) \in Rows
    BY <1>1, <1>2, <2>2, <2>4, TablesDiffer, RowsAre DEF Fits, Moves
  <2>6. Fair(db, Row(t), v, job[t])
    BY <2>5 DEF Fair
  <2> QED
    BY <1>1, <1>3, <2>1, <2>6, ChangeToKeeps
<1>4. CASE Look(t, To(t, "commit"))
  BY <1>1, <1>4, LookToKeeps
<1> QED
  BY <1>1, <1>2, <1>3, <1>4, FindLineKeeps, LockLineKeeps, RefuseKeeps DEF create_partner_payment

\* A promised post, as its request sees it.
LEMMA DeliverableIs ==
    ASSUME DInv, NEW t \in Requests, NEW d \in Deliverables
    PROVE  /\ HasColumns(View(t, d), {"is", "line", "version"}) /\ View(t, d).line \in Lines
           /\ DeliverableMoves(db[d], View(t, d), job[t], d)
BY SeenFair, RowsAre DEF Fair, Fits, Moves

LEMMA PromiseKeeps ==
    ASSUME DInv, NEW t \in Requests, create_campaign_deliverable(t)
    PROVE  Goes(t)
<1>1. /\ job[t].do = "promise" /\ Row(t) = job[t].row /\ Row(t) \in Deliverables /\ Sent(t) = job[t].to
      /\ \A pc \in {"line", "write", "commit"} : Easy(pc, job[t]) /\ pc \notin IdleAt
  BY DEF create_campaign_deliverable, Asks, Do, Row, Sent, Easy, IdleAt, Arranges
<1>2. Sent(t) \in Lines
  <2>1. Form(job[t])
    BY About
  <2> QED
    BY <1>1, <2>1 DEF Form
<1>3. CASE /\ At(t, "write") /\ IsNew(t, Row(t))
           /\ Change(t, Version(Row(t), [is |-> "Pending", line |-> Sent(t), version |-> 1]), To(t, "commit"))
  <2>1. PICK v : v = [is |-> "Pending", line |-> Sent(t), version |-> 1]
    OBVIOUS
  <2>2. HasColumns(v, {"is", "line", "version"}) /\ v.line = job[t].to /\ v.is = "Pending"
    BY <1>1, <2>1 DEF HasColumns
  <2>3. DeliverableMoves(db[Row(t)], v, job[t], Row(t))
    BY <1>1, <1>3, <2>2, DeliverableIs DEF DeliverableMoves, IsNew
  <2>4. Fits(Row(t), v) /\ Moves(Row(t), db[Row(t)], v, job[t]) /\ Row(t) \in Rows
    BY <1>1, <1>2, <2>2, <2>3, TablesDiffer, RowsAre DEF Fits, Moves
  <2>5. Fair(db, Row(t), v, job[t])
    BY <2>4 DEF Fair
  <2> QED
    BY <1>1, <1>3, <2>1, <2>5, ChangeToKeeps
<1>4. CASE Look(t, To(t, "commit"))
  BY <1>1, <1>4, LookToKeeps
<1> QED
  BY <1>1, <1>2, <1>3, <1>4, FindLineKeeps, LockLineKeeps, RefuseKeeps DEF create_campaign_deliverable

\* A promise is kept, missed or withdrawn on the line it was made for.
LEMMA DeliverableUpdate ==
    ASSUME DInv, NEW t \in Requests, job[t].do \in {"save", "remove"}, Row(t) \in Deliverables, NEW d, DOMAIN d = {"is"}
    PROVE  Fair(db, Row(t), Updated(Own(t), d), job[t])
<1>1. PICK C, v : C = {"is", "line", "version"} /\ v = Updated(Own(t), d)
  OBVIOUS
<1>2. HasColumns(Own(t), C) /\ Own(t).line \in Lines /\ DeliverableMoves(db[Row(t)], Own(t), job[t], Row(t))
  BY <1>1, DeliverableIs DEF Own
<1>3. HasColumns(v, C) /\ \A k \in C : k \notin DOMAIN d /\ k # "version" => v[k] = Own(t)[k]
  BY <1>1, <1>2, UpdatedColumns
<1>4. v.line = Own(t).line
  BY <1>1, <1>3
<1>5. DeliverableMoves(db[Row(t)], v, job[t], Row(t))
  BY <1>2, <1>4 DEF DeliverableMoves, Row
<1>6. Fits(Row(t), v) /\ Moves(Row(t), db[Row(t)], v, job[t]) /\ Row(t) \in Rows
  BY <1>1, <1>2, <1>3, <1>4, <1>5, TablesDiffer, RowsAre DEF Fits, Moves
<1> QED
  BY <1>1, <1>6 DEF Fair

LEMMA UpdateDeliverableKeeps ==
    ASSUME DInv, NEW t \in Requests, update_campaign_deliverable(t)
    PROVE  Goes(t)
<1>1. /\ job[t].do = "save" /\ Row(t) = job[t].row /\ Row(t) \in Deliverables /\ Sent(t) = job[t].to
  BY DEF update_campaign_deliverable, Asks, Do, Row, Sent
<1>2. \A pc \in {"line", "write", "commit"} : Easy(pc, job[t]) /\ pc \notin IdleAt
  BY <1>1, TablesDiffer, RowsAre DEF Easy, IdleAt, Arranges
<1>3. Sent(t) \in [is : {"Pending", "Posted", "Missed"}] /\ Own(t).line \in Lines
  <2>1. Form(job[t])
    BY About
  <2>2. Sent(t) \in [is : {"Pending", "Posted", "Missed"}]
    BY <1>1, <2>1 DEF Form
  <2> QED
    BY <1>1, <2>2, DeliverableIs DEF Own
<1>4. CASE Change(t, Version(Row(t), Updated(Own(t), Sent(t))), To(t, "commit"))
  <2>1. DOMAIN Sent(t) = {"is"}
    BY <1>3
  <2> QED
    BY <1>1, <1>2, <1>4, <2>1, DeliverableUpdate, ChangeToKeeps
<1> QED
  BY <1>2, <1>3, <1>4, FindLineKeeps, LockLineKeeps DEF update_campaign_deliverable

LEMMA RemoveDeliverableKeeps ==
    ASSUME DInv, NEW t \in Requests, delete_campaign_deliverable(t)
    PROVE  Goes(t)
<1>1. /\ job[t].do = "remove" /\ Row(t) \in Deliverables
      /\ \A pc \in {"line", "write", "commit"} : Easy(pc, job[t]) /\ pc \notin IdleAt
  BY DEF delete_campaign_deliverable, Asks, Do, Easy, IdleAt, Arranges
<1>2. Own(t).line \in Lines
  BY <1>1, DeliverableIs DEF Own
<1>3. CASE Press(t, {"Pending"}, "Removed", To(t, "commit"))
  BY <1>1, <1>3, DeliverableUpdate, PressKeeps
<1> QED
  BY <1>1, <1>2, <1>3, FindLineKeeps, LockLineKeeps DEF delete_campaign_deliverable

LEMMA PartnerKeeps ==
    ASSUME DInv, NEW t \in Requests, create_partner(t) \/ update_partner_details(t)
    PROVE  Goes(t)
<1>1. PICK v : Row(t) \in Partners /\ job[t].do \in {"save", "enlist"} /\ Change(t, Version(Row(t), v), To(t, "commit"))
  BY DEF create_partner, update_partner_details, Asks, Do, Insert, Save
<1>2. "commit" \notin IdleAt /\ Easy("commit", job[t])
  BY DEF IdleAt, Easy
<1> QED
  BY <1>1, <1>2, FreeFair, ChangeToKeeps

LEMMA CampaignStepKeeps ==
    ASSUME DInv, NEW t \in Requests, NEW kept, CampaignStep(t, kept)
    PROVE  Goes(t)
BY PlanKeeps, UpdateCampaignKeeps, StatusKeeps, PaymentKeeps, PromiseKeeps, UpdateDeliverableKeeps,
   RemoveDeliverableKeeps, PartnerKeeps DEF CampaignStep

LEMMA PricingKeeps ==
    ASSUME DInv, NEW t \in Requests, update_batch_pricing(t)
    PROVE  Goes(t)
<1>1. PICK v : Change(t, Version(TheBatch, v), To(t, "commit"))
  BY DEF update_batch_pricing
<1>2. "commit" \notin IdleAt /\ Easy("commit", job[t])
  BY DEF IdleAt, Easy
<1> QED
  BY <1>1, <1>2, FreeFair, ChangeToKeeps

-----------------------------------------------------------------------------
(* Stock and gifts *)

LEMMA StockFair == ASSUME NEW rows, NEW j, NEW t, NEW n PROVE AllFair(rows, Moved(t, n), j)
BY FreeFair, OneFair DEF Moved

LEMMA HoldKeeps ==
    ASSUME DInv, NEW t \in Requests, NEW units, NEW new, AllFair(db, new, job[t]), NEW pc, pc \notin IdleAt,
           \A y : y.pc = pc => Stands(db, y, job[t]), holdStock(t, units, new, pc)
    PROVE  Goes(t)
<1>1. AllFair(db, Less(t, 0), job[t])
  BY StockFair DEF Less
<1>2. CASE Change(t, new ++ Less(t, 0), To(t, pc))
  <2>1. PICK next : next = To(t, pc) /\ next.pc = pc /\ next.mine = tx[t].mine /\ IsTx(next)
    BY ToIs
  <2>2. PICK both : both = new ++ Less(t, 0) /\ AllFair(db, both, job[t])
    BY <1>1, BothFair
  <2> QED
    BY <1>2, <2>1, <2>2, WriteKeeps
<1> QED
  BY <1>2, RefuseKeeps DEF holdStock

LEMMA DeductKeeps ==
    ASSUME DInv, NEW t \in Requests, NEW units, deductFreeStock(t, units, "commit")
    PROVE  Goes(t)
<1>1. AllFair(db, Less(t, units), job[t]) /\ "commit" \notin IdleAt /\ Easy("commit", job[t])
  BY StockFair DEF Less, IdleAt, Easy
<1>2. CASE Change(t, Less(t, units), To(t, "commit"))
  BY <1>1, <1>2, WriteToKeeps
<1> QED
  BY <1>2, RefuseKeeps DEF deductFreeStock

\* A gift, and an order, as a request sees it.
LEMMA GiftIs ==
    ASSUME DInv, NEW t \in Requests, NEW g \in Gifts
    PROVE  /\ Fair(db, g, View(t, g), job[t]) /\ GiftMoves(db[g], View(t, g), job[t], g)
           /\ HasColumns(View(t, g), GiftColumns) /\ View(t, g).order \in Orders \cup {NoOrder}
           /\ (View(t, g).is = "None" => db[g].is = "None")
<1>1. Fair(db, g, View(t, g), job[t])
  BY SeenFair, RowsAre
<1>2. GiftMoves(db[g], View(t, g), job[t], g)
  BY <1>1 DEF Fair, Moves
<1> QED
  BY <1>1, <1>2 DEF Fair, Fits, GiftMoves

LEMMA OrderIs ==
    ASSUME DInv, NEW t \in Requests, NEW o \in Orders
    PROVE  /\ Fair(db, o, View(t, o), job[t]) /\ OrderMoves(db[o], View(t, o), job[t], o)
           /\ HasColumns(View(t, o), OrderColumns) /\ View(t, o).booking \in PreOrders \cup {NoOrder}
           /\ (View(t, o).is = "None" => db[o].is = "None")
<1>1. Fair(db, o, View(t, o), job[t])
  BY SeenFair, RowsAre
<1>2. OrderMoves(db[o], View(t, o), job[t], o)
  BY <1>1 DEF Fair, Moves
<1> QED
  BY <1>1, <1>2 DEF Fair, Fits, OrderMoves, Follows

LEMMA LockOrderKeeps ==
    ASSUME DInv, NEW t \in Requests, NEW o \in Orders, LockOrder(t, o, "parcel"), Easy("parcel", job[t])
    PROVE  Goes(t)
BY OrderIs, ChangeToKeeps DEF LockOrder, IdleAt

\* What is asked for becomes the gift.
LEMMA NewGift ==
    ASSUME DInv, NEW t \in Requests, job[t].do \in {"add", "draft gift"}, Row(t) \in Gifts, db[Row(t)].is = "None",
           NEW is \in {"Held", "Draft"}, is = "Draft" => Gives(job[t]), NEW hold
    PROVE  Fair(db, Row(t), Gift(t, is, hold), job[t])
<1>1. Form(job[t]) /\ Sent(t) = job[t].to /\ Row(t) = job[t].row
  BY About DEF Sent, Row
<1>2. Sent(t).order \in Orders \cup {NoOrder} /\ Sent(t).line \in Lines \cup {NoLine}
  BY <1>1 DEF Form
<1>3. PICK v : v = Gift(t, is, hold)
  OBVIOUS
<1>4. HasColumns(v, GiftColumns) /\ v.is = is /\ v.line = Sent(t).line /\ v.order = Sent(t).order
  BY <1>3 DEF Gift, HasColumns, GiftColumns
<1>5. GiftMoves(db[Row(t)], v, job[t], Row(t))
  BY <1>1, <1>4 DEF GiftMoves, MayBecome
<1>6. Fits(Row(t), v) /\ Moves(Row(t), db[Row(t)], v, job[t]) /\ Row(t) \in Rows
  BY <1>2, <1>4, <1>5, TablesDiffer, RowsAre DEF Fits, Moves
<1> QED
  BY <1>3, <1>6 DEF Fair

LEMMA AddGiftKeeps ==
    ASSUME DInv, NEW t \in Requests, add_order_gift(t)
    PROVE  Goes(t)
<1>1. /\ job[t].do = "add" /\ Row(t) = job[t].row /\ Row(t) \in Gifts /\ ~Arranges(job[t])
      /\ \A pc \in {"parcel", "commit"} : Easy(pc, job[t]) /\ pc \notin IdleAt
  BY DEF add_order_gift, Asks, Do, Row, Easy, IdleAt, Arranges
<1>2. Sent(t).order \in Orders
  <2>1. Form(job[t])
    BY About
  <2> QED
    BY <1>1, <2>1 DEF Form, Sent
<1>3. CASE At(t, "begin") /\ LockOrder(t, Sent(t).order, "parcel")
  BY <1>1, <1>2, <1>3, LockOrderKeeps
<1>4. CASE Look(t, To(t, "commit"))
  BY <1>1, <1>4, LookToKeeps
<1>5. CASE Own(t).is = "None" /\ Change(t, Version(Row(t), Gift(t, "Held", "None")), To(t, "hold"))
  <2>1. PICK next : next = To(t, "hold") /\ next.pc = "hold" /\ next.mine = tx[t].mine /\ IsTx(next)
    BY ToIs
  <2>2. db[Row(t)].is = "None"
    BY <1>1, <1>5, GiftIs DEF Own
  <2>3. Fair(db, Row(t), Gift(t, "Held", "None"), job[t])
    BY <1>1, <2>2, NewGift
  <2>4. \A y : y.pc = "hold" /\ DOMAIN y.mine = DOMAIN tx[t].mine \cup {Row(t)} => Stands(db, y, job[t])
    BY <1>1, <2>2 DEF Stands
  <2> QED
    BY <1>5, <2>1, <2>3, <2>4, ChangeOnKeeps DEF IdleAt
<1>6. CASE At(t, "hold") /\ holdStock(t, Sent(t).units, Version(Row(t), Gift(t, "Held", "Active")), "commit")
  <2>1. db[Row(t)].is = "None"
    BY <1>1, <1>6, About DEF Knows, Stands, At
  <2>2. Fair(db, Row(t), Gift(t, "Held", "Active"), job[t])
    BY <1>1, <2>1, NewGift
  <2> QED
    BY <1>1, <1>6, <2>2, OneFair, HoldKeeps, EasyStands
<1> QED
  BY <1>3, <1>4, <1>5, <1>6, RefuseKeeps DEF add_order_gift

LEMMA TakeOutKeeps ==
    ASSUME DInv, NEW t \in Requests, remove_order_gift(t)
    PROVE  Goes(t)
<1>1. /\ job[t].do = "take out" /\ Row(t) \in Gifts
      /\ \A pc \in {"parcel", "release", "commit"} : Easy(pc, job[t]) /\ pc \notin IdleAt
  BY DEF remove_order_gift, Asks, Do, Easy, IdleAt, Arranges
<1>2. Fair(db, Row(t), Own(t), job[t]) /\ Own(t).order \in Orders \cup {NoOrder}
  BY <1>1, GiftIs DEF Own
<1>3. CASE Own(t).order # NoOrder /\ LockOrder(t, Own(t).order, "parcel")
  BY <1>1, <1>2, <1>3, LockOrderKeeps
<1>4. CASE Press(t, {"Held"}, "Cancelled", To(t, "release"))
  BY <1>1, <1>2, <1>4, GiftUpdate, PressKeeps DEF MayBecome
<1>5. CASE Change(t, Version(Row(t), [Own(t) EXCEPT !.hold = IF @ = "Active" THEN "Released" ELSE @]), To(t, "commit"))
  <2>1. PICK hold : Change(t, Version(Row(t), [Own(t) EXCEPT !.hold = hold]), To(t, "commit"))
    BY <1>5
  <2> QED
    BY <1>1, <1>2, <2>1, GiftHold, ChangeToKeeps
<1> QED
  BY <1>3, <1>4, <1>5, RefuseKeeps DEF remove_order_gift

LEMMA ShareCampaignKeeps ==
    ASSUME DInv, NEW t \in Requests, NEW l, NEW pc, ShareCampaign(t, l, pc), Easy(pc, job[t]), pc \notin IdleAt
    PROVE  Goes(t)
<1>1. CASE Share(t, {CampaignOf(t, l)}, To(t, pc))
  BY <1>1, ShareToKeeps
<1> QED
  BY <1>1, RefuseKeeps DEF ShareCampaign

LEMMA DraftGiftKeeps ==
    ASSUME DInv, NEW t \in Requests, create_giveaway(t)
    PROVE  Goes(t)
<1>1. /\ job[t].do = "draft gift" /\ Row(t) \in Gifts
      /\ \A pc \in {"line", "campaign", "commit"} : Easy(pc, job[t]) /\ pc \notin IdleAt
  BY DEF create_giveaway, Asks, Do, Easy, IdleAt, Arranges
<1>2. CASE IsNew(t, Row(t)) /\ Change(t, Version(Row(t), Gift(t, "Draft", "None")), To(t, IF Sent(t).line = NoLine THEN "commit" ELSE "line"))
  <2>1. PICK pc \in {"line", "commit"} : Change(t, Version(Row(t), Gift(t, "Draft", "None")), To(t, pc))
    BY <1>2
  <2>2. Fair(db, Row(t), Gift(t, "Draft", "None"), job[t])
    BY <1>1, <1>2, GiftIs, NewGift DEF IsNew, Gives
  <2> QED
    BY <1>1, <2>1, <2>2, ChangeToKeeps
<1>3. CASE Look(t, To(t, "commit"))
  BY <1>1, <1>3, LookToKeeps
<1>4. CASE Share(t, {Sent(t).line}, To(t, "campaign"))
  BY <1>1, <1>4, ShareToKeeps
<1>5. CASE ShareCampaign(t, Sent(t).line, "commit")
  BY <1>1, <1>5, ShareCampaignKeeps
<1> QED
  BY <1>2, <1>3, <1>4, <1>5, RefuseKeeps DEF create_giveaway

LEMMA GiveKeeps ==
    ASSUME DInv, NEW t \in Requests, give_giveaway(t)
    PROVE  Goes(t)
<1>1. /\ job[t].do = "give" /\ Row(t) \in Gifts /\ Fair(db, Row(t), Own(t), job[t])
      /\ \A pc \in {"leave", "campaign"} : Easy(pc, job[t]) /\ pc \notin IdleAt
  BY GiftIs DEF give_giveaway, Asks, Do, Own, Easy, IdleAt, Arranges
<1>2. CASE Press(t, {"Draft"}, "Given", To(t, IF Own(t).line = NoLine THEN "leave" ELSE "campaign"))
  <2>1. PICK pc \in {"leave", "campaign"} : Press(t, {"Draft"}, "Given", To(t, pc))
    BY <1>2
  <2>2. MayBecome(Own(t), "Given", job[t], Row(t))
    BY <1>1 DEF MayBecome, Gives, Row
  <2> QED
    BY <1>1, <2>1, <2>2, GiftUpdate, PressKeeps
<1>3. CASE ShareCampaign(t, Own(t).line, "leave")
  BY <1>1, <1>3, ShareCampaignKeeps
<1>4. CASE deductFreeStock(t, Own(t).units, "commit")
  BY <1>4, DeductKeeps
<1> QED
  BY <1>2, <1>3, <1>4 DEF give_giveaway

LEMMA GiftStepKeeps ==
    ASSUME DInv, NEW t \in Requests, GiftStep(t)
    PROVE  Goes(t)
<1>1. CASE cancel_giveaway(t)
  <2>1. /\ Row(t) \in Gifts /\ Fair(db, Row(t), Own(t), job[t]) /\ Easy("commit", job[t]) /\ "commit" \notin IdleAt
        /\ Press(t, {"Draft"}, "Cancelled", To(t, "commit"))
    BY <1>1, GiftIs DEF cancel_giveaway, Button, Asks, Own, Easy, IdleAt
  <2> QED
    BY <2>1, GiftUpdate, PressKeeps DEF MayBecome
<1> QED
  BY <1>1, AddGiftKeeps, TakeOutKeeps, DraftGiftKeeps, GiveKeeps DEF GiftStep

-----------------------------------------------------------------------------
(* Orders *)

\* The gifts of an order change their status together.
LEMMA BecomeFair ==
    ASSUME DInv, NEW t \in Requests, NEW G, G \subseteq Gifts, NEW is, is # "None",
           \A g \in G : View(t, g).is # "None" /\ MayBecome(View(t, g), is, job[t], g)
    PROVE  AllFair(db, Become(t, G, [is |-> is]), job[t])
<1>1. PICK d : d = [is |-> is]
  OBVIOUS
<1>2. DOMAIN d = {"is"} /\ d.is = is
  BY <1>1
<1>3. ASSUME NEW g \in G
      PROVE  Fair(db, g, Updated(View(t, g), d), job[t])
  BY <1>2, GiftIs, GiftUpdate
<1>4. Become(t, G, d) = [g \in G |-> Updated(View(t, g), d)]
  BY DEF Become
<1> QED
  BY <1>1, <1>3, <1>4 DEF AllFair

LEMMA HoldsFair ==
    ASSUME DInv, NEW t \in Requests, NEW G, G \subseteq Gifts, NEW hold
    PROVE  AllFair(db, [g \in G |-> [View(t, g) EXCEPT !.hold = hold]], job[t])
BY GiftIs, GiftHold DEF AllFair

\* The columns an order is written with, before it has a number.
HeaderColumns == OrderColumns \ {"number", "by", "version"}

\* The order a header may be written over.
OwnDraft(t, draft, header) ==
    /\ header.booking \in PreOrders \cup {NoOrder} /\ header.is # "None"
    /\ header.is = "Pending" => job[t].do \in {"place", "save"}
    /\ job[t].do # "save" =>
            /\ draft => Own(t).is = "Draft"
            /\ header.booking = NoOrder \/ (job[t].do = "place" /\ header.booking = job[t].to.booking)
    /\ job[t].do = "save" => header.is = "Pending" /\ (draft => Own(t).is = "Pending" /\ header.booking = Own(t).booking)

LEMMA WriteOrderKeeps ==
    ASSUME DInv, NEW t \in Requests, Row(t) \in Orders, NEW from, NEW draft, NEW header, NEW next,
           HasColumns(header, HeaderColumns), OwnDraft(t, draft, header),
           job[t].do \in {"place", "draft", "checkout", "save"},
           next \in {"hold", "deduct", "commit"}, WriteOrder(t, from, draft, header, next)
    PROVE  Goes(t)
<1>1. /\ Row(t) = job[t].row /\ Fair(db, Row(t), Own(t), job[t]) /\ ~Arranges(job[t])
      /\ Easy(next, job[t]) /\ next \notin IdleAt
  BY OrderIs, TablesDiffer, RowsAre DEF Row, Own, Easy, IdleAt, Arranges
<1>2. DOMAIN header = HeaderColumns
  BY DEF HasColumns
<1>3. CASE draft /\ Change(t, Version(Row(t), Updated(Own(t), header)), To(t, next))
  <2>1. HasColumns(Own(t), OrderColumns) /\ OrderMoves(db[Row(t)], Own(t), job[t], Row(t)) /\ Row(t) \in Rows
    BY <1>1 DEF Fair, Fits, Moves
  <2>2. PICK v : v = Updated(Own(t), header)
    OBVIOUS
  <2>3. /\ HasColumns(v, OrderColumns)
        /\ \A c \in DOMAIN header : c # "version" => v[c] = header[c]
        /\ \A c \in OrderColumns : c \notin DOMAIN header /\ c # "version" => v[c] = Own(t)[c]
    BY <1>2, <2>1, <2>2, UpdatedColumns DEF HeaderColumns
  <2>4. v.is = header.is /\ v.booking = header.booking /\ v.number = Own(t).number
    BY <1>2, <2>3 DEF HeaderColumns, OrderColumns
  <2>5. OrderMoves(db[Row(t)], v, job[t], Row(t))
    <3>1. CASE job[t].do = "save"
      BY <1>1, <1>3, <2>1, <2>4, <3>1 DEF OrderMoves, OwnDraft, Follows
    <3>2. CASE job[t].do # "save"
      BY <1>1, <1>3, <2>1, <2>4, <3>2 DEF OrderMoves, OwnDraft, Follows
    <3> QED
      BY <3>1, <3>2
  <2>6. v.booking \in PreOrders \cup {NoOrder}
    BY <2>4 DEF OwnDraft
  <2>7. Fits(Row(t), v) /\ Moves(Row(t), db[Row(t)], v, job[t])
    BY <2>3, <2>5, <2>6, TablesDiffer, RowsAre DEF Fits, Moves
  <2>8. Fair(db, Row(t), v, job[t])
    BY <2>1, <2>7 DEF Fair
  <2> QED
    BY <1>1, <1>3, <2>2, <2>8, ChangeToKeeps
<1>4. CASE ~Editing(t) /\ Look(t, To(t, "number"))
  <2>1. PICK x : x = To(t, "number") /\ x.pc = "number" /\ x.mine = tx[t].mine /\ IsTx(x)
    BY ToIs
  <2>2. Stands(db, x, job[t])
    BY <1>1, <1>4, <2>1 DEF Stands, Editing, Do
  <2> QED
    BY <1>4, <2>1, <2>2, LookKeeps DEF IdleAt
<1>5. CASE At(t, "number") /\ TakeNumber(t, "insert")
  <2>1. PICK x : x = To(t, "insert") /\ x.pc = "insert" /\ x.mine = tx[t].mine /\ IsTx(x)
    BY ToIs
  <2>2. job[t].do \in {"place", "draft", "checkout"}
    BY <1>5, About DEF Knows, Stands, At
  <2>3. \A y : y.pc = "insert" => Stands(db, y, job[t])
    BY <1>1, <2>2 DEF Stands
  <2>4. PICK new : new = Version(InvoiceDesk, 0) /\ AllFair(db, new, job[t])
    BY FreeFair, OneFair
  <2>5. Change(t, new, x)
    BY <1>5, <2>1, <2>4 DEF TakeNumber
  <2> QED
    BY <2>1, <2>3, <2>4, <2>5, WriteKeeps DEF IdleAt
<1>6. CASE /\ At(t, "insert") /\ IsNew(t, Row(t))
           /\ Change(t, Version(Row(t), header ++ [number |-> nextInvoiceNo(t), by |-> By(t), version |-> 1]), To(t, next))
  <2>1. PICK g, v : g = [number |-> nextInvoiceNo(t), by |-> By(t), version |-> 1] /\ v = header ++ g /\ Newest(v, header, g)
    BY NewestCounts
  <2>2. DOMAIN g = {"number", "by", "version"}
    BY <2>1
  <2>3. DOMAIN v = OrderColumns /\ v = [c \in DOMAIN v |-> v[c]]
    BY <1>2, <2>1, <2>2 DEF Newest, HeaderColumns, OrderColumns
  <2>4. HasColumns(v, OrderColumns)
    BY <2>3 DEF HasColumns
  <2>5. v.booking = header.booking /\ v.is = header.is
    BY <1>2, <2>1 DEF Newest, HeaderColumns, OrderColumns
  <2>6. job[t].do \in {"place", "draft", "checkout"} /\ db[Row(t)].is = "None"
    BY <1>6, About, OrderIs DEF Knows, Stands, At, IsNew
  <2>7. OrderMoves(db[Row(t)], v, job[t], Row(t)) /\ v.booking \in PreOrders \cup {NoOrder}
    BY <1>1, <2>5, <2>6 DEF OrderMoves, OwnDraft
  <2>8. Fits(Row(t), v) /\ Moves(Row(t), db[Row(t)], v, job[t]) /\ Row(t) \in Rows
    BY <2>4, <2>5, <2>7, TablesDiffer, RowsAre DEF Fits, Moves
  <2>9. Fair(db, Row(t), v, job[t])
    BY <2>8 DEF Fair
  <2> QED
    BY <1>1, <1>6, <2>1, <2>9, ChangeToKeeps
<1> QED
  BY <1>3, <1>4, <1>5, <1>6, RefuseKeeps DEF WriteOrder

\* What the handlers of orders write.
LEMMA HeaderIs ==
    ASSUME NEW t, NEW is, NEW channel, NEW customer, NEW booking
    PROVE  LET header == Header(t, is, channel, customer, booking)
           IN  HasColumns(header, HeaderColumns) /\ header.is = is /\ header.booking = booking
<1>1. PICK h : h = Header(t, is, channel, customer, booking)
  OBVIOUS
<1>2. HasColumns(h, HeaderColumns) /\ h.is = is /\ h.booking = booking
  BY <1>1 DEF Header, HasColumns, HeaderColumns, OrderColumns
<1> QED
  BY <1>1, <1>2

LEMMA PriceKeeps ==
    ASSUME DInv, NEW t \in Requests, NEW from, NEW next, next \notin IdleAt, Easy(next, job[t]), price_lines(t, from, next)
    PROVE  Goes(t)
<1>1. Refuse(t) \/ Look(t, To(t, next))
  BY DEF price_lines, Check
<1> QED
  BY <1>1, LookToKeeps, RefuseKeeps

LEMMA LockBookingKeeps ==
    ASSUME DInv, NEW t \in Requests, NEW b \in PreOrders, Easy("price", job[t]), Change(t, Version(b, View(t, b)), To(t, "price"))
    PROVE  Goes(t)
BY BookingIs, ChangeToKeeps DEF IdleAt

\* The online order's own statements, placed or edited.
LEMMA OnlineKeeps ==
    ASSUME DInv, NEW t \in Requests, Asks(t, "place", Orders) \/ Asks(t, "save", Orders), write_online_order(t)
    PROVE  Goes(t)
<1> DEFINE b == BookingOf(t)
<1> DEFINE c == Customer(t)
<1>1. /\ job[t].do \in {"place", "save"} /\ Row(t) = job[t].row /\ Row(t) \in Orders /\ Sent(t) = job[t].to
      /\ Editing(t) <=> job[t].do = "save"
  BY DEF Asks, Do, Row, Sent, Editing
<1>2. ~Arranges(job[t]) /\ ~Rebooks(job[t]) /\ Sells(job[t]) /\ "commit" \notin IdleAt /\ Easy("commit", job[t])
  BY <1>1, TablesDiffer, RowsAre DEF Arranges, Rebooks, Sells, IdleAt, Easy
<1>3. Form(job[t])
  BY About
<1>4. /\ Seeks(job[t]) /\ Sent(t).booking \in PreOrders \cup {NoOrder}
      /\ Sent(t).saved = Nobody => Sent(t).address \in Addresses
  BY <1>1, <1>2, <1>3 DEF Form, Seeks, Sells
<1>5. Fair(db, Row(t), Own(t), job[t]) /\ b \in PreOrders \cup {NoOrder}
  BY <1>1, <1>4, OrderIs DEF Own, BookingOf
<1>6. CASE find_or_create_customer(t, "find", "customer")
  BY <1>2, <1>4, <1>6, FinderKeeps
<1>7. CASE At(t, "customer") /\ LockBuyer(t, c, IF Sent(t).saved = Nobody THEN "address" ELSE "header")
  <2>1. PICK pc, d : pc = (IF Sent(t).saved = Nobody THEN "address" ELSE "header") /\ d = [filled |-> TRUE]
    OBVIOUS
  <2>2. DOMAIN d = {"filled"}
    BY <2>1
  <2>3. c \in Customers
    BY <1>7, About DEF Knows, Stands, At, Customer
  <2>4. Fair(db, c, View(t, c), job[t])
    BY <2>3, SeenFair, RowsAre
  <2>5. Fair(db, c, Updated(View(t, c), d), job[t])
    BY <2>2, <2>3, <2>4, CustomerUpdate
  <2>6. PICK v, new : /\ v = (IF View(t, c).filled THEN View(t, c) ELSE Updated(View(t, c), d))
                      /\ new = Version(c, v)
    OBVIOUS
  <2>7. AllFair(db, new, job[t])
    BY <2>4, <2>5, <2>6, OneFair
  <2>8. Change(t, new, To(t, pc))
    BY <1>7, <2>1, <2>6 DEF LockBuyer
  <2>9. pc \in WithCustomer /\ (pc \notin {"customer", "header", "book"} => job[t].to.address \in Addresses)
    BY <1>1, <1>4, <2>1 DEF WithCustomer
  <2> QED
    BY <1>2, <2>3, <2>7, <2>8, <2>9, WriteFitKeeps DEF Customer
<1>8. CASE insert_address(t, "header")
  BY <1>2, <1>8, InsertAddressKeeps
<1>9. CASE WriteOrder(t, "header", IF Editing(t) THEN Own(t).is = "Pending" ELSE Draft(t, "ONLINE"),
                      Header(t, "Pending", "ONLINE", c, b), "hold")
  <2>1. PICK h : h = Header(t, "Pending", "ONLINE", c, b) /\ HasColumns(h, HeaderColumns) /\ h.is = "Pending" /\ h.booking = b
    BY HeaderIs
  <2>2. PICK draft : /\ draft = IF Editing(t) THEN Own(t).is = "Pending" ELSE Draft(t, "ONLINE")
                     /\ WriteOrder(t, "header", draft, h, "hold")
    BY <1>9, <2>1
  <2>3. OwnDraft(t, draft, h)
    BY <1>1, <1>5, <2>1, <2>2 DEF Draft, OwnDraft, BookingOf
  <2> QED
    BY <1>1, <2>1, <2>2, <2>3, WriteOrderKeeps
<1>10. CASE At(t, "hold") /\ holdStock(t, Sent(t).units, Version(Row(t), [Own(t) EXCEPT !.held = Sent(t).units]),
                                      IF b = NoOrder \/ Editing(t) THEN "commit" ELSE "convert")
  <2>1. PICK pc, new : /\ pc = (IF b = NoOrder \/ Editing(t) THEN "commit" ELSE "convert")
                       /\ new = Version(Row(t), [Own(t) EXCEPT !.held = Sent(t).units])
    OBVIOUS
  <2>2. AllFair(db, new, job[t])
    BY <1>1, <1>5, <2>1, OrderHold, OneFair
  <2>3. ASSUME NEW y, y.pc = pc
        PROVE  Stands(db, y, job[t])
    <3>1. CASE pc = "commit"
      BY <1>2, <2>3, <3>1, EasyStands
    <3>2. CASE pc = "convert" /\ b # NoOrder /\ ~Editing(t)
      <4>1. job[t].do = "place" /\ job[t].to.booking \in PreOrders
        BY <1>1, <1>5, <3>2 DEF BookingOf
      <4> QED
        BY <1>2, <2>3, <3>2, <4>1 DEF Stands
    <3> QED
      BY <2>1, <3>1, <3>2
  <2>4. pc \notin IdleAt
    BY <2>1 DEF IdleAt
  <2> QED
    BY <1>10, <2>1, <2>2, <2>3, <2>4, HoldKeeps
<1>11. CASE At(t, "convert") /\ convertBooking(t, b, Row(t), "commit")
  <2>1. job[t].do = "place" /\ b \in PreOrders /\ b = job[t].to.booking
    BY <1>1, <1>11, About DEF Knows, Stands, At, BookingOf
  <2>2. CASE View(t, b).is \in OPEN_STATUSES /\ Change(t, Version(b, Updated(View(t, b), [is |-> "Converted", order |-> Row(t)])), To(t, "commit"))
    <3>1. PICK d : d = [is |-> "Converted", order |-> Row(t)]
      OBVIOUS
    <3>2. DOMAIN d = {"is", "order"}
      BY <3>1
    <3>3. Fair(db, b, View(t, b), job[t]) /\ View(t, b).is # "Converted"
      BY <2>1, <2>2, BookingIs DEF OPEN_STATUSES
    <3>4. Fair(db, b, Updated(View(t, b), d), job[t])
      BY <2>1, <3>2, <3>3, BookingUpdate DEF BookingColumns
    <3>5. Change(t, Version(b, Updated(View(t, b), d)), To(t, "commit"))
      BY <2>2, <3>1
    <3> QED
      BY <1>2, <3>4, <3>5, ChangeToKeeps
  <2> QED
    BY <1>11, <2>2, RefuseKeeps DEF convertBooking
<1> QED
  BY <1>6, <1>7, <1>8, <1>9, <1>10, <1>11, RefuseKeeps DEF write_online_order

LEMMA PlaceKeeps ==
    ASSUME DInv, NEW t \in Requests, create_online_order(t)
    PROVE  Goes(t)
<1>1. /\ job[t].do = "place" /\ Asks(t, "place", Orders) /\ Row(t) = job[t].row /\ Row(t) \in Orders
      /\ \A pc \in {"price", "find"} : Easy(pc, job[t]) /\ pc \notin IdleAt
  BY DEF create_online_order, Asks, Do, Row, Easy, IdleAt, Arranges
<1>2. BookingOf(t) \in PreOrders \cup {NoOrder}
  <2>1. Form(job[t])
    BY About
  <2> QED
    BY <1>1, <2>1 DEF Form, BookingOf, Editing, Do, Sent
<1>3. CASE BookingOf(t) # NoOrder /\ lockBooking(t, BookingOf(t), "price")
  BY <1>1, <1>2, <1>3, LockBookingKeeps, RefuseKeeps DEF lockBooking
<1>4. CASE write_online_order(t)
  BY <1>1, <1>4, OnlineKeeps
<1> QED
  BY <1>1, <1>3, <1>4, PriceKeeps DEF create_online_order

LEMMA EditKeeps ==
    ASSUME DInv, NEW t \in Requests, edit_online_order(t)
    PROVE  Goes(t)
<1>1. job[t].do = "save" /\ Asks(t, "save", Orders) /\ Row(t) = job[t].row /\ Row(t) \in Orders
  BY DEF edit_online_order, Asks, Do, Row
<1>2. ~Rebooks(job[t]) /\ ~Arranges(job[t]) /\ \A pc \in {"price", "find"} : Easy(pc, job[t]) /\ pc \notin IdleAt
  BY <1>1, TablesDiffer, RowsAre DEF Easy, IdleAt, Arranges, Rebooks
<1>3. Fair(db, Row(t), Own(t), job[t]) /\ Own(t).booking \in PreOrders \cup {NoOrder} /\ HasColumns(Own(t), OrderColumns)
  BY <1>1, OrderIs DEF Own
<1>4. CASE Change(t, Version(Row(t), [Own(t) EXCEPT !.held = 0]), To(t, IF Own(t).booking = NoOrder THEN "price" ELSE "booking"))
  <2>1. PICK v, pc : v = [Own(t) EXCEPT !.held = 0] /\ pc = IF Own(t).booking = NoOrder THEN "price" ELSE "booking"
    OBVIOUS
  <2>2. Fair(db, Row(t), v, job[t])
    BY <1>1, <1>3, <2>1, OrderHold
  <2>3. v.booking = Own(t).booking
    BY <1>3, <2>1 DEF HasColumns, OrderColumns
  <2>4. PICK x : x = To(t, pc) /\ x.pc = pc /\ x.mine = tx[t].mine /\ IsTx(x)
    BY ToIs
  <2>5. ASSUME NEW y, y.pc = pc, DOMAIN y.mine = DOMAIN tx[t].mine \cup {Row(t)}, y.mine[Row(t)] = v
        PROVE  Stands(db, y, job[t])
    BY <1>1, <1>2, <1>3, <2>1, <2>3, <2>5 DEF Stands, Rebooks
  <2>6. Change(t, Version(Row(t), v), x) /\ x.pc \notin IdleAt
    BY <1>4, <2>1, <2>4 DEF IdleAt
  <2> QED
    BY <2>2, <2>4, <2>5, <2>6, ChangeOnKeeps
<1>5. CASE At(t, "booking") /\ Change(t, Version(BookingOf(t), View(t, BookingOf(t))), To(t, "price"))
  <2>1. job[t].row \in DOMAIN tx[t].mine /\ tx[t].mine[job[t].row].booking \in PreOrders
    <3>1. Stands(db, tx[t], job[t])
      BY About DEF Knows
    <3> QED
      BY <1>1, <1>5, <3>1 DEF Stands, At
  <2>2. Own(t).booking \in PreOrders
    BY <1>1, <2>1, About, RowsAre DEF Own
  <2>3. BookingOf(t) \in PreOrders
    BY <1>1, <2>2 DEF BookingOf, Editing, Do
  <2> QED
    BY <1>2, <1>5, <2>3, LockBookingKeeps
<1>6. CASE write_online_order(t)
  BY <1>1, <1>6, OnlineKeeps
<1> QED
  BY <1>2, <1>4, <1>5, <1>6, PriceKeeps, RefuseKeeps DEF edit_online_order

LEMMA DraftKeeps ==
    ASSUME DInv, NEW t \in Requests, save_draft(t)
    PROVE  Goes(t)
<1>1. job[t].do = "draft" /\ Row(t) \in Orders /\ WriteOrder(t, "begin", Draft(t, Sent(t).channel), DraftHeader(t, Sent(t).channel), "commit")
  BY DEF save_draft, Asks, Do
<1>2. PICK h : h = DraftHeader(t, Sent(t).channel)
  OBVIOUS
<1>3. HasColumns(h, HeaderColumns) /\ h.is = "Draft" /\ h.booking = NoOrder
  BY <1>2 DEF DraftHeader, HasColumns, HeaderColumns, OrderColumns
<1>4. PICK draft : draft = Draft(t, Sent(t).channel)
  OBVIOUS
<1>5. WriteOrder(t, "begin", draft, h, "commit") /\ OwnDraft(t, draft, h)
  BY <1>1, <1>2, <1>3, <1>4 DEF Draft, OwnDraft
<1> QED
  BY <1>1, <1>3, <1>5, WriteOrderKeeps

\* A button on an order.
LEMMA OrderPress ==
    ASSUME DInv, NEW t \in Requests, Row(t) \in Orders, NEW from, NEW to, NEW pc, Press(t, from, to, To(t, pc)),
           "None" \notin from, "Delivered" \notin from, to \notin {"None", "Pending", "Draft", "Delivered"},
           pc \notin IdleAt, Easy(pc, job[t])
    PROVE  Goes(t)
<1>1. Fair(db, Row(t), Own(t), job[t])
  BY OrderIs DEF Own
<1>2. ASSUME NEW d, DOMAIN d = {"is"}, d.is = to, Own(t).is \in from
      PROVE  Fair(db, Row(t), Updated(Own(t), d), job[t])
  BY <1>1, <1>2, OrderUpdate
<1> QED
  BY <1>2, PressKeeps

LEMMA CancelKeeps ==
    ASSUME DInv, NEW t \in Requests, cancel_order(t)
    PROVE  Goes(t)
<1>1. /\ job[t].do = "cancel" /\ Row(t) \in Orders /\ Fair(db, Row(t), Own(t), job[t])
      /\ \A pc \in {"gifts", "commit"} : Easy(pc, job[t]) /\ pc \notin IdleAt
  BY OrderIs DEF cancel_order, Asks, Do, Own, Easy, IdleAt, Arranges
<1>2. CASE /\ Own(t).is \in {"Pending", "Confirmed"}
           /\ Change(t, Version(Row(t), Updated(Own(t), [is |-> "Cancelled", held |-> 0]))
                           ++ [g \in {g \in HeldGifts(t) : View(t, g).order = Row(t)} |-> [View(t, g) EXCEPT !.hold = "Released"]],
                        To(t, "gifts"))
  <2>1. PICK d, G : d = [is |-> "Cancelled", held |-> 0] /\ G = {g \in HeldGifts(t) : View(t, g).order = Row(t)}
    OBVIOUS
  <2>2. DOMAIN d = {"is", "held"} /\ d.is = "Cancelled" /\ G \subseteq Gifts
    BY <2>1 DEF HeldGifts
  <2>3. DOMAIN d \subseteq {"is", "held", "paid"} /\ Own(t).is \notin {"None", "Delivered"}
    BY <1>2, <2>2
  <2>4. Fair(db, Row(t), Updated(Own(t), d), job[t])
    BY <1>1, <2>2, <2>3, OrderUpdate
  <2>5. PICK f, g : f = Version(Row(t), Updated(Own(t), d)) /\ g = [h \in G |-> [View(t, h) EXCEPT !.hold = "Released"]]
    OBVIOUS
  <2>6. AllFair(db, f, job[t]) /\ AllFair(db, g, job[t])
    BY <2>2, <2>4, <2>5, OneFair, HoldsFair
  <2>7. Change(t, f ++ g, To(t, "gifts"))
    BY <1>2, <2>1, <2>5
  <2> QED
    BY <1>1, <2>6, <2>7, BothFair, WriteToKeeps
<1>3. CASE dropOrderGifts(t, Row(t), "commit")
  <2>1. PICK G, new : G = GiftsOf(t, Row(t), "Held") /\ new = Become(t, G, [is |-> "Cancelled"]) /\ Change(t, new, To(t, "commit"))
    BY <1>3 DEF dropOrderGifts
  <2>2. G \subseteq Gifts /\ \A g \in G : View(t, g).is # "None" /\ View(t, g).order = Row(t)
    BY <2>1 DEF GiftsOf
  <2> QED
    BY <1>1, <2>1, <2>2, BecomeFair, WriteToKeeps, TablesDiffer DEF MayBecome
<1> QED
  BY <1>2, <1>3, RefuseKeeps DEF cancel_order

LEMMA DispatchKeeps ==
    ASSUME DInv, NEW t \in Requests, dispatchOrder(t)
    PROVE  Goes(t)
<1>1. /\ job[t].do = "dispatch" /\ Row(t) = job[t].row /\ Row(t) \in Orders /\ Fair(db, Row(t), Own(t), job[t]) /\ ~Arranges(job[t])
      /\ \A pc \in {"holds", "gifts", "commit"} : Easy(pc, job[t]) /\ pc \notin IdleAt
  BY OrderIs DEF dispatchOrder, Asks, Do, Row, Own, Easy, IdleAt, Arranges
<1>2. CASE Press(t, {"Confirmed"}, "Dispatched", To(t, "holds"))
  BY <1>1, <1>2, OrderPress
<1>3. CASE Look(t, [To(t, "leave") EXCEPT !.todo = {g \in HeldGifts(t) : View(t, g).order = Row(t)}])
  <2>1. PICK x, next, G : x = To(t, "leave") /\ next = [x EXCEPT !.todo = G] /\ G = {g \in HeldGifts(t) : View(t, g).order = Row(t)}
    OBVIOUS
  <2>2. x.pc = "leave" /\ x.mine = tx[t].mine /\ IsTx(x)
    BY <2>1, ToIs
  <2>3. next.pc = "leave" /\ next.mine = tx[t].mine /\ next.todo = G /\ IsTx(next)
    BY <2>1, <2>2, WithTodo
  <2>4. Stands(db, next, job[t])
    BY <1>1, <2>1, <2>3 DEF Stands, HeldGifts
  <2> QED
    BY <1>3, <2>1, <2>3, <2>4, LookKeeps DEF IdleAt
<1>4. ASSUME At(t, "leave"), NEW units,
             Change(t, Version(Row(t), [Own(t) EXCEPT !.held = 0]) ++ Less(t, units)
                             ++ [g \in tx[t].todo |-> [View(t, g) EXCEPT !.hold = "Deducted"]], [To(t, "gifts") EXCEPT !.todo = {}])
      PROVE  Goes(t)
  <2>1. tx[t].todo \subseteq Gifts
    BY <1>1, <1>4, About DEF Knows, Stands, At
  <2>2. PICK f, g, h : /\ f = Version(Row(t), [Own(t) EXCEPT !.held = 0]) /\ g = Less(t, units)
                       /\ h = [k \in tx[t].todo |-> [View(t, k) EXCEPT !.hold = "Deducted"]]
    OBVIOUS
  <2>3. AllFair(db, f, job[t]) /\ AllFair(db, g, job[t]) /\ AllFair(db, h, job[t])
    BY <1>1, <2>1, <2>2, OneFair, OrderHold, StockFair, HoldsFair DEF Less
  <2>4. PICK new : new = f ++ g ++ h /\ AllFair(db, new, job[t])
    BY <2>3, BothFair
  <2>5. PICK x, next : x = To(t, "gifts") /\ next = [x EXCEPT !.todo = {}]
    OBVIOUS
  <2>6. x.pc = "gifts" /\ x.mine = tx[t].mine /\ IsTx(x)
    BY <2>5, ToIs
  <2>7. next.pc = "gifts" /\ next.mine = tx[t].mine /\ IsTx(next)
    BY <2>5, <2>6, WithTodo
  <2>8. Change(t, new, next)
    BY <1>4, <2>2, <2>4, <2>5
  <2> QED
    BY <1>1, <2>4, <2>7, <2>8, WriteKeeps, EasyStands
<1>5. CASE sendOrderGifts(t, Row(t), "commit")
  <2>1. PICK G, new : /\ G = {g \in GiftsOf(t, Row(t), "Held") : View(t, g).hold = "Deducted"}
                      /\ new = Become(t, G, [is |-> "Given"]) /\ Change(t, new, To(t, "commit"))
    BY <1>5 DEF sendOrderGifts
  <2>2. G \subseteq Gifts /\ \A g \in G : View(t, g).is # "None" /\ View(t, g).order = Row(t)
    BY <2>1 DEF GiftsOf
  <2> QED
    BY <1>1, <2>1, <2>2, BecomeFair, WriteToKeeps, TablesDiffer DEF MayBecome
<1> QED
  BY <1>2, <1>3, <1>4, <1>5, RefuseKeeps DEF dispatchOrder, deductHeldStock

LEMMA DeliverKeeps ==
    ASSUME DInv, NEW t \in Requests, deliverOrder(t)
    PROVE  Goes(t)
<1>1. /\ Row(t) \in Orders /\ Fair(db, Row(t), Own(t), job[t]) /\ Easy("commit", job[t]) /\ "commit" \notin IdleAt
  BY OrderIs DEF deliverOrder, Asks, Own, Easy, IdleAt
<1>2. CASE Own(t).is = "Dispatched" /\ Change(t, Version(Row(t), Updated(Own(t), [is |-> "Delivered", paid |-> Own(t).total])), To(t, "commit"))
  <2>1. PICK d : d = [is |-> "Delivered", paid |-> Own(t).total]
    OBVIOUS
  <2>2. DOMAIN d = {"is", "paid"} /\ d.is = "Delivered" /\ d.paid = Own(t).total
    BY <2>1
  <2>3. DOMAIN d \subseteq {"is", "held", "paid"}
    BY <2>2
  <2>4. Fair(db, Row(t), Updated(Own(t), d), job[t])
    BY <1>1, <1>2, <2>2, <2>3, OrderUpdate
  <2>5. Change(t, Version(Row(t), Updated(Own(t), d)), To(t, "commit"))
    BY <1>2, <2>1
  <2> QED
    BY <1>1, <2>4, <2>5, ChangeToKeeps
<1> QED
  BY <1>2, RefuseKeeps DEF deliverOrder

LEMMA TakeBackKeeps ==
    ASSUME DInv, NEW t \in Requests, take_back(t)
    PROVE  Goes(t)
<1>1. /\ job[t].do = "take back" /\ Row(t) \in Orders
      /\ \A pc \in {"restock", "gifts", "commit"} : Easy(pc, job[t]) /\ pc \notin IdleAt
  BY DEF take_back, Asks, Do, Easy, IdleAt, Arranges
<1>2. CASE Press(t, {"Dispatched"}, "Returned", To(t, "restock"))
  <2>1. PICK from, to, pc : /\ from = {"Dispatched"} /\ to = "Returned" /\ pc = "restock"
                           /\ Press(t, from, to, To(t, pc)) /\ Easy(pc, job[t]) /\ pc \notin IdleAt
    BY <1>1, <1>2
  <2>2. "None" \notin from /\ "Delivered" \notin from /\ to \notin {"None", "Pending", "Draft", "Delivered"}
    BY <2>1
  <2> QED
    BY <1>1, <2>1, <2>2, OrderPress
<1>3. CASE Change(t, More(t, Own(t).units), To(t, "gifts"))
  BY <1>1, <1>3, StockFair, WriteToKeeps DEF More
<1>4. CASE returnOrderGifts(t, Row(t), "commit")
  <2>1. PICK G, f, g : /\ G = GiftsOf(t, Row(t), "Given") /\ f = Become(t, G, [is |-> "Returned"]) /\ g = More(t, GiftUnits(t, G))
                       /\ Change(t, f ++ g, To(t, "commit"))
    BY <1>4 DEF returnOrderGifts
  <2>2. G \subseteq Gifts /\ \A k \in G : View(t, k).is # "None"
    BY <2>1 DEF GiftsOf
  <2>3. AllFair(db, f, job[t]) /\ AllFair(db, g, job[t])
    BY <2>1, <2>2, BecomeFair, StockFair DEF More, MayBecome
  <2> QED
    BY <1>1, <2>1, <2>3, BothFair, WriteToKeeps
<1> QED
  BY <1>2, <1>3, <1>4 DEF take_back

LEMMA CheckoutKeeps ==
    ASSUME DInv, NEW t \in Requests, checkout_pos_sale(t)
    PROVE  Goes(t)
<1> DEFINE customer == IF Sent(t).phone = Nobody THEN Nobody ELSE Customer(t)
<1>1. /\ job[t].do = "checkout" /\ Row(t) \in Orders /\ Sent(t) = job[t].to /\ ~Arranges(job[t]) /\ ~Rebooks(job[t])
      /\ Sells(job[t]) /\ Easy("sale", job[t])
  BY DEF checkout_pos_sale, Asks, Do, Sent, Easy, Arranges, Rebooks, Sells
<1>2. Sent(t).phone \in Phones \cup {Nobody} /\ Sent(t).new \in Customers \cup {Nobody}
  <2>1. Form(job[t])
    BY About
  <2> QED
    BY <1>1, <2>1 DEF Form
<1>3. CASE price_lines(t, "begin", IF Sent(t).phone = Nobody THEN "sale" ELSE "find")
  <2>1. CASE Refuse(t)
    BY <2>1, RefuseKeeps
  <2>2. CASE Sent(t).phone = Nobody /\ Look(t, To(t, "sale"))
    BY <1>1, <2>2, LookToKeeps DEF IdleAt
  <2>3. CASE Sent(t).phone # Nobody /\ Look(t, To(t, "find"))
    <3>1. PICK x : x = To(t, "find") /\ x.pc = "find" /\ x.mine = tx[t].mine /\ IsTx(x)
      BY ToIs
    <3>2. Stands(db, x, job[t])
      BY <1>1, <1>2, <2>3, <3>1 DEF Stands, Rebooks
    <3> QED
      BY <2>3, <3>1, <3>2, LookKeeps DEF IdleAt
  <2> QED
    BY <1>3, <2>1, <2>2, <2>3 DEF price_lines, Check
<1>4. CASE find_or_create_customer(t, "find", "sale")
  <2>1. tx[t].pc \in {"find", "register", "find again"}
    BY <1>4 DEF find_or_create_customer, At
  <2>2. job[t].to.phone \in Phones
    BY <1>1, <2>1, About DEF Knows, Stands
  <2>3. Seeks(job[t])
    BY <1>1, <1>2, <2>2 DEF Seeks
  <2> QED
    BY <1>1, <1>4, <2>3, FinderKeeps
<1>5. CASE WriteOrder(t, "sale", Draft(t, "POS") /\ Own(t).by = By(t), Header(t, "Purchased", "POS", customer, NoOrder), "deduct")
  <2>1. PICK h : h = Header(t, "Purchased", "POS", customer, NoOrder) /\ HasColumns(h, HeaderColumns) /\ h.is = "Purchased" /\ h.booking = NoOrder
    BY HeaderIs
  <2>2. PICK draft : draft = (Draft(t, "POS") /\ Own(t).by = By(t)) /\ WriteOrder(t, "sale", draft, h, "deduct")
    BY <1>5, <2>1
  <2>3. OwnDraft(t, draft, h)
    BY <1>1, <2>1, <2>2 DEF Draft, OwnDraft
  <2> QED
    BY <1>1, <2>1, <2>2, <2>3, WriteOrderKeeps
<1>6. CASE deductFreeStock(t, Sent(t).units, "commit")
  BY <1>6, DeductKeeps
<1> QED
  BY <1>3, <1>4, <1>5, <1>6 DEF checkout_pos_sale

LEMMA OrderStepKeeps ==
    ASSUME DInv, NEW t \in Requests, OrderStep(t)
    PROVE  Goes(t)
<1>1. CASE discard_draft(t)
  <2>1. Row(t) \in Orders /\ (Refuse(t) \/ Press(t, {"Draft"}, "Cancelled", To(t, "commit")))
    BY <1>1 DEF discard_draft, Asks
  <2>2. Easy("commit", job[t]) /\ "commit" \notin IdleAt
    BY DEF Easy, IdleAt
  <2> QED
    BY <2>1, <2>2, OrderPress, RefuseKeeps
<1>2. CASE confirm_order(t)
  <2>1. Row(t) \in Orders /\ Press(t, {"Pending"}, "Confirmed", To(t, "commit"))
    BY <1>2 DEF confirm_order, Button, Asks
  <2>2. Easy("commit", job[t]) /\ "commit" \notin IdleAt
    BY DEF Easy, IdleAt
  <2> QED
    BY <2>1, <2>2, OrderPress
<1> QED
  BY <1>1, <1>2, PlaceKeeps, EditKeeps, DraftKeeps, CancelKeeps, DispatchKeeps, DeliverKeeps, TakeBackKeeps, CheckoutKeeps DEF OrderStep

-----------------------------------------------------------------------------
(* Every step *)

LEMMA NextIs ==
    ASSUME [Next]_vars
    PROVE  \/ \E t \in Requests :
                \/ FormStep(t) \/ CustomerStep(t) \/ BookingStep(t) \/ CampaignStep(t, GiftLines(t)) \/ GiftStep(t)
                \/ OrderStep(t) \/ update_batch_pricing(t) \/ Finish(t) \/ Refuse(t)
           \/ UNCHANGED vars
BY DEF Next, vars, LoseConnection, Interrupt, BreakCycle, Refuse, AllAnswered

LEMMA NextKeeps == ASSUME DInv, [Next]_vars PROVE DInv'
<1>1. CASE UNCHANGED vars
  BY <1>1 DEF vars, DInv
<1>2. ASSUME NEW t \in Requests,
             \/ FormStep(t) \/ CustomerStep(t) \/ BookingStep(t) \/ CampaignStep(t, GiftLines(t)) \/ GiftStep(t)
             \/ OrderStep(t) \/ update_batch_pricing(t) \/ Finish(t) \/ Refuse(t)
      PROVE  DInv'
  BY <1>2, FormStepKeeps, CustomerStepKeeps, BookingStepKeeps, CampaignStepKeeps, GiftStepKeeps, OrderStepKeeps, PricingKeeps,
     FinishKeeps, RefuseKeeps DEF Goes
<1> QED
  BY <1>1, <1>2, NextIs

-----------------------------------------------------------------------------
(* The start *)

\* The rows of the day have the columns of their tables.
LEMMA TypesFit ==
    ASSUME NEW r \in Rows, NEW v, v \in ShelfRowType(r)
    PROVE  Fits(r, v)
<1>1. CASE r \in Phones
  <2>0. v \in CustomerRowType(r) /\ r \notin Customers
    BY <1>1, TablesDiffer DEF ShelfRowType, CustomerRows
  <2>1. v \in Customers \cup {Nobody}
    BY <1>1, <2>0 DEF CustomerRowType
  <2> QED
    BY <1>1, <2>1, TablesDiffer, RowsAre DEF Fits
<1>2. CASE r \in Customers
  <2>1. v \in CustomerRowType(r) /\ r \notin Phones
    BY <1>2, TablesDiffer DEF ShelfRowType, CustomerRows
  <2>2. v \in [is : {"None", "Active", "Inactive"}, phone : Phones, flag : {"None", "Watch", "Blocked"},
               filled : BOOLEAN, version : Nat]
    BY <1>2, <2>1 DEF CustomerRowType
  <2>3. HasColumns(v, CustomerColumns) /\ v.phone \in Phones
    BY <2>2 DEF HasColumns, CustomerColumns
  <2> QED
    BY <1>2, <2>3, TablesDiffer, RowsAre DEF Fits
<1>3. CASE r \in Addresses
  <2>1. v \in CustomerRowType(r) /\ r \notin Phones /\ r \notin Customers
    BY <1>3, TablesDiffer DEF ShelfRowType, CustomerRows
  <2>2. v \in [is : {"None", "Active", "Inactive"}, of : Customers, default : BOOLEAN, label : Nat, at : Nat, version : Nat]
    BY <1>3, <2>1 DEF CustomerRowType
  <2>3. HasColumns(v, AddressColumns) /\ v.of \in Customers
    BY <2>2 DEF HasColumns, AddressColumns
  <2> QED
    BY <1>3, <2>3, TablesDiffer, RowsAre DEF Fits
<1>4. CASE r \in PreOrders
  <2>1. v \in PreOrderType
    BY <1>4, TablesDiffer DEF ShelfRowType, CustomerRows
  <2>2. HasColumns(v, BookingColumns)
    BY <2>1 DEF PreOrderType, HasColumns, BookingColumns
  <2> QED
    BY <1>4, <2>2, TablesDiffer, RowsAre DEF Fits
<1>5. CASE r \in CampaignRows
  <2>1. v \in CampaignRowType(r)
    BY <1>5, TablesDiffer DEF ShelfRowType, CustomerRows
  <2>2. ASSUME r \in Campaigns_
        PROVE  HasColumns(v, {"is", "by", "label", "version"})
    <3>1. v \in [is : {"None", "Planned", "Live", "Completed", "Cancelled"}, by : Nat, label : Nat, version : Nat]
      BY <2>1, <2>2, TablesDiffer DEF CampaignRowType
    <3> QED
      BY <3>1 DEF HasColumns
  <2>3. ASSUME r \in Lines
        PROVE  HasColumns(v, {"is", "campaign", "partner", "fee", "version"}) /\ v.campaign \in Campaigns_
    <3>1. v \in [is : {"None", "On", "Off"}, campaign : Campaigns_, partner : Partners, fee : Nat, version : Nat]
      BY <2>1, <2>3, TablesDiffer DEF CampaignRowType
    <3> QED
      BY <3>1 DEF HasColumns
  <2>4. ASSUME r \in Payments
        PROVE  HasColumns(v, {"is", "line", "amount", "version"}) /\ v.line \in Lines
    <3>1. v \in [is : {"None", "Paid"}, line : Lines, amount : Nat, version : Nat]
      BY <2>1, <2>4, TablesDiffer DEF CampaignRowType
    <3> QED
      BY <3>1 DEF HasColumns
  <2>5. ASSUME r \in Deliverables
        PROVE  HasColumns(v, {"is", "line", "version"}) /\ v.line \in Lines
    <3>1. v \in [is : {"None", "Pending", "Posted", "Missed", "Removed"}, line : Lines, version : Nat]
      BY <2>1, <2>5, TablesDiffer DEF CampaignRowType
    <3> QED
      BY <3>1 DEF HasColumns
  <2> QED
    BY <1>5, <2>2, <2>3, <2>4, <2>5, TablesDiffer, RowsAre DEF Fits
<1>6. CASE r \in Orders
  <2>1. v \in OrderRowType
    BY <1>6, TablesDiffer DEF ShelfRowType, CustomerRows
  <2>2. HasColumns(v, OrderColumns) /\ v.booking \in PreOrders \cup {NoOrder}
    BY <2>1 DEF OrderRowType, HasColumns, OrderColumns
  <2> QED
    BY <1>6, <2>2, TablesDiffer, RowsAre DEF Fits
<1>7. CASE r \in Gifts
  <2>1. v \in GiftRowType
    BY <1>7, TablesDiffer DEF ShelfRowType, CustomerRows
  <2>2. HasColumns(v, GiftColumns) /\ v.line \in Lines \cup {NoLine} /\ v.order \in Orders \cup {NoOrder}
    BY <2>1 DEF GiftRowType, HasColumns, GiftColumns
  <2> QED
    BY <1>7, <2>2, TablesDiffer, RowsAre DEF Fits
<1>8. CASE r \notin CustomerRows \cup PreOrders \cup CampaignRows \cup Orders \cup Gifts
  BY <1>8 DEF Fits, CustomerRows, CampaignRows
<1> QED
  BY <1>1, <1>2, <1>3, <1>4, <1>5, <1>6, <1>7, <1>8 DEF CustomerRows

\* A request that has not begun has nothing.
LEMMA StartIs ==
    ASSUME Init
    PROVE  /\ DInv /\ Opening(db) /\ Meets(job, db)
           /\ \A t \in Requests : tx[t] = Blank("begin")
           /\ \A r \in Rows : shared[r] = {}
<1>1. Opening(db) /\ Meets(job, db)
  BY OpeningsAssumption DEF Init
<1>2. /\ db = [r \in Rows |-> db[r]] /\ \A r \in Rows : Fits(r, db[r])
  BY <1>1, TypesFit DEF Opening
<1>3. /\ lock = [r \in Rows |-> NoRequest] /\ tx = [t \in Requests |-> Blank("begin")]
      /\ shared = [r \in Rows |-> {}] /\ job \in Starts
  BY DEF Init, Begun, NothingShared
<1>4. PICK x : x = Blank("begin") /\ DOMAIN x.mine = {} /\ \A t \in Requests : Knows(db, x, job[t])
  BY BlankIs, BlankKnows
<1>5. \A t \in Requests : {r \in Rows : lock[r] = t} = {}
  BY <1>3, ReadCommittedAssumption
<1>6. DInv
  BY <1>2, <1>3, <1>4, <1>5 DEF DInv
<1> QED
  BY <1>1, <1>3, <1>6

\* Every request writes what its kind may.
THEOREM EachKindItsRows == Spec => []DInv
<1>1. Init => DInv
  BY StartIs
<1>2. DInv /\ [Next]_vars => DInv'
  BY NextKeeps
<1> QED
  BY <1>1, <1>2, PTL DEF Spec

-----------------------------------------------------------------------------
(* What a statement leaves *)

\* t has the rows of S as it had them.
Leaves(t, S) ==
    \A r \in S :
        /\ r \in DOMAIN tx'[t].mine <=> r \in DOMAIN tx[t].mine
        /\ r \in DOMAIN tx[t].mine => tx'[t].mine[r] = tx[t].mine[r]

LEMMA LookHas ==
    ASSUME DInv, NEW t \in Requests, NEW next, Look(t, next), next.mine = tx[t].mine
    PROVE  tx'[t] = next /\ \A S : Leaves(t, S)
<1>1. tx'[t] = next
  BY DEF Look, Read, DInv
<1> QED
  BY <1>1 DEF Leaves

LEMMA LookToHas ==
    ASSUME DInv, NEW t \in Requests, NEW pc, Look(t, To(t, pc))
    PROVE  /\ tx'[t].pc = pc /\ tx'[t].fit = tx[t].fit /\ tx'[t].todo = tx[t].todo /\ tx'[t].mine = tx[t].mine
           /\ \A S : Leaves(t, S)
<1>1. PICK x : x = To(t, pc) /\ x.pc = pc /\ x.mine = tx[t].mine /\ x.fit = tx[t].fit /\ x.todo = tx[t].todo
  BY ToIs
<1>2. tx'[t] = x /\ \A S : Leaves(t, S)
  BY <1>1, LookHas
<1> QED
  BY <1>1, <1>2

LEMMA ChangeHas ==
    ASSUME DInv, NEW t \in Requests, NEW new, NEW next, Change(t, new, next), next.mine = tx[t].mine, IsTx(next)
    PROVE  /\ tx'[t].pc = next.pc /\ tx'[t].fit = next.fit /\ tx'[t].todo = next.todo
           /\ Newest(tx'[t].mine, new, tx[t].mine)
           /\ \A r \in DOMAIN new : lock[r] \in {NoRequest, t} /\ shared[r] \subseteq {t}
<1>1. PICK m : m = new ++ next.mine /\ Newest(m, new, tx[t].mine)
  BY NewestCounts
<1>2. PICK y : y = Wrote(t, new, next)
  OBVIOUS
<1>3. y.mine = m /\ y.pc = next.pc /\ y.todo = next.todo /\ y.fit = next.fit
  BY <1>1, <1>2 DEF Wrote, IsTx
<1>4. /\ tx' = [tx EXCEPT ![t] = y]
      /\ \A r \in DOMAIN new : lock[r] \in {NoRequest, t} /\ shared[r] \subseteq {t}
  BY <1>2 DEF Change, Write, Wrote, Free, OursAlone
<1>5. tx'[t] = y
  BY <1>4 DEF DInv
<1> QED
  BY <1>1, <1>3, <1>4, <1>5

LEMMA ChangeLeaves ==
    ASSUME DInv, NEW t \in Requests, NEW new, NEW next, Change(t, new, next), next.mine = tx[t].mine, IsTx(next),
           NEW S, DOMAIN new \cap S = {}
    PROVE  tx'[t].pc = next.pc /\ tx'[t].fit = next.fit /\ Leaves(t, S)
<1>1. tx'[t].pc = next.pc /\ tx'[t].fit = next.fit /\ Newest(tx'[t].mine, new, tx[t].mine)
  BY ChangeHas
<1>2. \A r \in S : r \in DOMAIN tx'[t].mine <=> r \in DOMAIN tx[t].mine
  BY <1>1 DEF Newest
<1>3. \A r \in S : r \in DOMAIN tx[t].mine => tx'[t].mine[r] = tx[t].mine[r]
  BY <1>1 DEF Newest
<1> QED
  BY <1>1, <1>2, <1>3 DEF Leaves

\* t has another version of r, and the others as it had them.
Has(t, r, v) ==
    /\ DOMAIN tx'[t].mine = DOMAIN tx[t].mine \cup {r} /\ tx'[t].mine[r] = v
    /\ \A s \in DOMAIN tx[t].mine : s # r => tx'[t].mine[s] = tx[t].mine[s]

LEMMA VersionHas ==
    ASSUME DInv, NEW t \in Requests, NEW r, NEW v, NEW next, Change(t, Version(r, v), next), next.mine = tx[t].mine, IsTx(next)
    PROVE  /\ tx'[t].pc = next.pc /\ tx'[t].fit = next.fit /\ tx'[t].todo = next.todo /\ Has(t, r, v)
           /\ lock[r] \in {NoRequest, t} /\ shared[r] \subseteq {t}
<1>1. PICK new : new = Version(r, v) /\ DOMAIN new = {r} /\ new[r] = v
  BY OneVersion
<1>2. Change(t, new, next)
  BY <1>1
<1>3. /\ tx'[t].pc = next.pc /\ tx'[t].fit = next.fit /\ tx'[t].todo = next.todo
      /\ Newest(tx'[t].mine, new, tx[t].mine)
      /\ \A s \in DOMAIN new : lock[s] \in {NoRequest, t} /\ shared[s] \subseteq {t}
  BY <1>2, ChangeHas
<1> QED
  BY <1>1, <1>3 DEF Newest, Has

LEMMA VersionToHas ==
    ASSUME DInv, NEW t \in Requests, NEW r, NEW v, NEW pc, Change(t, Version(r, v), To(t, pc))
    PROVE  /\ tx'[t].pc = pc /\ tx'[t].fit = tx[t].fit /\ tx'[t].todo = tx[t].todo /\ Has(t, r, v)
           /\ lock[r] \in {NoRequest, t} /\ shared[r] \subseteq {t}
<1>1. PICK x : x = To(t, pc) /\ x.pc = pc /\ x.mine = tx[t].mine /\ x.fit = tx[t].fit /\ x.todo = tx[t].todo /\ IsTx(x)
  BY ToIs
<1> QED
  BY <1>1, VersionHas

LEMMA HasLeaves ==
    ASSUME NEW t, NEW r, NEW v, Has(t, r, v), NEW S, r \notin S
    PROVE  Leaves(t, S)
BY DEF Has, Leaves

\* The batch is written along with one row.
HoldsRow(t, r, v) ==
    /\ DOMAIN tx'[t].mine = DOMAIN tx[t].mine \cup {r, TheBatch} /\ tx'[t].mine[r] = v
    /\ \A s \in DOMAIN tx[t].mine : s \notin {r, TheBatch} => tx'[t].mine[s] = tx[t].mine[s]

LEMMA HoldHas ==
    ASSUME DInv, NEW t \in Requests, NEW units, NEW r, NEW v, NEW next, holdStock(t, units, Version(r, v), next), ~Refuse(t)
    PROVE  /\ tx'[t].pc = next /\ tx'[t].fit = tx[t].fit /\ HoldsRow(t, r, v)
<1>1. PICK f, g, new : f = Version(r, v) /\ g = Less(t, 0) /\ new = f ++ g /\ Change(t, new, To(t, next))
  BY DEF holdStock
<1>2. DOMAIN f = {r} /\ f[r] = v /\ DOMAIN g = {TheBatch} /\ Newest(new, f, g)
  BY <1>1, OneVersion, NewestCounts DEF Less, Moved
<1>3. PICK x : x = To(t, next) /\ x.pc = next /\ x.mine = tx[t].mine /\ x.fit = tx[t].fit /\ IsTx(x)
  BY ToIs
<1>4. tx'[t].pc = next /\ tx'[t].fit = tx[t].fit /\ Newest(tx'[t].mine, new, tx[t].mine)
  BY <1>1, <1>3, ChangeHas
<1>5. DOMAIN new = {r, TheBatch} /\ new[r] = v
  BY <1>2 DEF Newest
<1> QED
  BY <1>4, <1>5 DEF Newest, HoldsRow

LEMMA DeductHas ==
    ASSUME DInv, NEW t \in Requests, NEW units, NEW next, deductFreeStock(t, units, next), ~Refuse(t)
    PROVE  tx'[t].pc = next /\ tx'[t].fit = tx[t].fit /\ \A S : TheBatch \notin S => Leaves(t, S)
<1>1. PICK v : Change(t, Version(TheBatch, v), To(t, next))
  BY DEF deductFreeStock, Less, Moved
<1> QED
  BY <1>1, VersionToHas, HasLeaves

\* What has no customer's rows in it.
Elsewhere == Rows \ CustomerRows

LEMMA FinderHas ==
    ASSUME DInv, NEW t \in Requests, NEW from, NEW next, Seeks(job[t]), find_or_create_customer(t, from, next), ~Refuse(t)
    PROVE  tx'[t].pc \in {next, "register", "find again"} /\ Leaves(t, Elsewhere)
<1>1. ASSUME NEW c, NEW pc, Look(t, For(t, c, pc))
      PROVE  tx'[t].pc = pc /\ Leaves(t, Elsewhere)
  <2>1. PICK x : x = For(t, c, pc) /\ x.pc = pc /\ x.mine = tx[t].mine /\ x.fit = c
    BY ForIs
  <2> QED
    BY <1>1, <2>1, LookHas
<1>2. ASSUME Register(t, next), At(t, "register")
      PROVE  tx'[t].pc = next /\ Leaves(t, Elsewhere)
  <2>1. PICK f, g, new, x : /\ f = Version(Sent(t).phone, Sent(t).new) /\ g = Version(Sent(t).new, NewCustomer(Sent(t).phone))
                            /\ new = f ++ g /\ x = For(t, Sent(t).new, next)
    OBVIOUS
  <2>2. DOMAIN f = {Sent(t).phone} /\ DOMAIN g = {Sent(t).new} /\ Newest(new, f, g)
    BY <2>1, OneVersion, NewestCounts
  <2>3. x.pc = next /\ x.mine = tx[t].mine /\ IsTx(x)
    BY <2>1, ForIs
  <2>4. Sent(t).phone \in Phones /\ Sent(t).new \in Customers
    BY <1>2, About DEF Seeks, Sent, Knows, Stands, At
  <2>5. DOMAIN new \cap Elsewhere = {}
    BY <2>2, <2>4 DEF Newest, Elsewhere, CustomerRows
  <2>6. Change(t, new, x)
    BY <1>2, <2>1 DEF Register
  <2> QED
    BY <2>3, <2>5, <2>6, ChangeLeaves
<1> QED
  BY <1>1, <1>2, LookToHas DEF find_or_create_customer

LEMMA InsertHas ==
    ASSUME DInv, NEW t \in Requests, NEW next, insert_address(t, next), ~Refuse(t)
    PROVE  /\ tx'[t].pc \in {"step down", "beside", "in front", next} /\ tx'[t].fit = tx[t].fit
           /\ tx[t].pc \in AddressAt /\ Leaves(t, Rows \ Addresses)
<1>1. tx[t].pc \in AddressAt
  BY DEF insert_address, At, AddressAt
<1>2. job[t].to.address \in Addresses
  BY <1>1, About DEF Knows, Stands, AddressAt
<1>3. ASSUME Change(t, StepsDown(t, Defaults(t, Customer(t))), To(t, "in front"))
      PROVE  tx'[t].pc = "in front" /\ tx'[t].fit = tx[t].fit /\ Leaves(t, Rows \ Addresses)
  <2>1. PICK new, x : new = StepsDown(t, Defaults(t, Customer(t))) /\ x = To(t, "in front") /\ Change(t, new, x)
    BY <1>3
  <2>2. DOMAIN new \subseteq Addresses
    BY <2>1 DEF StepsDown, Defaults, Saved
  <2>3. x.pc = "in front" /\ x.mine = tx[t].mine /\ x.fit = tx[t].fit /\ IsTx(x)
    BY <2>1, ToIs
  <2>4. PICK S : S = Rows \ Addresses
    OBVIOUS
  <2>5. DOMAIN new \cap S = {}
    BY <2>2, <2>4
  <2>6. tx'[t].pc = "in front" /\ tx'[t].fit = tx[t].fit /\ Leaves(t, S)
    BY <2>1, <2>3, <2>5, ChangeLeaves
  <2> QED
    BY <2>4, <2>6
<1>4. ASSUME NEW v, Change(t, Version(Sent(t).address, v), To(t, next))
      PROVE  tx'[t].pc = next /\ tx'[t].fit = tx[t].fit /\ Leaves(t, Rows \ Addresses)
  <2>1. Sent(t).address \notin Rows \ Addresses
    BY <1>2 DEF Sent
  <2> QED
    BY <1>4, <2>1, VersionToHas, HasLeaves
<1>5. ASSUME NEW pc, Look(t, To(t, pc))
      PROVE  tx'[t].pc = pc /\ tx'[t].fit = tx[t].fit /\ Leaves(t, Rows \ Addresses)
  BY <1>5, LookToHas
<1> QED
  BY <1>1, <1>3, <1>4, <1>5 DEF insert_address

\* A step of t.
Acts(t) ==
    \/ FormStep(t) \/ CustomerStep(t) \/ BookingStep(t) \/ CampaignStep(t, GiftLines(t)) \/ GiftStep(t)
    \/ OrderStep(t) \/ update_batch_pricing(t) \/ Finish(t) \/ Refuse(t)

\* The form of a kind that has one.
LEMMA FormsOf ==
    ASSUME DInv, NEW t \in Requests, FormStep(t)
    PROVE  job[t].do \in {"save", "pay"}
<1>1. CASE OpenForm(t)
  BY <1>1 DEF OpenForm, Do
<1>2. CASE tx[t].pc = "save"
  BY <1>2, About DEF Knows, Stands
<1> QED
  BY <1>1, <1>2 DEF FormStep, LockForm, RefuseStale, At

\* Each kind has its handler.
LEMMA HandlerOf ==
    ASSUME DInv, NEW t \in Requests, Acts(t), ~Finish(t), ~Refuse(t)
    PROVE  /\ job[t].do = "place" => create_online_order(t)
           /\ job[t].do = "draft" => save_draft(t)
           /\ job[t].do = "checkout" => checkout_pos_sale(t)
           /\ job[t].do = "pay partner" => create_partner_payment(t)
           /\ job[t].do = "promise" => create_campaign_deliverable(t)
           /\ job[t].do = "plan" => create_campaign(t, GiftLines(t))
           /\ job[t].do = "remove" => delete_campaign_deliverable(t)
           /\ job[t].do = "add" => add_order_gift(t)
           /\ job[t].do = "draft gift" => create_giveaway(t)
           /\ job[t].do = "give" => give_giveaway(t)
           /\ job[t].do = "register" => create_customer(t)
           /\ job[t].do = "book" => create_pre_order(t)
           /\ job[t].do = "save" =>
                \/ FormStep(t) \/ update_customer_details(t) \/ update_pre_order(t) \/ update_campaign(t, GiftLines(t))
                \/ update_campaign_deliverable(t) \/ update_partner_details(t) \/ edit_online_order(t)
<1>1. FormStep(t) => job[t].do \in {"save", "pay"}
  BY FormsOf
<1>2. CustomerStep(t) => job[t].do \in {"register", "address", "retire", "redirect", "flag", "save"}
                         /\ (job[t].do = "save" => update_customer_details(t)) /\ (job[t].do = "register" => create_customer(t))
  BY DEF CustomerStep, create_customer, create_customer_address, retire_customer_address, update_customer_address, flag_customer,
         update_customer_details, Asks, Do
<1>3. BookingStep(t) => job[t].do \in {"book", "accept", "call off", "pay back", "save"}
                        /\ (job[t].do = "save" => update_pre_order(t)) /\ (job[t].do = "book" => create_pre_order(t))
  BY DEF BookingStep, create_pre_order, update_pre_order, confirm_pre_order, cancel_pre_order, record_pre_order_refund, Button, Asks, Do
<1>4. CampaignStep(t, GiftLines(t)) =>
            /\ job[t].do \in {"plan", "save", "start", "complete", "cancel", "pay partner", "promise", "remove", "enlist"}
            /\ job[t].do = "plan" => create_campaign(t, GiftLines(t))
            /\ job[t].do = "pay partner" => create_partner_payment(t)
            /\ job[t].do = "promise" => create_campaign_deliverable(t)
            /\ job[t].do = "remove" => delete_campaign_deliverable(t)
            /\ job[t].do = "save" =>
                update_campaign(t, GiftLines(t)) \/ update_campaign_deliverable(t) \/ update_partner_details(t)
  BY DEF CampaignStep, create_campaign, update_campaign, status_change, create_partner_payment, create_campaign_deliverable,
         update_campaign_deliverable, delete_campaign_deliverable, create_partner, update_partner_details, Button, Asks, Do
<1>5. GiftStep(t) =>
            /\ job[t].do \in {"add", "take out", "draft gift", "give", "cancel gift"}
            /\ job[t].do = "add" => add_order_gift(t)
            /\ job[t].do = "draft gift" => create_giveaway(t)
            /\ job[t].do = "give" => give_giveaway(t)
  BY DEF GiftStep, add_order_gift, remove_order_gift, create_giveaway, give_giveaway, cancel_giveaway, Button, Asks, Do
<1>6. OrderStep(t) =>
            /\ job[t].do \in {"place", "save", "draft", "discard", "confirm", "cancel", "dispatch", "deliver", "take back", "checkout"}
            /\ job[t].do = "place" => create_online_order(t)
            /\ job[t].do = "draft" => save_draft(t)
            /\ job[t].do = "checkout" => checkout_pos_sale(t)
            /\ job[t].do = "save" => edit_online_order(t)
  BY DEF OrderStep, create_online_order, edit_online_order, save_draft, discard_draft, confirm_order, cancel_order, dispatchOrder,
         deliverOrder, take_back, checkout_pos_sale, Button, Asks, Do
<1>7. update_batch_pricing(t) => job[t].do = "price"
  BY DEF update_batch_pricing, Do
<1> QED
  BY <1>1, <1>2, <1>3, <1>4, <1>5, <1>6, <1>7 DEF Acts

\* Every step but COMMIT changes what t knows, and nothing else.
LEMMA ActsKeep ==
    ASSUME DInv, NEW t \in Requests, Acts(t), ~Finish(t)
    PROVE  /\ DInv' /\ db' = db /\ job' = job
           /\ \A u \in Requests : u # t => tx'[u] = tx[u]
           /\ \A u \in Requests, r \in Rows : u # t => (u \in shared'[r] <=> u \in shared[r])
<1>1. Goes(t)
  BY FormStepKeeps, CustomerStepKeeps, BookingStepKeeps, CampaignStepKeeps, GiftStepKeeps, OrderStepKeeps, PricingKeeps, RefuseKeeps
  DEF Acts
<1>2. PICK y : Went(t, y)
  BY <1>1 DEF Goes
<1>3. tx' = [tx EXCEPT ![t] = y] /\ db' = db /\ job' = job /\ \A r \in Rows : shared'[r] \ {t} = shared[r] \ {t}
  BY <1>2 DEF Went
<1>4. \A u \in Requests : u # t => tx'[u] = tx[u]
  BY <1>3 DEF DInv
<1> QED
  BY <1>1, <1>3, <1>4 DEF Goes

\* After a refusal nothing is left.
LEMMA RefuseHas ==
    ASSUME DInv, NEW t \in Requests, Refuse(t)
    PROVE  tx'[t].pc = "failed" /\ DOMAIN tx'[t].mine = {}
<1>1. PICK y : y = Blank("failed") /\ y.pc = "failed" /\ DOMAIN y.mine = {}
  BY BlankIs
<1>2. tx' = [tx EXCEPT ![t] = y]
  BY <1>1, RefuseIs DEF Went
<1> QED
  BY <1>1, <1>2 DEF DInv

LEMMA NextActs == ASSUME [Next]_vars PROVE UNCHANGED vars \/ \E t \in Requests : Acts(t)
BY NextIs DEF Acts

-----------------------------------------------------------------------------
(* Numbers *)

\* Whoever adds an order holds the invoice desk, and has counted the orders there are.
Mints(rows, x, j) ==
    /\ x.pc = "insert" => InvoiceDesk \in DOMAIN x.mine
    /\ \A o \in Orders \cap DOMAIN x.mine :
        rows[o].is = "None" /\ x.mine[o].is # "None" =>
            InvoiceDesk \in DOMAIN x.mine /\ x.mine[o].number = Cardinality(Existing(rows)) + 1

NumbersInv == Numbered(db) /\ \A t \in Requests : Mints(db, tx[t], job[t])

\* A kind that adds none.
LEMMA OthersMint ==
    ASSUME NEW rows, NEW x, NEW j, Knows(rows, x, j), j.do \notin {"place", "draft", "checkout"}
    PROVE  Mints(rows, x, j)
<1>1. x.pc # "insert"
  BY DEF Knows, Stands
<1>2. \A o \in Orders \cap DOMAIN x.mine : OrderMoves(rows[o], x.mine[o], j, o)
  BY DEF Knows, Fair, Moves
<1> QED
  BY <1>1, <1>2 DEF Mints, OrderMoves, Follows

\* A statement that adds none.
LEMMA MintsOn ==
    ASSUME NEW t, Mints(db, tx[t], job[t]), tx'[t].pc # "insert",
           InvoiceDesk \in DOMAIN tx[t].mine => InvoiceDesk \in DOMAIN tx'[t].mine,
           \A o \in Orders \cap DOMAIN tx'[t].mine :
                LET old == IF o \in DOMAIN tx[t].mine THEN tx[t].mine[o] ELSE db[o]
                IN  (tx'[t].mine[o].is = "None" <=> old.is = "None") /\ tx'[t].mine[o].number = old.number
    PROVE  Mints(db, tx'[t], job[t])
BY DEF Mints

LEMMA MintsLeft ==
    ASSUME NEW t, Mints(db, tx[t], job[t]), tx'[t].pc # "insert", Leaves(t, Orders \cup {InvoiceDesk})
    PROVE  Mints(db, tx'[t], job[t])
<1>1. /\ InvoiceDesk \in DOMAIN tx[t].mine => InvoiceDesk \in DOMAIN tx'[t].mine
      /\ \A o \in Orders \cap DOMAIN tx'[t].mine : o \in DOMAIN tx[t].mine /\ tx'[t].mine[o] = tx[t].mine[o]
  BY DEF Leaves
<1> QED
  BY <1>1 DEF Mints

LEMMA MintsRow ==
    ASSUME DInv, NEW t \in Requests, Mints(db, tx[t], job[t]), tx'[t].pc # "insert", NEW o \in Orders, NEW v, Has(t, o, v) \/ HoldsRow(t, o, v),
           v.is = "None" <=> View(t, o).is = "None", v.number = View(t, o).number
    PROVE  Mints(db, tx'[t], job[t])
<1>1. /\ View(t, o) = IF o \in DOMAIN tx[t].mine THEN tx[t].mine[o] ELSE db[o]
      /\ o # InvoiceDesk /\ TheBatch # InvoiceDesk /\ TheBatch \notin Orders
  BY About, TablesDiffer, RowsAre
<1> QED
  BY <1>1, MintsOn DEF Has, HoldsRow

\* The statements that write the order.
LEMMA WriteOrderMints ==
    ASSUME DInv, NEW t \in Requests, Row(t) \in Orders, Mints(db, tx[t], job[t]), NEW from, NEW draft, NEW header, NEW next,
           HasColumns(header, HeaderColumns), header.is # "None", draft => Own(t).is # "None",
           next \in {"hold", "deduct", "commit"}, WriteOrder(t, from, draft, header, next), ~Refuse(t)
    PROVE  Mints(db, tx'[t], job[t])
<1>1. /\ Row(t) = job[t].row /\ Row(t) \notin {InvoiceDesk} /\ Row(t) \in Rows /\ HasColumns(Own(t), OrderColumns)
      /\ \A o \in Orders : View(t, o).is = "None" => db[o].is = "None"
      /\ \A o \in Orders : OrderMoves(db[o], View(t, o), job[t], o)
  BY OrderIs, TablesDiffer, RowsAre DEF Row, Own
<1>2. DOMAIN header = HeaderColumns
  BY DEF HasColumns
<1>3. CASE draft /\ Change(t, Version(Row(t), Updated(Own(t), header)), To(t, next))
  <2>1. PICK v : v = Updated(Own(t), header)
    OBVIOUS
  <2>2. /\ \A c \in DOMAIN header : c # "version" => v[c] = header[c]
        /\ \A c \in OrderColumns : c \notin DOMAIN header /\ c # "version" => v[c] = Own(t)[c]
    BY <1>1, <1>2, <2>1, UpdatedColumns DEF HeaderColumns
  <2>3. v.is # "None" /\ v.number = Own(t).number
    BY <1>2, <2>2 DEF HeaderColumns, OrderColumns
  <2>4. Has(t, Row(t), v) /\ tx'[t].pc = next
    BY <1>3, <2>1, VersionToHas
  <2> QED
    BY <1>3, <2>3, <2>4, MintsRow DEF Own
<1>4. CASE Look(t, To(t, "number"))
  BY <1>4, LookToHas, MintsLeft
<1>5. CASE At(t, "number") /\ TakeNumber(t, "insert")
  <2>1. Has(t, InvoiceDesk, 0)
    BY <1>5, VersionToHas DEF TakeNumber
  <2> QED
    BY <1>1, <2>1, TablesDiffer DEF Has, Mints
<1>6. CASE /\ At(t, "insert") /\ IsNew(t, Row(t))
           /\ Change(t, Version(Row(t), header ++ [number |-> nextInvoiceNo(t), by |-> By(t), version |-> 1]), To(t, next))
  <2>1. PICK g, v : g = [number |-> nextInvoiceNo(t), by |-> By(t), version |-> 1] /\ v = header ++ g /\ Newest(v, header, g)
    BY NewestCounts
  <2>2. DOMAIN g = {"number", "by", "version"} /\ g.number = nextInvoiceNo(t)
    BY <2>1
  <2>3. v.number = nextInvoiceNo(t)
    BY <1>2, <2>1, <2>2 DEF Newest, HeaderColumns
  <2>4. View(t, Row(t)).is = "None" /\ db[Row(t)].is = "None"
    BY <1>1, <1>6 DEF IsNew
  <2>5. \A o \in Orders : View(t, o).is = "None" <=> db[o].is = "None"
    BY <1>1, <2>4 DEF OrderMoves, Follows
  <2>6. nextInvoiceNo(t) = Cardinality(Existing(db)) + 1
    <3>1. {o \in Orders : View(t, o).is # "None"} = Existing(db)
      BY <2>5 DEF Existing
    <3> QED
      BY <3>1 DEF nextInvoiceNo
  <2>7. Has(t, Row(t), v) /\ tx'[t].pc = next
    BY <1>6, <2>1, VersionToHas
  <2>8. InvoiceDesk \in DOMAIN tx[t].mine
    BY <1>6 DEF Mints, At
  <2> QED
    BY <1>1, <2>3, <2>6, <2>7, <2>8 DEF Has, Mints
<1> QED
  BY <1>3, <1>4, <1>5, <1>6 DEF WriteOrder

LEMMA PlaceMints ==
    ASSUME DInv, NEW t \in Requests, Mints(db, tx[t], job[t]), create_online_order(t), ~Refuse(t)
    PROVE  Mints(db, tx'[t], job[t])
<1> DEFINE S == Orders \cup {InvoiceDesk}
<1> DEFINE b == BookingOf(t)
<1>1. /\ job[t].do = "place" /\ Row(t) = job[t].row /\ Row(t) \in Orders /\ ~Editing(t) /\ Sent(t) = job[t].to
      /\ b = job[t].to.booking
  BY DEF create_online_order, Asks, Do, Row, Editing, Sent, BookingOf
<1>2. Form(job[t])
  BY About
<1>3. b \in PreOrders \cup {NoOrder} /\ Seeks(job[t])
  BY <1>1, <1>2 DEF Form, Seeks, Sells
<1>4. S \subseteq Elsewhere /\ S \subseteq Rows \ Addresses /\ TheBatch \notin S /\ PreOrders \cap S = {} /\ Customers \cap S = {}
  BY TablesDiffer, RowsAre DEF Elsewhere, CustomerRows
<1>5. \A T : S \subseteq T /\ Leaves(t, T) => Leaves(t, S)
  BY DEF Leaves
<1>6. ASSUME NEW from, NEW next \in {"find"}, price_lines(t, from, next)
      PROVE  Mints(db, tx'[t], job[t])
  BY <1>6, LookToHas, MintsLeft DEF price_lines, Check
<1>7. ASSUME NEW r, r \notin S, NEW v, NEW pc, pc # "insert", Change(t, Version(r, v), To(t, pc))
      PROVE  Mints(db, tx'[t], job[t])
  BY <1>7, VersionToHas, HasLeaves, MintsLeft
<1>8. CASE b # NoOrder /\ lockBooking(t, b, "price")
  <2>1. b \notin S
    BY <1>3, <1>4, <1>8
  <2> QED
    BY <1>7, <1>8, <2>1 DEF lockBooking
<1>9. CASE find_or_create_customer(t, "find", "customer")
  <2>1. tx'[t].pc \in {"customer", "register", "find again"} /\ Leaves(t, Elsewhere)
    BY <1>3, <1>9, FinderHas
  <2> QED
    BY <1>4, <1>5, <2>1, MintsLeft
<1>10. CASE At(t, "customer") /\ LockBuyer(t, Customer(t), IF Sent(t).saved = Nobody THEN "address" ELSE "header")
  <2>1. Customer(t) \notin S
    BY <1>4, <1>10, About DEF Knows, Stands, At, Customer
  <2>2. PICK pc, v : pc \in {"address", "header"} /\ Change(t, Version(Customer(t), v), To(t, pc))
    BY <1>10 DEF LockBuyer
  <2> QED
    BY <1>7, <2>1, <2>2
<1>11. CASE insert_address(t, "header")
  <2>1. PICK next : next = "header" /\ insert_address(t, next)
    BY <1>11
  <2>2. tx'[t].pc \in {"step down", "beside", "in front", next} /\ Leaves(t, Rows \ Addresses)
    BY <2>1, InsertHas
  <2> QED
    BY <1>4, <1>5, <2>1, <2>2, MintsLeft
<1>12. CASE WriteOrder(t, "header", IF Editing(t) THEN Own(t).is = "Pending" ELSE Draft(t, "ONLINE"),
                       Header(t, "Pending", "ONLINE", Customer(t), b), "hold")
  <2>1. PICK h : h = Header(t, "Pending", "ONLINE", Customer(t), b) /\ HasColumns(h, HeaderColumns) /\ h.is = "Pending"
    BY HeaderIs
  <2>2. PICK draft : draft = Draft(t, "ONLINE") /\ WriteOrder(t, "header", draft, h, "hold")
    BY <1>1, <1>12, <2>1
  <2>3. draft => Own(t).is # "None"
    BY <2>2 DEF Draft
  <2> QED
    BY <1>1, <2>1, <2>2, <2>3, WriteOrderMints
<1>13. CASE holdStock(t, Sent(t).units, Version(Row(t), [Own(t) EXCEPT !.held = Sent(t).units]),
                      IF b = NoOrder \/ Editing(t) THEN "commit" ELSE "convert")
  <2>1. PICK pc, v : /\ pc \in {"commit", "convert"} /\ v = [Own(t) EXCEPT !.held = Sent(t).units]
                     /\ holdStock(t, Sent(t).units, Version(Row(t), v), pc)
    BY <1>13
  <2>2. Fair(db, Row(t), Own(t), job[t])
    BY <1>1, OrderIs DEF Own
  <2>3. Follows(Own(t), v)
    BY <1>1, <2>1, <2>2, OrderHold
  <2>4. tx'[t].pc = pc /\ HoldsRow(t, Row(t), v)
    BY <2>1, HoldHas
  <2> QED
    BY <1>1, <2>1, <2>3, <2>4, MintsRow DEF Follows, Own
<1>14. CASE At(t, "convert") /\ convertBooking(t, b, Row(t), "commit")
  <2>1. Stands(db, tx[t], job[t])
    BY About DEF Knows
  <2>3. b \notin S
    BY <1>1, <1>4, <1>14, <2>1 DEF Stands, At
  <2>2. PICK v : Change(t, Version(b, v), To(t, "commit"))
    BY <1>14 DEF convertBooking
  <2> QED
    BY <1>7, <2>2, <2>3
<1> QED
  BY <1>6, <1>8, <1>9, <1>10, <1>11, <1>12, <1>13, <1>14 DEF create_online_order, write_online_order

LEMMA DraftMints ==
    ASSUME DInv, NEW t \in Requests, Mints(db, tx[t], job[t]), save_draft(t), ~Refuse(t)
    PROVE  Mints(db, tx'[t], job[t])
<1>1. Row(t) \in Orders /\ WriteOrder(t, "begin", Draft(t, Sent(t).channel), DraftHeader(t, Sent(t).channel), "commit")
  BY DEF save_draft, Asks
<1>2. PICK h : h = DraftHeader(t, Sent(t).channel) /\ HasColumns(h, HeaderColumns) /\ h.is = "Draft"
  <2>1. PICK h : h = DraftHeader(t, Sent(t).channel)
    OBVIOUS
  <2>2. HasColumns(h, HeaderColumns) /\ h.is = "Draft"
    BY <2>1 DEF DraftHeader, HasColumns, HeaderColumns, OrderColumns
  <2> QED
    BY <2>1, <2>2
<1>3. PICK draft : draft = Draft(t, Sent(t).channel) /\ WriteOrder(t, "begin", draft, h, "commit")
  BY <1>1, <1>2
<1>4. draft => Own(t).is # "None"
  BY <1>3 DEF Draft
<1> QED
  BY <1>1, <1>2, <1>3, <1>4, WriteOrderMints

LEMMA CheckoutMints ==
    ASSUME DInv, NEW t \in Requests, Mints(db, tx[t], job[t]), checkout_pos_sale(t), ~Refuse(t)
    PROVE  Mints(db, tx'[t], job[t])
<1> DEFINE S == Orders \cup {InvoiceDesk}
<1> DEFINE customer == IF Sent(t).phone = Nobody THEN Nobody ELSE Customer(t)
<1>1. /\ job[t].do = "checkout" /\ Row(t) = job[t].row /\ Row(t) \in Orders /\ Sent(t) = job[t].to
  BY DEF checkout_pos_sale, Asks, Do, Row, Sent
<1>2. Form(job[t]) /\ Stands(db, tx[t], job[t])
  BY About DEF Knows
<1>4. S \subseteq Elsewhere /\ TheBatch \notin S
  BY TablesDiffer, RowsAre DEF Elsewhere, CustomerRows
<1>5. \A T : S \subseteq T /\ Leaves(t, T) => Leaves(t, S)
  BY DEF Leaves
<1>6. CASE price_lines(t, "begin", IF Sent(t).phone = Nobody THEN "sale" ELSE "find")
  <2>1. PICK pc \in {"sale", "find"} : Look(t, To(t, pc))
    BY <1>6 DEF price_lines, Check
  <2> QED
    BY <2>1, LookToHas, MintsLeft
<1>7. CASE find_or_create_customer(t, "find", "sale")
  <2>1. tx[t].pc \in {"find", "register", "find again"}
    BY <1>7 DEF find_or_create_customer, At
  <2>2. Seeks(job[t])
    BY <1>1, <1>2, <2>1 DEF Seeks, Form, Stands, Sells
  <2>3. tx'[t].pc \in {"sale", "register", "find again"} /\ Leaves(t, Elsewhere)
    BY <1>7, <2>2, FinderHas
  <2> QED
    BY <1>4, <1>5, <2>3, MintsLeft
<1>8. CASE WriteOrder(t, "sale", Draft(t, "POS") /\ Own(t).by = By(t), Header(t, "Purchased", "POS", customer, NoOrder), "deduct")
  <2>1. PICK h : h = Header(t, "Purchased", "POS", customer, NoOrder) /\ HasColumns(h, HeaderColumns) /\ h.is = "Purchased"
    BY HeaderIs
  <2>2. PICK draft : draft = (Draft(t, "POS") /\ Own(t).by = By(t)) /\ WriteOrder(t, "sale", draft, h, "deduct")
    BY <1>8, <2>1
  <2>3. draft => Own(t).is # "None"
    BY <2>2 DEF Draft
  <2> QED
    BY <1>1, <2>1, <2>2, <2>3, WriteOrderMints
<1>9. CASE deductFreeStock(t, Sent(t).units, "commit")
  <2>1. tx'[t].pc = "commit" /\ Leaves(t, S)
    BY <1>4, <1>9, DeductHas
  <2> QED
    BY <2>1, MintsLeft
<1> QED
  BY <1>6, <1>7, <1>8, <1>9 DEF checkout_pos_sale

\* What t publishes: nothing, or one order, numbered next.
LEMMA CommitMints ==
    ASSUME DInv, NumbersInv, NEW t \in Requests, Finish(t), IsFiniteSet(Orders)
    PROVE  NumbersInv'
<1>1. /\ job' = job /\ tx'[t] = Blank("done") /\ \A u \in Requests : u # t => tx'[u] = tx[u]
      /\ \A r \in Rows : db'[r] = IF r \in DOMAIN tx[t].mine THEN tx[t].mine[r] ELSE db[r]
      /\ \A u \in Requests : u # t => \A r \in DOMAIN tx[u].mine : db'[r] = db[r]
  BY FinishIs
<1>2. Mints(db, tx[t], job[t]) /\ Numbered(db) /\ Orders \subseteq Rows
  BY RowsAre DEF NumbersInv
<1>3. \A o \in Orders \cap DOMAIN tx[t].mine : OrderMoves(db[o], tx[t].mine[o], job[t], o)
  BY About DEF Knows, Fair, Moves
<1>4. IsFiniteSet(Existing(db)) /\ Cardinality(Existing(db)) \in Nat
  BY FS_Subset, FS_CardinalityType DEF Existing
<1>5. \A o \in Existing(db) : o \in Existing(db') /\ db'[o].number = db[o].number
  BY <1>1, <1>2, <1>3 DEF Existing, OrderMoves, Follows
<1>6. \A o \in Existing(db') \ Existing(db) :
        o = job[t].row /\ InvoiceDesk \in DOMAIN tx[t].mine /\ db'[o].number = Cardinality(Existing(db)) + 1
  BY <1>1, <1>2, <1>3 DEF Existing, OrderMoves, Follows, Mints
<1>7. CASE Existing(db') \subseteq Existing(db)
  <2>1. Existing(db') = Existing(db)
    BY <1>5, <1>7
  <2>2. Numbered(db')
    BY <1>2, <1>5, <2>1 DEF Numbered
  <2>3. ASSUME NEW u \in Requests
        PROVE  Mints(db', tx'[u], job'[u])
    <3>1. CASE u = t
      <4>1. tx'[u].pc = "done" /\ DOMAIN tx'[u].mine = {}
        BY <1>1, <3>1, BlankIs
      <4> QED
        BY <4>1 DEF Mints
    <3>2. CASE u # t
      <4>1. Mints(db, tx[u], job[u])
        BY DEF NumbersInv
      <4> QED
        BY <1>1, <2>1, <3>2, <4>1 DEF Mints
    <3> QED
      BY <3>1, <3>2
  <2> QED
    BY <2>2, <2>3 DEF NumbersInv
<1>8. ASSUME NEW o \in Existing(db') \ Existing(db)
      PROVE  NumbersInv'
  <2>1. Existing(db') = Existing(db) \cup {o} /\ o \notin Existing(db)
    BY <1>5, <1>6, <1>8
  <2>2. Cardinality(Existing(db')) = Cardinality(Existing(db)) + 1
    BY <1>4, <2>1, FS_AddElement
  <2>3. Numbered(db')
    <3>1. db'[o].number = Cardinality(Existing(db)) + 1
      BY <1>6
    <3>2. \A p \in Existing(db) : db'[p].number \in 1..Cardinality(Existing(db))
      BY <1>2, <1>5 DEF Numbered
    <3>3. \A p \in Existing(db') : db'[p].number \in 1..Cardinality(Existing(db'))
      BY <1>4, <2>1, <2>2, <3>1, <3>2
    <3>4. \A p, q \in Existing(db') : p # q => db'[p].number # db'[q].number
      BY <1>2, <1>4, <1>5, <2>1, <3>1, <3>2 DEF Numbered
    <3> QED
      BY <3>3, <3>4 DEF Numbered
  <2>4. ASSUME NEW u \in Requests
        PROVE  Mints(db', tx'[u], job'[u])
    <3>1. CASE u = t
      <4>1. tx'[u].pc = "done" /\ DOMAIN tx'[u].mine = {}
        BY <1>1, <3>1, BlankIs
      <4> QED
        BY <4>1 DEF Mints
    <3>2. CASE u # t
      <4>1. Mints(db, tx[u], job[u]) /\ InvoiceDesk \notin DOMAIN tx[u].mine
        BY <1>6, <3>2, Apart DEF NumbersInv
      <4> QED
        BY <1>1, <3>2, <4>1 DEF Mints
    <3> QED
      BY <3>1, <3>2
  <2> QED
    BY <2>3, <2>4 DEF NumbersInv
<1> QED
  BY <1>7, <1>8

LEMMA NumbersKept ==
    ASSUME DInv, NumbersInv, [Next]_vars, IsFiniteSet(Orders)
    PROVE  NumbersInv'
<1>1. CASE UNCHANGED vars
  BY <1>1 DEF vars, NumbersInv
<1>2. ASSUME NEW t \in Requests, Acts(t), ~Finish(t)
      PROVE  NumbersInv'
  <2>1. DInv' /\ db' = db /\ job' = job /\ \A u \in Requests : u # t => tx'[u] = tx[u]
    BY <1>2, ActsKeep
  <2>2. Mints(db, tx[t], job[t])
    BY DEF NumbersInv
  <2>3. Mints(db, tx'[t], job[t])
    <3>1. CASE job[t].do \notin {"place", "draft", "checkout"}
      <4>1. Knows(db, tx'[t], job[t])
        BY <2>1 DEF DInv
      <4> QED
        BY <3>1, <4>1, OthersMint
    <3>2. CASE Refuse(t)
      BY <3>2, RefuseHas DEF Mints
    <3>3. CASE job[t].do \in {"place", "draft", "checkout"} /\ ~Refuse(t)
      BY <1>2, <2>2, <3>3, HandlerOf, PlaceMints, DraftMints, CheckoutMints
    <3> QED
      BY <3>1, <3>2, <3>3
  <2>4. \A u \in Requests : Mints(db', tx'[u], job'[u])
    BY <2>1, <2>3 DEF NumbersInv
  <2>5. Numbered(db')
    BY <2>1 DEF NumbersInv
  <2> QED
    BY <2>4, <2>5 DEF NumbersInv
<1> QED
  BY <1>1, <1>2, CommitMints, NextActs

\* No two orders of a day have one number, however many are sold at once.
THEOREM NumbersNeverRepeat == Spec => []NumbersDiffer
<1>1. Init => DInv /\ NumbersInv
  <2> SUFFICES ASSUME Init PROVE DInv /\ NumbersInv
    OBVIOUS
  <2>1. DInv /\ Opening(db) /\ \A t \in Requests : tx[t] = Blank("begin")
    BY StartIs
  <2>2. ASSUME NEW t \in Requests
        PROVE  Mints(db, tx[t], job[t])
    <3>1. tx[t].pc = "begin" /\ DOMAIN tx[t].mine = {}
      BY <2>1, BlankIs
    <3> QED
      BY <3>1 DEF Mints
  <2> QED
    BY <2>1, <2>2 DEF NumbersInv, Opening
<1>2. (DInv /\ NumbersInv) /\ [Next]_vars => (DInv /\ NumbersInv)'
  BY NextKeeps, NumbersKept, ShelfAssumption
<1>3. NumbersInv => NumbersDiffer
  BY DEF NumbersInv, Numbered, Existing, NumbersDiffer
<1> QED
  BY <1>1, <1>2, <1>3, PTL DEF Spec

-----------------------------------------------------------------------------
(* The lines of campaigns *)

Pays(j) == j.do = "pay partner"
DraftsGift(j) == j.do = "draft gift"

\* What refers to a line: a payment, a promise that stands, a gift.
RecordOn(r, v, l) ==
    \/ r \in Payments /\ v.is = "Paid" /\ v.line = l
    \/ r \in Deliverables /\ v.is \notin {"None", "Removed"} /\ v.line = l
    \/ r \in Gifts /\ v.is # "None" /\ v.line = l

Unrecorded(rows, l) == \A r \in Rows : ~RecordOn(r, rows[r], l)

\* The line is there, and t keeps it from being taken off.
Keeps(rows, sh, t, x, l) == rows[l].is = "On" /\ (l \in DOMAIN x.mine \/ t \in sh[l])

\* A record t adds is on a line t keeps; a gift is drafted just before its line is looked at.
RecordsHeld(rows, sh, t, x, j) ==
    \A r \in DOMAIN x.mine, l \in Lines :
        RecordOn(r, x.mine[r], l) /\ ~RecordOn(r, rows[r], l) =>
            Keeps(rows, sh, t, x, l) \/ (DraftsGift(j) /\ x.pc = "line")

\* Whoever changes a line has its campaign, and takes off none with a record.
LinesHeld(rows, x, j) ==
    \A l \in Lines \cap DOMAIN x.mine :
        /\ x.mine[l] # rows[l] => j.row \in DOMAIN x.mine
        /\ x.mine[l].is = "Off" /\ rows[l].is = "On" => Unrecorded(rows, l)

\* Between its statements a campaign's form has the campaign, then every line of it, then knows of each
\* that its partner stays or that nothing refers to it.
Arranging(rows, x, j) ==
    /\ x.pc \in {"partners", "lines", "records", "write"} => j.row \in DOMAIN x.mine
    /\ x.pc \in {"records", "write"} =>
        \A l \in Lines : rows[l].is = "On" /\ rows[l].campaign = j.row =>
            /\ l \in DOMAIN x.mine
            /\ x.pc = "write" => rows[l].partner \in DOMAIN j.to.fees \/ Unrecorded(rows, l)

\* What is about to be recorded is on a line that is kept.
Recording(rows, sh, t, x, j) ==
    /\ Pays(j) /\ x.pc = "write" => Keeps(rows, sh, t, x, j.to.line)
    /\ j.do = "promise" /\ x.pc = "write" => Keeps(rows, sh, t, x, j.to)
    /\ j.do = "save" /\ j.row \in Deliverables =>
        /\ x.pc \in {"check", "line", "write"} => j.row \in DOMAIN x.mine
        /\ x.pc = "write" => Keeps(rows, sh, t, x, x.mine[j.row].line)

Refers(rows, sh, t, x, j) ==
    /\ RecordsHeld(rows, sh, t, x, j) /\ LinesHeld(rows, x, j)
    /\ Arranges(j) => Arranging(rows, x, j)
    /\ Recording(rows, sh, t, x, j)

LinesInv == RecordsKept(db) /\ \A t \in Requests : Refers(db, shared, t, tx[t], job[t])

\* A row that refers to a line refers to one there is.
LEMMA RecordsAre ==
    ASSUME NEW d, \A r \in Rows : Fits(r, d[r])
    PROVE  RecordsKept(d) <=> \A r \in Rows, l \in Lines : RecordOn(r, d[r], l) => d[l].is = "On"
<1>1. ASSUME RecordsKept(d), NEW r \in Rows, NEW l \in Lines, RecordOn(r, d[r], l)
      PROVE  d[l].is = "On"
  BY <1>1, TablesDiffer DEF RecordsKept, RecordOn
<1>2. ASSUME \A r \in Rows, l \in Lines : RecordOn(r, d[r], l) => d[l].is = "On"
      PROVE  RecordsKept(d)
  BY <1>2, RowsAre DEF RecordsKept, RecordOn, Fits
<1> QED
  BY <1>1, <1>2

\* Who adds a record: whoever pays, promises, changes a promise or drafts a gift, about one row; nobody
\* who arranges a campaign.
LEMMA NewRecord ==
    ASSUME NEW rows, NEW x, NEW j, Knows(rows, x, j), Form(j), NEW r, NEW l, r \in DOMAIN x.mine, l \in Lines,
           RecordOn(r, x.mine[r], l), ~RecordOn(r, rows[r], l)
    PROVE  /\ r = j.row /\ ~Arranges(j)
           /\ \/ Pays(j) /\ r \in Payments
              \/ j.do \in {"promise", "save", "remove"} /\ r \in Deliverables
              \/ DraftsGift(j) /\ r \in Gifts
           /\ Pays(j) \/ DraftsGift(j) => l = j.to.line
           /\ j.do = "promise" => l = j.to
           /\ l = x.mine[r].line
<1>1. Moves(r, rows[r], x.mine[r], j)
  BY DEF Knows, Fair
<1>0. Pays(j) \/ DraftsGift(j) => j.do # "promise"
  BY DEF Pays, DraftsGift
<1>2. r \in Payments => r = j.row /\ Pays(j) /\ l = j.to.line
  <2>1. r \in Payments => PaymentMoves(rows[r], x.mine[r], j, r) /\ x.mine[r].line = l /\ x.mine[r] # rows[r]
    BY <1>1, TablesDiffer, RowsAre DEF Moves, RecordOn
  <2> QED
    BY <2>1 DEF PaymentMoves, Pays
<1>3. r \in Deliverables =>
        r = j.row /\ ((j.do = "promise" /\ l = j.to) \/ (j.do \in {"save", "remove"} /\ l = x.mine[r].line))
  BY <1>1, TablesDiffer, RowsAre DEF Moves, DeliverableMoves, RecordOn
<1>4. ASSUME r \in Gifts
      PROVE  r = j.row /\ DraftsGift(j) /\ l = j.to.line
  <2>1. /\ GiftMoves(rows[r], x.mine[r], j, r) /\ ~(rows[r].is # "None" /\ rows[r].line = l)
        /\ x.mine[r].is # "None" /\ x.mine[r].line = l
    BY <1>1, <1>4, TablesDiffer, RowsAre DEF Moves, RecordOn
  <2>2. j.do \in {"add", "draft gift"} /\ r = j.row /\ x.mine[r].line = j.to.line
    BY <2>1 DEF GiftMoves
  <2>3. j.do # "add"
    BY <2>1, <2>2, TablesDiffer DEF Form
  <2> QED
    BY <2>1, <2>2, <2>3 DEF DraftsGift
<1>5. r = j.row
  BY <1>2, <1>3, <1>4 DEF RecordOn
<1>6. ~Arranges(j)
  BY <1>5, TablesDiffer, RowsAre DEF Arranges, RecordOn
<1>7. l = x.mine[r].line /\ ~(r \in Payments \cap Deliverables) /\ ~(r \in Gifts \cap (Payments \cup Deliverables))
  BY TablesDiffer, RowsAre DEF RecordOn
<1>8. r \in Payments \cup Deliverables \cup Gifts
  BY DEF RecordOn
<1> QED
  BY <1>0, <1>2, <1>3, <1>4, <1>6, <1>7, <1>8 DEF Pays, DraftsGift

\* A line is only changed by whoever arranges a campaign.
LEMMA LinesStay ==
    ASSUME NEW rows, NEW x, NEW j, Knows(rows, x, j), ~Arranges(j)
    PROVE  LinesHeld(rows, x, j)
<1>1. \A l \in Lines \cap DOMAIN x.mine : x.mine[l] = rows[l]
  BY DEF Knows, Fair, Moves, LineMoves
<1> QED
  BY <1>1 DEF LinesHeld

\* Kinds that neither record nor arrange anything.
Records(j) ==
    Pays(j) \/ DraftsGift(j) \/ j.do \in {"promise", "remove"} \/ (j.do = "save" /\ j.row \in Deliverables)

LEMMA OthersRefer ==
    ASSUME NEW rows, NEW sh, NEW t, NEW x, NEW j, Knows(rows, x, j), Form(j), ~Arranges(j), ~Records(j)
    PROVE  Refers(rows, sh, t, x, j)
<1>1. RecordsHeld(rows, sh, t, x, j)
  BY NewRecord DEF RecordsHeld, Records
<1>2. LinesHeld(rows, x, j)
  BY LinesStay
<1> QED
  BY <1>1, <1>2 DEF Refers, Recording, Records

\* A request that knows nothing.
LEMMA BlankRefers ==
    ASSUME NEW rows, NEW sh, NEW t, NEW x, NEW j, DOMAIN x.mine = {}, x.pc \in {"begin", "done", "failed"}
    PROVE  Refers(rows, sh, t, x, j)
BY DEF Refers, RecordsHeld, LinesHeld, Arranging, Recording

\* The rows that refer to lines.
RecordRows == Payments \cup Deliverables \cup Gifts

\* t keeps every line it kept.
StillKeeps(t) ==
    \A l \in Lines : /\ l \in DOMAIN tx[t].mine => l \in DOMAIN tx'[t].mine
                     /\ t \in shared[l] => t \in shared'[l]

LEMMA KeptOn ==
    ASSUME NEW t, NEW l \in Lines, Keeps(db, shared, t, tx[t], l), StillKeeps(t)
    PROVE  Keeps(db, shared', t, tx'[t], l)
BY DEF Keeps, StillKeeps

\* A statement that records nothing.
LEMMA RecordsOn ==
    ASSUME NEW t, RecordsHeld(db, shared, t, tx[t], job[t]), Leaves(t, RecordRows), StillKeeps(t),
           ~(DraftsGift(job[t]) /\ tx[t].pc = "line")
    PROVE  RecordsHeld(db, shared', t, tx'[t], job[t])
<1>1. ASSUME NEW r \in DOMAIN tx'[t].mine, NEW l \in Lines, RecordOn(r, tx'[t].mine[r], l), ~RecordOn(r, db[r], l)
      PROVE  Keeps(db, shared', t, tx'[t], l)
  <2>1. r \in RecordRows
    BY <1>1 DEF RecordOn, RecordRows
  <2>2. r \in DOMAIN tx[t].mine /\ tx'[t].mine[r] = tx[t].mine[r]
    BY <2>1 DEF Leaves
  <2>3. Keeps(db, shared, t, tx[t], l)
    BY <1>1, <2>2 DEF RecordsHeld
  <2> QED
    BY <2>3, KeptOn
<1> QED
  BY <1>1 DEF RecordsHeld

\* A line is locked as it is, or a row of another table is written.
LEMMA HasKeeps ==
    ASSUME NEW t, NEW r, NEW v, Has(t, r, v), shared' = shared
    PROVE  StillKeeps(t) /\ (r \notin RecordRows => Leaves(t, RecordRows))
BY HasLeaves DEF Has, StillKeeps

LEMMA LookKeepsLines ==
    ASSUME DInv, NEW t \in Requests, NEW pc, Look(t, To(t, pc))
    PROVE  tx'[t].pc = pc /\ StillKeeps(t) /\ Leaves(t, RecordRows)
<1>1. tx'[t].pc = pc /\ tx'[t].mine = tx[t].mine /\ shared' = shared
  BY LookToHas DEF Look
<1> QED
  BY <1>1 DEF StillKeeps, Leaves

\* Who arranges nothing needs no more than that.
LEMMA RefersIf ==
    ASSUME NEW t, Knows(db, tx'[t], job[t]), ~Arranges(job[t]), RecordsHeld(db, shared', t, tx'[t], job[t]),
           Recording(db, shared', t, tx'[t], job[t])
    PROVE  Refers(db, shared', t, tx'[t], job[t])
BY LinesStay DEF Refers

LEMMA FormHas ==
    ASSUME DInv, NEW t \in Requests, FormStep(t), ~Refuse(t)
    PROVE  /\ shared' = shared
           /\ \/ tx'[t].pc = "save" /\ tx'[t].mine = tx[t].mine
              \/ tx'[t].pc = "check" /\ Has(t, Row(t), db[Row(t)])
<1>1. CASE OpenForm(t)
  <2>1. PICK x, y : x = To(t, "save") /\ y = [x EXCEPT !.seen = db[Row(t)].version] /\ Look(t, y)
    BY <1>1 DEF OpenForm
  <2>2. x.pc = "save" /\ x.mine = tx[t].mine /\ IsTx(x)
    BY <2>1, ToIs
  <2>3. y.pc = "save" /\ y.mine = tx[t].mine
    BY <2>1, <2>2, WithSeen
  <2> QED
    BY <2>1, <2>3, LookHas DEF Look
<1>2. CASE LockForm(t)
  <2>1. Change(t, Version(Row(t), db[Row(t)]), To(t, "check"))
    BY <1>2 DEF LockForm
  <2> QED
    BY <2>1, VersionToHas DEF Change
<1> QED
  BY <1>1, <1>2 DEF FormStep, RefuseStale

LEMMA FindLineHas ==
    ASSUME DInv, NEW t \in Requests, NEW from, NEW l, FindLine(t, from, l, "line"), ~Refuse(t)
    PROVE  tx[t].pc = from /\ tx'[t].pc = "line" /\ tx'[t].mine = tx[t].mine /\ StillKeeps(t) /\ Leaves(t, RecordRows)
<1>1. PICK x, fit, y : x = To(t, "line") /\ y = [x EXCEPT !.fit = fit] /\ Look(t, y)
  BY DEF FindLine
<1>2. x.pc = "line" /\ x.mine = tx[t].mine /\ IsTx(x)
  BY <1>1, ToIs
<1>3. y.pc = "line" /\ y.mine = tx[t].mine
  BY <1>1, <1>2, WithFit
<1>4. tx'[t] = y /\ shared' = shared
  BY <1>1, <1>3, LookHas DEF Look
<1> QED
  BY <1>3, <1>4 DEF FindLine, At, StillKeeps, Leaves

LEMMA LockLineHas ==
    ASSUME DInv, NEW t \in Requests, NEW l \in Lines, ~Arranges(job[t]), LockLine(t, "line", l, "write"), ~Refuse(t)
    PROVE  /\ tx[t].pc = "line" /\ tx'[t].pc = "write" /\ Has(t, l, View(t, l)) /\ StillKeeps(t) /\ Leaves(t, RecordRows)
           /\ Keeps(db, shared', t, tx'[t], l)
<1>1. tx[t].pc = "line" /\ View(t, l).is = "On" /\ Change(t, Version(l, View(t, l)), To(t, "write"))
  BY DEF LockLine, At
<1>2. tx'[t].pc = "write" /\ Has(t, l, View(t, l)) /\ shared' = shared
  BY <1>1, VersionToHas DEF Change
<1>3. l \notin RecordRows
  BY TablesDiffer, RowsAre DEF RecordRows
<1>4. db[l].is = "On"
  BY <1>1, LineIs DEF LineMoves
<1> QED
  BY <1>1, <1>2, <1>3, <1>4, HasKeeps DEF Keeps, Has

\* A payment.
LEMMA PaymentRefers ==
    ASSUME DInv, NEW t \in Requests, Refers(db, shared, t, tx[t], job[t]), Knows(db, tx'[t], job[t]),
           create_partner_payment(t), ~Refuse(t)
    PROVE  Refers(db, shared', t, tx'[t], job[t])
<1>1. /\ Pays(job[t]) /\ ~DraftsGift(job[t]) /\ job[t].do \notin {"save", "promise"}
      /\ Row(t) = job[t].row /\ Row(t) \in Payments /\ Sent(t) = job[t].to /\ ~Arranges(job[t])
  BY DEF create_partner_payment, Asks, Do, Row, Sent, Arranges, Pays, DraftsGift
<1>2. Form(job[t]) /\ job[t].to.line \in Lines
  BY <1>1, About DEF Form, Pays
<1>3. RecordsHeld(db, shared, t, tx[t], job[t])
  BY DEF Refers
<1>4. CASE FindLine(t, "begin", Sent(t).line, "line")
  <2>1. tx'[t].pc = "line" /\ StillKeeps(t) /\ Leaves(t, RecordRows)
    BY <1>4, FindLineHas
  <2>2. RecordsHeld(db, shared', t, tx'[t], job[t])
    BY <1>1, <1>3, <2>1, RecordsOn
  <2> QED
    BY <1>1, <2>1, <2>2, RefersIf DEF Recording
<1>5. CASE LockLine(t, "line", Sent(t).line, "write")
  <2>1. /\ tx[t].pc = "line" /\ tx'[t].pc = "write" /\ StillKeeps(t) /\ Leaves(t, RecordRows)
        /\ Keeps(db, shared', t, tx'[t], Sent(t).line)
    BY <1>1, <1>2, <1>5, LockLineHas
  <2>2. RecordsHeld(db, shared', t, tx'[t], job[t])
    BY <1>1, <1>3, <2>1, RecordsOn
  <2> QED
    BY <1>1, <2>1, <2>2, RefersIf DEF Recording
<1>6. CASE Look(t, To(t, "commit"))
  BY <1>1, <1>3, <1>6, LookKeepsLines, RecordsOn, RefersIf DEF Recording
<1>7. ASSUME At(t, "write"), NEW v, Change(t, Version(Row(t), v), To(t, "commit"))
      PROVE  Refers(db, shared', t, tx'[t], job[t])
  <2>1. tx'[t].pc = "commit" /\ StillKeeps(t)
    BY <1>7, VersionToHas, HasKeeps DEF Change
  <2>2. Keeps(db, shared', t, tx'[t], job[t].to.line)
    BY <1>1, <1>2, <1>7, <2>1, KeptOn DEF Refers, Recording, At
  <2>3. RecordsHeld(db, shared', t, tx'[t], job[t])
    <3>1. PICK x, j : x = tx'[t] /\ j = job[t]
      OBVIOUS
    <3>2. Knows(db, x, j) /\ Form(j) /\ Pays(j)
      BY <1>1, <1>2, <3>1
    <3>3. ASSUME NEW r, NEW l, r \in DOMAIN x.mine, l \in Lines, RecordOn(r, x.mine[r], l), ~RecordOn(r, db[r], l)
          PROVE  l = j.to.line
      BY <3>2, <3>3, NewRecord
    <3> QED
      BY <2>2, <3>1, <3>3 DEF RecordsHeld
  <2> QED
    BY <1>1, <2>1, <2>3, RefersIf DEF Recording
<1> QED
  BY <1>4, <1>5, <1>6, <1>7 DEF create_partner_payment

\* A promised post.
LEMMA PromiseRefers ==
    ASSUME DInv, NEW t \in Requests, Refers(db, shared, t, tx[t], job[t]), Knows(db, tx'[t], job[t]),
           create_campaign_deliverable(t), ~Refuse(t)
    PROVE  Refers(db, shared', t, tx'[t], job[t])
<1>1. /\ ~Pays(job[t]) /\ ~DraftsGift(job[t]) /\ job[t].do = "promise"
      /\ Row(t) = job[t].row /\ Row(t) \in Deliverables /\ Sent(t) = job[t].to /\ ~Arranges(job[t])
  BY DEF create_campaign_deliverable, Asks, Do, Row, Sent, Arranges, Pays, DraftsGift
<1>2. Form(job[t]) /\ job[t].to \in Lines
  <2>1. Form(job[t])
    BY About
  <2> QED
    BY <1>1, <2>1 DEF Form
<1>3. RecordsHeld(db, shared, t, tx[t], job[t])
  BY DEF Refers
<1>4. CASE FindLine(t, "begin", Sent(t), "line")
  <2>1. tx'[t].pc = "line" /\ StillKeeps(t) /\ Leaves(t, RecordRows)
    BY <1>4, FindLineHas
  <2>2. RecordsHeld(db, shared', t, tx'[t], job[t])
    BY <1>1, <1>3, <2>1, RecordsOn
  <2> QED
    BY <1>1, <2>1, <2>2, RefersIf DEF Recording
<1>5. CASE LockLine(t, "line", Sent(t), "write")
  <2>1. /\ tx[t].pc = "line" /\ tx'[t].pc = "write" /\ StillKeeps(t) /\ Leaves(t, RecordRows)
        /\ Keeps(db, shared', t, tx'[t], Sent(t))
    BY <1>1, <1>2, <1>5, LockLineHas
  <2>2. RecordsHeld(db, shared', t, tx'[t], job[t])
    BY <1>1, <1>3, <2>1, RecordsOn
  <2> QED
    BY <1>1, <2>1, <2>2, RefersIf DEF Recording
<1>6. CASE Look(t, To(t, "commit"))
  BY <1>1, <1>3, <1>6, LookKeepsLines, RecordsOn, RefersIf DEF Recording
<1>7. ASSUME At(t, "write"), NEW v, Change(t, Version(Row(t), v), To(t, "commit"))
      PROVE  Refers(db, shared', t, tx'[t], job[t])
  <2>1. tx'[t].pc = "commit" /\ StillKeeps(t)
    BY <1>7, VersionToHas, HasKeeps DEF Change
  <2>2. Keeps(db, shared', t, tx'[t], job[t].to)
    BY <1>1, <1>2, <1>7, <2>1, KeptOn DEF Refers, Recording, At
  <2>3. RecordsHeld(db, shared', t, tx'[t], job[t])
    <3>1. PICK x, j : x = tx'[t] /\ j = job[t]
      OBVIOUS
    <3>2. Knows(db, x, j) /\ Form(j) /\ j.do = "promise"
      BY <1>1, <1>2, <3>1
    <3>3. ASSUME NEW r, NEW l, r \in DOMAIN x.mine, l \in Lines, RecordOn(r, x.mine[r], l), ~RecordOn(r, db[r], l)
          PROVE  l = j.to
      BY <3>2, <3>3, NewRecord
    <3> QED
      BY <2>2, <3>1, <3>3 DEF RecordsHeld
  <2> QED
    BY <1>1, <2>1, <2>3, RefersIf DEF Recording
<1> QED
  BY <1>4, <1>5, <1>6, <1>7 DEF create_campaign_deliverable

\* A promise changed from its form.
LEMMA UpdateDeliverableRefers ==
    ASSUME DInv, NEW t \in Requests, Refers(db, shared, t, tx[t], job[t]), Knows(db, tx'[t], job[t]),
           job[t].do = "save", job[t].row \in Deliverables, FormStep(t) \/ update_campaign_deliverable(t), ~Refuse(t)
    PROVE  Refers(db, shared', t, tx'[t], job[t])
<1>1. /\ ~Pays(job[t]) /\ ~DraftsGift(job[t]) /\ job[t].do # "promise" /\ job[t].do = "save"
      /\ Row(t) = job[t].row /\ Row(t) \in Deliverables /\ Row(t) \in Rows /\ Row(t) \notin Lines
  BY TablesDiffer, RowsAre DEF Row, Pays, DraftsGift
<1>2. ~Arranges(job[t]) /\ Form(job[t])
  BY <1>1, About, TablesDiffer, RowsAre DEF Arranges
<1>3. RecordsHeld(db, shared, t, tx[t], job[t])
  BY DEF Refers
<1>4. /\ tx[t].pc \in {"check", "line", "write"} => Row(t) \in DOMAIN tx[t].mine
      /\ tx[t].pc = "write" => Keeps(db, shared, t, tx[t], tx[t].mine[Row(t)].line)
  BY <1>1 DEF Refers, Recording
<1>5. Own(t).line \in Lines /\ (Row(t) \in DOMAIN tx[t].mine => Own(t) = tx[t].mine[Row(t)])
  BY <1>1, DeliverableIs, About DEF Own
<1>6. CASE FormStep(t)
  <2>1. /\ shared' = shared
        /\ \/ tx'[t].pc = "save" /\ tx'[t].mine = tx[t].mine
           \/ tx'[t].pc = "check" /\ Has(t, Row(t), db[Row(t)])
    BY <1>6, FormHas
  <2>2. StillKeeps(t)
    BY <2>1, HasKeeps DEF StillKeeps
  <2>3. CASE tx'[t].pc = "save" /\ tx'[t].mine = tx[t].mine
    <3>1. RecordsHeld(db, shared', t, tx'[t], job[t])
      BY <1>1, <1>3, <2>2, <2>3, RecordsOn DEF Leaves
    <3> QED
      BY <1>1, <1>2, <2>3, <3>1, RefersIf DEF Recording
  <2>4. CASE tx'[t].pc = "check" /\ Has(t, Row(t), db[Row(t)])
    <3>1. ASSUME NEW r, NEW l, r \in DOMAIN tx'[t].mine, l \in Lines, RecordOn(r, tx'[t].mine[r], l), ~RecordOn(r, db[r], l)
          PROVE  FALSE
      <4>1. PICK x, j : x = tx'[t] /\ j = job[t]
        OBVIOUS
      <4>2. r = j.row
        BY <1>2, <3>1, <4>1, NewRecord
      <4> QED
        BY <1>1, <2>4, <3>1, <4>1, <4>2 DEF Has
    <3>2. RecordsHeld(db, shared', t, tx'[t], job[t])
      BY <3>1 DEF RecordsHeld
    <3>3. Recording(db, shared', t, tx'[t], job[t])
      BY <1>1, <2>4 DEF Recording, Has
    <3> QED
      BY <1>2, <3>2, <3>3, RefersIf
  <2> QED
    BY <2>1, <2>3, <2>4
<1>7. CASE FindLine(t, "check", Own(t).line, "line")
  <2>1. tx[t].pc = "check" /\ tx'[t].pc = "line" /\ tx'[t].mine = tx[t].mine /\ StillKeeps(t) /\ Leaves(t, RecordRows)
    BY <1>7, FindLineHas
  <2>2. RecordsHeld(db, shared', t, tx'[t], job[t])
    BY <1>1, <1>3, <2>1, RecordsOn
  <2> QED
    BY <1>1, <1>2, <1>4, <2>1, <2>2, RefersIf DEF Recording
<1>8. CASE LockLine(t, "line", Own(t).line, "write")
  <2>1. /\ tx[t].pc = "line" /\ tx'[t].pc = "write" /\ StillKeeps(t) /\ Leaves(t, RecordRows)
        /\ Keeps(db, shared', t, tx'[t], Own(t).line)
    BY <1>2, <1>5, <1>8, LockLineHas
  <2>2. RecordsHeld(db, shared', t, tx'[t], job[t])
    BY <1>1, <1>3, <2>1, RecordsOn
  <2>3. Row(t) \in DOMAIN tx'[t].mine /\ tx'[t].mine[Row(t)] = Own(t)
    BY <1>1, <1>4, <1>5, <2>1 DEF Leaves, RecordRows
  <2>4. Recording(db, shared', t, tx'[t], job[t])
    BY <1>1, <2>1, <2>3 DEF Recording
  <2> QED
    BY <1>2, <2>2, <2>4, RefersIf
<1>9. CASE At(t, "write") /\ Change(t, Version(Row(t), Updated(Own(t), Sent(t))), To(t, "commit"))
  <2>1. PICK v : v = Updated(Own(t), Sent(t))
    OBVIOUS
  <2>2. tx'[t].pc = "commit" /\ StillKeeps(t) /\ tx'[t].mine[Row(t)] = v
    BY <1>9, <2>1, VersionToHas, HasKeeps DEF Change, Has
  <2>3. v.line = Own(t).line
    <3>1. job[t].to \in [is : {"Pending", "Posted", "Missed"}]
      BY <1>1, <1>2 DEF Form
    <3>2. PICK C : C = {"is", "line", "version"}
      OBVIOUS
    <3>3. HasColumns(Own(t), C) /\ Sent(t) = job[t].to /\ DOMAIN Sent(t) = {"is"} /\ DOMAIN Sent(t) \subseteq C
      BY <1>1, <3>1, <3>2, DeliverableIs DEF Own, Sent
    <3>4. \A c \in C : c \notin DOMAIN Sent(t) /\ c # "version" => v[c] = Own(t)[c]
      BY <2>1, <3>3, UpdatedColumns
    <3> QED
      BY <3>2, <3>3, <3>4
  <2>4. Keeps(db, shared', t, tx'[t], Own(t).line)
    BY <1>4, <1>5, <1>9, <2>2, KeptOn DEF At
  <2>5. RecordsHeld(db, shared', t, tx'[t], job[t])
    <3>1. PICK x, j : x = tx'[t] /\ j = job[t]
      OBVIOUS
    <3>2. Knows(db, x, j) /\ Form(j) /\ j.row = Row(t)
      BY <1>1, <1>2, <3>1
    <3>3. ASSUME NEW r, NEW l, r \in DOMAIN x.mine, l \in Lines, RecordOn(r, x.mine[r], l), ~RecordOn(r, db[r], l)
          PROVE  l = Own(t).line
      <4>1. r = j.row /\ l = x.mine[r].line
        BY <3>2, <3>3, NewRecord
      <4> QED
        BY <2>2, <2>3, <3>1, <3>2, <4>1
    <3> QED
      BY <2>4, <3>1, <3>3 DEF RecordsHeld
  <2> QED
    BY <1>1, <1>2, <2>2, <2>5, RefersIf DEF Recording
<1> QED
  BY <1>6, <1>7, <1>8, <1>9 DEF update_campaign_deliverable

\* A promise removed.
LEMMA RemoveDeliverableRefers ==
    ASSUME DInv, NEW t \in Requests, Refers(db, shared, t, tx[t], job[t]), Knows(db, tx'[t], job[t]),
           delete_campaign_deliverable(t), ~Refuse(t)
    PROVE  Refers(db, shared', t, tx'[t], job[t])
<1>1. /\ ~Pays(job[t]) /\ ~DraftsGift(job[t]) /\ job[t].do \notin {"promise", "save"}
      /\ Row(t) = job[t].row /\ Row(t) \in Deliverables /\ ~Arranges(job[t])
  BY DEF delete_campaign_deliverable, Asks, Do, Row, Arranges, Pays, DraftsGift
<1>2. Form(job[t]) /\ Own(t).line \in Lines
  BY <1>1, About, DeliverableIs DEF Own
<1>3. RecordsHeld(db, shared, t, tx[t], job[t])
  BY DEF Refers
<1>4. Recording(db, shared', t, tx'[t], job[t])
  BY <1>1 DEF Recording
<1>5. CASE FindLine(t, "begin", Own(t).line, "line")
  <2>1. StillKeeps(t) /\ Leaves(t, RecordRows)
    BY <1>5, FindLineHas
  <2>2. RecordsHeld(db, shared', t, tx'[t], job[t])
    BY <1>1, <1>3, <2>1, RecordsOn
  <2> QED
    BY <1>1, <1>4, <2>2, RefersIf
<1>6. CASE LockLine(t, "line", Own(t).line, "write")
  <2>1. StillKeeps(t) /\ Leaves(t, RecordRows)
    BY <1>1, <1>2, <1>6, LockLineHas
  <2>2. RecordsHeld(db, shared', t, tx'[t], job[t])
    BY <1>1, <1>3, <2>1, RecordsOn
  <2> QED
    BY <1>1, <1>4, <2>2, RefersIf
<1>7. CASE Press(t, {"Pending"}, "Removed", To(t, "commit"))
  <2>1. PICK d, v : d = [is |-> "Removed"] /\ v = Updated(Own(t), d) /\ Change(t, Version(Row(t), v), To(t, "commit"))
    BY <1>7 DEF Press
  <2>2. tx'[t].mine[Row(t)] = v
    BY <2>1, VersionToHas DEF Has
  <2>3. v.is = "Removed"
    <3>1. PICK C : C = {"is", "line", "version"}
      OBVIOUS
    <3>2. HasColumns(Own(t), C) /\ DOMAIN d = {"is"} /\ DOMAIN d \subseteq C
      BY <1>1, <2>1, <3>1, DeliverableIs DEF Own
    <3>3. \A c \in DOMAIN d : c # "version" => v[c] = d[c]
      BY <2>1, <3>2, UpdatedColumns
    <3> QED
      BY <2>1, <3>2, <3>3
  <2>4. RecordsHeld(db, shared', t, tx'[t], job[t])
    <3>1. PICK x, j : x = tx'[t] /\ j = job[t]
      OBVIOUS
    <3>2. Knows(db, x, j) /\ Form(j) /\ j.row = Row(t)
      BY <1>1, <1>2, <3>1
    <3>3. ASSUME NEW r, NEW l, r \in DOMAIN x.mine, l \in Lines, RecordOn(r, x.mine[r], l), ~RecordOn(r, db[r], l)
          PROVE  FALSE
      <4>1. r = j.row
        BY <3>2, <3>3, NewRecord
      <4> QED
        BY <1>1, <2>2, <2>3, <3>1, <3>2, <3>3, <4>1, TablesDiffer, RowsAre DEF RecordOn
    <3> QED
      BY <3>1, <3>3 DEF RecordsHeld
  <2> QED
    BY <1>1, <1>4, <2>4, RefersIf
<1> QED
  BY <1>5, <1>6, <1>7 DEF delete_campaign_deliverable

\* A gift of its own: drafted, then its line is looked at and shared.
LEMMA DraftGiftRefers ==
    ASSUME DInv, NEW t \in Requests, Refers(db, shared, t, tx[t], job[t]), Knows(db, tx'[t], job[t]),
           create_giveaway(t), ~Refuse(t)
    PROVE  Refers(db, shared', t, tx'[t], job[t])
<1>1. /\ ~Pays(job[t]) /\ DraftsGift(job[t]) /\ job[t].do \notin {"promise", "save"}
      /\ Row(t) = job[t].row /\ Row(t) \in Gifts /\ Sent(t) = job[t].to /\ ~Arranges(job[t])
  BY DEF create_giveaway, Asks, Do, Row, Sent, Arranges, Pays, DraftsGift
<1>2. Form(job[t])
  BY About
<1>3. RecordsHeld(db, shared, t, tx[t], job[t])
  BY DEF Refers
<1>4. Recording(db, shared', t, tx'[t], job[t])
  BY <1>1 DEF Recording
<1>5. ASSUME NEW r, NEW l, r \in DOMAIN tx'[t].mine, l \in Lines, RecordOn(r, tx'[t].mine[r], l), ~RecordOn(r, db[r], l)
      PROVE  l = Sent(t).line
  <2>1. PICK x, j : x = tx'[t] /\ j = job[t]
    OBVIOUS
  <2>2. Knows(db, x, j) /\ Form(j) /\ DraftsGift(j)
    BY <1>1, <1>2, <2>1
  <2>3. l = j.to.line
    BY <1>5, <2>1, <2>2, NewRecord
  <2> QED
    BY <1>1, <2>1, <2>3
<1>6. ASSUME NEW v, NEW pc, Change(t, Version(Row(t), v), To(t, IF Sent(t).line = NoLine THEN pc ELSE "line"))
      PROVE  Refers(db, shared', t, tx'[t], job[t])
  <2>1. tx'[t].pc = IF Sent(t).line = NoLine THEN pc ELSE "line"
    BY <1>6, VersionToHas
  <2>2. RecordsHeld(db, shared', t, tx'[t], job[t])
    BY <1>1, <1>5, <2>1, TablesDiffer DEF RecordsHeld
  <2> QED
    BY <1>1, <1>4, <2>2, RefersIf
<1>7. ASSUME NEW pc, Look(t, To(t, pc)), At(t, "begin")
      PROVE  Refers(db, shared', t, tx'[t], job[t])
  <2>1. StillKeeps(t) /\ Leaves(t, RecordRows)
    BY <1>7, LookKeepsLines
  <2>2. RecordsHeld(db, shared', t, tx'[t], job[t])
    BY <1>3, <1>7, <2>1, RecordsOn DEF At
  <2> QED
    BY <1>1, <1>4, <2>2, RefersIf
<1>8. ASSUME NEW r, NEW pc, Share(t, {r}, To(t, pc))
      PROVE  StillKeeps(t) /\ Leaves(t, RecordRows) /\ (r \in Rows => t \in shared'[r])
  <2>1. PICK y : y = To(t, pc) /\ y.mine = tx[t].mine
    BY ToIs
  <2>2. Went(t, y) /\ (r \in Rows => t \in shared'[r])
    BY <1>8, <2>1, ShareIs
  <2>3. tx'[t] = y
    BY <2>2 DEF Went, DInv
  <2>4. \A s \in Rows : t \in shared[s] => t \in shared'[s]
    BY <1>8 DEF Share
  <2> QED
    BY <2>1, <2>2, <2>3, <2>4, RowsAre DEF StillKeeps, Leaves
<1>9. CASE View(t, Sent(t).line).is = "On" /\ Share(t, {Sent(t).line}, To(t, "campaign"))
  <2>1. Sent(t).line \in Lines => Keeps(db, shared', t, tx'[t], Sent(t).line)
    <3>1. Sent(t).line \in Lines => t \in shared'[Sent(t).line]
      BY <1>8, <1>9, RowsAre
    <3>2. Sent(t).line \in Lines => db[Sent(t).line].is = "On"
      BY <1>1, <1>9, LineIs DEF LineMoves
    <3> QED
      BY <3>1, <3>2 DEF Keeps
  <2>2. RecordsHeld(db, shared', t, tx'[t], job[t])
    BY <1>5, <2>1 DEF RecordsHeld
  <2> QED
    BY <1>1, <1>4, <2>2, RefersIf
<1>10. ASSUME At(t, "campaign"), NEW l, ShareCampaign(t, l, "commit")
       PROVE  Refers(db, shared', t, tx'[t], job[t])
  <2>1. PICK c : Share(t, {c}, To(t, "commit"))
    BY <1>10 DEF ShareCampaign
  <2>2. RecordsHeld(db, shared', t, tx'[t], job[t])
    BY <1>3, <1>8, <1>10, <2>1, RecordsOn DEF At
  <2> QED
    BY <1>1, <1>4, <2>2, RefersIf
<1> QED
  BY <1>6, <1>7, <1>9, <1>10 DEF create_giveaway

\* Who arranges a campaign adds no record, and records nothing.
LEMMA ArrangesIf ==
    ASSUME NEW rows, NEW sh, NEW t, NEW x, NEW j, Knows(rows, x, j), Form(j), Arranges(j), LinesHeld(rows, x, j), Arranging(rows, x, j)
    PROVE  Refers(rows, sh, t, x, j)
<1>1. RecordsHeld(rows, sh, t, x, j)
  BY NewRecord DEF RecordsHeld
<1>2. ~Pays(j) /\ j.do # "promise" /\ ~(j.do = "save" /\ j.row \in Deliverables)
  BY TablesDiffer, RowsAre DEF Arranges, Pays
<1> QED
  BY <1>1, <1>2 DEF Refers, Recording

\* Until it writes them it has the lines as they are.
LEMMA LinesAsTheyAre ==
    ASSUME NEW rows, NEW x, NEW j, Knows(rows, x, j), Arranges(j), x.pc # "commit"
    PROVE  LinesHeld(rows, x, j)
<1>1. Stands(rows, x, j)
  BY DEF Knows
<1>2. \A l \in Lines \cap DOMAIN x.mine : x.mine[l] = rows[l]
  BY <1>1 DEF Stands
<1> QED
  BY <1>2 DEF LinesHeld

\* The rows that refer to a line, and the lines, as who arranges sees them.
LEMMA ArrangerSees ==
    ASSUME DInv, NEW t \in Requests, Arranges(job[t]), NEW l \in Lines, ~OnRecord(t, l, GiftLines(t))
    PROVE  Unrecorded(db, l)
<1>1. ASSUME NEW r \in Rows, RecordOn(r, db[r], l)
      PROVE  FALSE
  <2>1. Fair(db, r, View(t, r), job[t])
    BY SeenFair
  <2>2. CASE r \in Payments
    <3>1. PaymentMoves(db[r], View(t, r), job[t], r)
      BY <2>1, <2>2 DEF Fair, Moves
    <3>2. View(t, r) = db[r]
      BY <2>2, <3>1, TablesDiffer, RowsAre DEF PaymentMoves, Arranges
    <3> QED
      BY <1>1, <2>2, <3>2, TablesDiffer, RowsAre DEF RecordOn, OnRecord
  <2>3. CASE r \in Deliverables
    <3>1. DeliverableMoves(db[r], View(t, r), job[t], r)
      BY <2>1, <2>3 DEF Fair, Moves
    <3>2. View(t, r) = db[r]
      BY <2>3, <3>1, TablesDiffer, RowsAre DEF DeliverableMoves, Arranges
    <3> QED
      BY <1>1, <2>3, <3>2, TablesDiffer, RowsAre DEF RecordOn, OnRecord
  <2>4. CASE r \in Gifts
    <3>1. GiftMoves(db[r], View(t, r), job[t], r)
      BY <2>1, <2>4 DEF Fair, Moves
    <3>2. View(t, r).line = db[r].line /\ (View(t, r).is = "None" <=> db[r].is = "None")
      BY <2>4, <3>1, TablesDiffer, RowsAre DEF GiftMoves, Arranges
    <3>3. db[r].is # "None" /\ db[r].line = l
      BY <1>1, <2>4, TablesDiffer, RowsAre DEF RecordOn
    <3>4. l \in GiftLines(t)
      BY <2>4, <3>2, <3>3, TablesDiffer DEF GiftLines
    <3> QED
      BY <3>4 DEF OnRecord
  <2> QED
    BY <1>1, <2>2, <2>3, <2>4 DEF RecordOn
<1> QED
  BY <1>1 DEF Unrecorded

\* What a form writes: whom it takes off it was not sent, and it takes nobody else off.
LEMMA TakesOff ==
    ASSUME DInv, NEW t \in Requests, Arranges(job[t]), tx[t].pc # "commit", NEW rowFor, NEW l \in Lines,
           NEW new, new = PartnersWritten(t, Row(t), rowFor), l \in DOMAIN new, new[l].is = "Off"
    PROVE  View(t, l).is = "On" /\ View(t, l).campaign = Row(t) /\ View(t, l).partner \notin DOMAIN Sent(t).fees
<1> DEFINE c == Row(t)
<1> DEFINE fees == Sent(t).fees
<1> DEFINE kept == {k \in LinesOf(t, c) : View(t, k).partner \in DOMAIN fees}
<1> DEFINE given(p) == [is |-> "On", campaign |-> c, partner |-> p, fee |-> fees[p], version |-> 1]
<1>1. PICK f, g, h, e :
        /\ f = [k \in {m \in kept : View(t, m).fee # fees[View(t, m).partner]} |->
                    Updated(View(t, k), [fee |-> fees[View(t, k).partner]])]
        /\ g = [k \in LinesOf(t, c) \ kept |-> Updated(View(t, k), [is |-> "Off"])]
        /\ h = [k \in {rowFor[p] : p \in DOMAIN rowFor} |-> given(CHOOSE p \in DOMAIN rowFor : rowFor[p] = k)]
        /\ e = f ++ g
  OBVIOUS
<1>2. new = e ++ h
  BY <1>1 DEF PartnersWritten
<1>3. Newest(e, f, g) /\ Newest(new, e, h)
  BY <1>1, <1>2, NewestCounts
<1>4. ASSUME l \in DOMAIN f
      PROVE  f[l].is = "On"
  <2>1. l \in LinesOf(t, c) /\ View(t, l).is = "On"
    BY <1>1, <1>4 DEF LinesOf
  <2>2. PICK C, d, v : /\ C = {"is", "campaign", "partner", "fee", "version"} /\ d = [fee |-> fees[View(t, l).partner]]
                       /\ v = Updated(View(t, l), d)
    OBVIOUS
  <2>3. HasColumns(View(t, l), C) /\ DOMAIN d = {"fee"} /\ DOMAIN d \subseteq C
    BY <2>2, LineIs
  <2>4. \A k \in C : k \notin DOMAIN d /\ k # "version" => v[k] = View(t, l)[k]
    BY <2>2, <2>3, UpdatedColumns
  <2>5. v.is = "On"
    BY <2>1, <2>2, <2>3, <2>4
  <2> QED
    BY <1>1, <1>4, <2>2, <2>5
<1>5. ASSUME l \in DOMAIN h
      PROVE  h[l].is = "On"
  BY <1>1, <1>5
<1>6. l \in DOMAIN g /\ l \notin DOMAIN f
  BY <1>3, <1>4, <1>5 DEF Newest
<1> QED
  BY <1>1, <1>6 DEF LinesOf

\* The partners of a campaign are saved.
LEMMA PartnersRefer ==
    ASSUME DInv, NEW t \in Requests, Arranges(job[t]), Refers(db, shared, t, tx[t], job[t]), Knows(db, tx'[t], job[t]),
           save_partners(t, GiftLines(t)), ~Refuse(t)
    PROVE  Refers(db, shared', t, tx'[t], job[t])
<1>1. Row(t) = job[t].row /\ Row(t) \in Campaigns_ /\ Row(t) \in Rows /\ Row(t) \notin Lines /\ Form(job[t]) /\ Sent(t) = job[t].to
  BY About, TablesDiffer, RowsAre DEF Arranges, Row, Sent
<1>2. Arranging(db, tx[t], job[t])
  BY DEF Refers
<1>3. CASE Check(t, "partners", \A p \in DOMAIN Sent(t).fees \ PartnersOn(t, Row(t)) : View(t, p).is = "Active", "lines")
  <2>1. tx[t].pc = "partners" /\ Look(t, To(t, "lines"))
    BY <1>3 DEF Check, At
  <2>2. tx'[t].pc = "lines" /\ tx'[t].mine = tx[t].mine
    BY <2>1, LookToHas
  <2>3. Arranging(db, tx'[t], job[t])
    BY <1>2, <2>1, <2>2 DEF Arranging
  <2> QED
    BY <1>1, <2>2, <2>3, ArrangesIf, LinesAsTheyAre
<1>4. CASE At(t, "lines") /\ LockLines(t, Row(t), To(t, "records"))
  <2>1. PICK new, y : /\ new = [l \in LinesOf(t, Row(t)) |-> View(t, l)] /\ y = To(t, "records") /\ Change(t, new, y)
                      /\ y.pc = "records" /\ y.mine = tx[t].mine /\ IsTx(y)
    BY <1>4, ToIs DEF LockLines
  <2>2. tx'[t].pc = "records" /\ Newest(tx'[t].mine, new, tx[t].mine) /\ DOMAIN new = LinesOf(t, Row(t))
    BY <2>1, ChangeHas
  <2>3. tx[t].pc = "lines"
    BY <1>4 DEF At
  <2>4. \A l \in Lines : db[l].is = "On" /\ db[l].campaign = Row(t) => l \in DOMAIN new
    BY <2>2, <2>3, LineIs DEF LinesOf
  <2>5. Row(t) \in DOMAIN tx'[t].mine
    BY <1>1, <1>2, <2>2, <2>3 DEF Arranging, Newest
  <2>6. Arranging(db, tx'[t], job[t])
    BY <1>1, <2>2, <2>4, <2>5 DEF Arranging, Newest
  <2> QED
    BY <1>1, <2>2, <2>6, ArrangesIf, LinesAsTheyAre
<1>5. CASE Check(t, "records", \A l \in LinesOf(t, Row(t)) : View(t, l).partner \in DOMAIN Sent(t).fees \/ ~OnRecord(t, l, GiftLines(t)),
                 "write")
  <2>1. /\ tx[t].pc = "records" /\ Look(t, To(t, "write"))
        /\ \A l \in LinesOf(t, Row(t)) : View(t, l).partner \in DOMAIN Sent(t).fees \/ ~OnRecord(t, l, GiftLines(t))
    BY <1>5 DEF Check, At
  <2>2. tx'[t].pc = "write" /\ tx'[t].mine = tx[t].mine
    BY <2>1, LookToHas
  <2>3. ASSUME NEW l \in Lines, db[l].is = "On", db[l].campaign = job[t].row
        PROVE  l \in DOMAIN tx[t].mine /\ (db[l].partner \in DOMAIN job[t].to.fees \/ Unrecorded(db, l))
    <3>1. View(t, l) = db[l]
      BY <2>1, LineIs
    <3>2. l \in LinesOf(t, Row(t))
      BY <1>1, <2>3, <3>1 DEF LinesOf
    <3>3. l \in DOMAIN tx[t].mine
      BY <1>2, <2>1, <2>3 DEF Arranging
    <3> QED
      BY <1>1, <2>1, <3>1, <3>2, <3>3, ArrangerSees
  <2>4. Row(t) \in DOMAIN tx[t].mine
    BY <1>1, <1>2, <2>1 DEF Arranging
  <2>5. Arranging(db, tx'[t], job[t])
    BY <1>1, <2>2, <2>3, <2>4 DEF Arranging
  <2> QED
    BY <1>1, <2>2, <2>5, ArrangesIf, LinesAsTheyAre
<1>6. ASSUME At(t, "write"), NEW rowFor, Change(t, PartnersWritten(t, Row(t), rowFor), To(t, "commit"))
      PROVE  Refers(db, shared', t, tx'[t], job[t])
  <2>1. PICK new, y : /\ new = PartnersWritten(t, Row(t), rowFor) /\ y = To(t, "commit") /\ Change(t, new, y)
                      /\ y.pc = "commit" /\ y.mine = tx[t].mine /\ IsTx(y)
    BY <1>6, ToIs
  <2>2. tx'[t].pc = "commit" /\ Newest(tx'[t].mine, new, tx[t].mine)
    BY <2>1, ChangeHas
  <2>3. tx[t].pc = "write" /\ Row(t) \in DOMAIN tx[t].mine
    BY <1>1, <1>2, <1>6 DEF Arranging, At
  <2>4. \A l \in Lines \cap DOMAIN tx[t].mine : tx[t].mine[l] = db[l]
    BY <2>3, About DEF Knows, Stands
  <2>5. ASSUME NEW l \in Lines \cap DOMAIN tx'[t].mine, tx'[t].mine[l].is = "Off", db[l].is = "On"
        PROVE  Unrecorded(db, l)
    <3>1. l \in DOMAIN new /\ new[l].is = "Off"
      BY <2>2, <2>4, <2>5 DEF Newest
    <3>2. View(t, l).campaign = Row(t) /\ View(t, l).partner \notin DOMAIN Sent(t).fees /\ View(t, l) = db[l]
      BY <2>1, <2>3, <3>1, TakesOff, LineIs
    <3> QED
      BY <1>1, <1>2, <2>3, <2>5, <3>2 DEF Arranging
  <2>6. LinesHeld(db, tx'[t], job[t])
    BY <1>1, <2>2, <2>3, <2>5 DEF LinesHeld, Newest
  <2>7. Arranging(db, tx'[t], job[t])
    BY <2>2 DEF Arranging
  <2> QED
    BY <1>1, <2>6, <2>7, ArrangesIf
<1> QED
  BY <1>3, <1>4, <1>5, <1>6 DEF save_partners

\* A campaign is made, or saved from its form.
LEMMA PlanRefers ==
    ASSUME DInv, NEW t \in Requests, Arranges(job[t]), Refers(db, shared, t, tx[t], job[t]), Knows(db, tx'[t], job[t]),
           create_campaign(t, GiftLines(t)), ~Refuse(t)
    PROVE  Refers(db, shared', t, tx'[t], job[t])
<1>1. Row(t) = job[t].row /\ Form(job[t])
  BY About DEF Row
<1>2. ASSUME NEW v, Change(t, Version(Row(t), v), To(t, "partners"))
      PROVE  Refers(db, shared', t, tx'[t], job[t])
  <2>1. tx'[t].pc = "partners" /\ Row(t) \in DOMAIN tx'[t].mine
    BY <1>2, VersionToHas DEF Has
  <2>2. Arranging(db, tx'[t], job[t])
    BY <1>1, <2>1 DEF Arranging
  <2> QED
    BY <1>1, <2>1, <2>2, ArrangesIf, LinesAsTheyAre
<1>3. CASE At(t, "begin") /\ Look(t, To(t, "commit"))
  <2>1. DOMAIN tx[t].mine = {} /\ tx'[t].mine = tx[t].mine /\ tx'[t].pc = "commit"
    BY <1>3, About, LookToHas DEF Knows, Idle, At
  <2>2. LinesHeld(db, tx'[t], job[t]) /\ Arranging(db, tx'[t], job[t])
    BY <2>1 DEF LinesHeld, Arranging
  <2> QED
    BY <1>1, <2>2, ArrangesIf
<1> QED
  BY <1>2, <1>3, PartnersRefer DEF create_campaign

LEMMA UpdateCampaignRefers ==
    ASSUME DInv, NEW t \in Requests, Arranges(job[t]), Refers(db, shared, t, tx[t], job[t]), Knows(db, tx'[t], job[t]),
           FormStep(t) \/ update_campaign(t, GiftLines(t)), ~Refuse(t)
    PROVE  Refers(db, shared', t, tx'[t], job[t])
<1>1. Row(t) = job[t].row /\ Form(job[t])
  BY About DEF Row
<1>2. ASSUME NEW v, Change(t, Version(Row(t), v), To(t, "partners"))
      PROVE  Refers(db, shared', t, tx'[t], job[t])
  <2>1. tx'[t].pc = "partners" /\ Row(t) \in DOMAIN tx'[t].mine
    BY <1>2, VersionToHas DEF Has
  <2>2. Arranging(db, tx'[t], job[t])
    BY <1>1, <2>1 DEF Arranging
  <2> QED
    BY <1>1, <2>1, <2>2, ArrangesIf, LinesAsTheyAre
<1>3. CASE FormStep(t)
  <2>1. tx'[t].pc \in {"save", "check"}
    BY <1>3, FormHas
  <2>2. Arranging(db, tx'[t], job[t])
    BY <2>1 DEF Arranging
  <2> QED
    BY <1>1, <2>1, <2>2, ArrangesIf, LinesAsTheyAre
<1> QED
  BY <1>2, <1>3, PartnersRefer DEF update_campaign

\* COMMIT makes known no record on a line that is taken off.
LEMMA CommitRecords ==
    ASSUME DInv, LinesInv, NEW t \in Requests, Finish(t), NEW r \in Rows, NEW l \in Lines, RecordOn(r, db'[r], l)
    PROVE  db'[l].is = "On"
<1>1. /\ tx[t].pc = "commit"
      /\ \A s \in Rows : db'[s] = IF s \in DOMAIN tx[t].mine THEN tx[t].mine[s] ELSE db[s]
  BY FinishIs
<1>2. Refers(db, shared, t, tx[t], job[t]) /\ Knows(db, tx[t], job[t]) /\ Form(job[t]) /\ l \in Rows
  BY About, RowsAre DEF LinesInv
<1>3. ASSUME RecordOn(r, db[r], l)
      PROVE  db[l].is = "On" /\ ~Unrecorded(db, l)
  BY <1>3, RecordsAre DEF LinesInv, DInv, Unrecorded
<1>4. ASSUME ~RecordOn(r, db[r], l)
      PROVE  db[l].is = "On" /\ ~Arranges(job[t])
  <2>1. r \in DOMAIN tx[t].mine /\ RecordOn(r, tx[t].mine[r], l)
    BY <1>1, <1>4
  <2>2. Keeps(db, shared, t, tx[t], l)
    BY <1>1, <1>2, <1>4, <2>1 DEF Refers, RecordsHeld
  <2>3. ~Arranges(job[t])
    BY <1>2, <1>4, <2>1, NewRecord
  <2> QED
    BY <2>2, <2>3 DEF Keeps
<1>5. CASE l \notin DOMAIN tx[t].mine
  BY <1>1, <1>2, <1>3, <1>4, <1>5
<1>6. CASE l \in DOMAIN tx[t].mine
  <2>1. LineMoves(db[l], tx[t].mine[l], job[t]) /\ db'[l] = tx[t].mine[l]
    BY <1>1, <1>2, <1>6 DEF Knows, Fair, Moves
  <2>2. RecordOn(r, db[r], l) => db'[l].is # "Off"
    BY <1>2, <1>3, <1>6, <2>1 DEF Refers, LinesHeld
  <2> QED
    BY <1>3, <1>4, <2>1, <2>2 DEF LineMoves
<1> QED
  BY <1>5, <1>6

\* Nor does it touch what another request goes by.
LEMMA CommitSpares ==
    ASSUME DInv, LinesInv, NEW t \in Requests, Finish(t), NEW u \in Requests, u # t
    PROVE  /\ \A r \in DOMAIN tx[u].mine : db'[r] = db[r]
           /\ \A l \in Lines : Keeps(db, shared, u, tx[u], l) => Keeps(db', shared', u, tx[u], l)
           /\ \A l \in Lines \cap DOMAIN tx[u].mine : Unrecorded(db, l) => Unrecorded(db', l)
           /\ \A l \in Lines : job[u].row \in DOMAIN tx[u].mine /\ db'[l].campaign = job[u].row => db'[l] = db[l]
<1>1. /\ tx[t].pc = "commit" /\ \A r \in DOMAIN tx[u].mine : db'[r] = db[r]
      /\ \A s \in Rows : db'[s] = IF s \in DOMAIN tx[t].mine THEN tx[t].mine[s] ELSE db[s]
      /\ \A s \in Rows : shared'[s] = shared[s] \ {t}
  BY FinishIs
<1>2. Refers(db, shared, t, tx[t], job[t]) /\ Knows(db, tx[t], job[t]) /\ Lines \subseteq Rows
  BY About, RowsAre DEF LinesInv
<1>3. /\ \A r \in DOMAIN tx[t].mine : shared[r] \subseteq {t}
      /\ \A r \in DOMAIN tx[u].mine : shared[r] \subseteq {u}
      /\ DOMAIN tx[t].mine \cap DOMAIN tx[u].mine = {}
  BY About, Apart
<1>4. ASSUME NEW l \in Lines, Keeps(db, shared, u, tx[u], l)
      PROVE  Keeps(db', shared', u, tx[u], l)
  <2>1. CASE l \in DOMAIN tx[u].mine
    BY <1>1, <1>4, <2>1 DEF Keeps
  <2>2. CASE u \in shared[l]
    <3>1. l \notin DOMAIN tx[t].mine
      BY <1>3, <2>2
    <3> QED
      BY <1>1, <1>2, <1>4, <2>2, <3>1 DEF Keeps
  <2> QED
    BY <1>4, <2>1, <2>2 DEF Keeps
<1>5. ASSUME NEW l \in Lines \cap DOMAIN tx[u].mine, Unrecorded(db, l), NEW r \in Rows, RecordOn(r, db'[r], l)
      PROVE  FALSE
  <2>1. ~RecordOn(r, db[r], l)
    BY <1>5 DEF Unrecorded
  <2>2. r \in DOMAIN tx[t].mine /\ RecordOn(r, tx[t].mine[r], l)
    BY <1>1, <1>5, <2>1
  <2>3. Keeps(db, shared, t, tx[t], l)
    BY <1>1, <1>2, <2>1, <2>2 DEF Refers, RecordsHeld
  <2> QED
    BY <1>3, <2>3 DEF Keeps
<1>6. ASSUME NEW l \in Lines, job[u].row \in DOMAIN tx[u].mine, db'[l].campaign = job[u].row, db'[l] # db[l]
      PROVE  FALSE
  <2>1. l \in DOMAIN tx[t].mine /\ db'[l] = tx[t].mine[l] /\ tx[t].mine[l] # db[l]
    BY <1>1, <1>2, <1>6
  <2>2. tx[t].mine[l].campaign = job[t].row
    BY <1>2, <2>1 DEF Knows, Fair, Moves, LineMoves
  <2>3. job[t].row \in DOMAIN tx[t].mine
    BY <1>2, <2>1 DEF Refers, LinesHeld
  <2> QED
    BY <1>3, <1>6, <2>1, <2>2, <2>3
<1> QED
  BY <1>1, <1>4, <1>5, <1>6 DEF Unrecorded

LEMMA CommitRefers ==
    ASSUME DInv, LinesInv, NEW t \in Requests, Finish(t)
    PROVE  LinesInv'
<1>1. DInv' /\ tx'[t] = Blank("done") /\ job' = job /\ \A u \in Requests : u # t => tx'[u] = tx[u]
  BY FinishIs, FinishKeeps
<1>2. RecordsKept(db')
  <2>1. \A r \in Rows : Fits(r, db'[r])
    BY <1>1 DEF DInv
  <2> QED
    BY <2>1, RecordsAre, CommitRecords
<1>3. Refers(db', shared', t, tx'[t], job'[t])
  <2>1. PICK x : x = Blank("done") /\ DOMAIN x.mine = {} /\ x.pc = "done"
    BY BlankIs
  <2>2. Refers(db', shared', t, x, job'[t])
    BY <2>1, BlankRefers
  <2> QED
    BY <1>1, <2>1, <2>2
<1>4. ASSUME NEW u \in Requests, u # t
      PROVE  Refers(db', shared', u, tx'[u], job'[u])
  <2>1. PICK x, j : x = tx[u] /\ j = job[u]
    OBVIOUS
  <2>2. Refers(db, shared, u, x, j) /\ Knows(db, x, j) /\ Form(j)
    BY <2>1, About DEF LinesInv
  <2>3. \A r \in DOMAIN x.mine : db'[r] = db[r]
    BY <1>4, <2>1, CommitSpares
  <2>4. \A l \in Lines : Keeps(db, shared, u, x, l) => Keeps(db', shared', u, x, l)
    BY <1>4, <2>1, CommitSpares
  <2>5. \A l \in Lines \cap DOMAIN x.mine : Unrecorded(db, l) => Unrecorded(db', l)
    BY <1>4, <2>1, CommitSpares
  <2>6. \A l \in Lines : j.row \in DOMAIN x.mine /\ db'[l].campaign = j.row => db'[l] = db[l]
    BY <1>4, <2>1, CommitSpares
  <2>7. RecordsHeld(db', shared', u, x, j)
    BY <2>2, <2>3, <2>4 DEF Refers, RecordsHeld
  <2>8. LinesHeld(db', x, j)
    BY <2>2, <2>3, <2>5 DEF Refers, LinesHeld
  <2>9. ASSUME Arranging(db, x, j)
        PROVE  Arranging(db', x, j)
    BY <2>5, <2>6, <2>9 DEF Arranging
  <2>10. Recording(db', shared', u, x, j)
    <3>1. Pays(j) => j.to.line \in Lines
      BY <2>2 DEF Form, Pays
    <3>2. j.do = "promise" => j.to \in Lines
      BY <2>2 DEF Form
    <3>3. \A r \in Deliverables \cap DOMAIN x.mine : x.mine[r].line \in Lines
      BY <2>2 DEF Knows, Fair, Fits
    <3> QED
      BY <2>2, <2>4, <3>1, <3>2, <3>3 DEF Refers, Recording
  <2> QED
    BY <1>1, <1>4, <2>1, <2>2, <2>7, <2>8, <2>9, <2>10 DEF Refers
<1> QED
  BY <1>2, <1>3, <1>4 DEF LinesInv

\* A statement of t leaves its record in order.
LEMMA ActsRefer ==
    ASSUME DInv, LinesInv, NEW t \in Requests, Acts(t), ~Finish(t)
    PROVE  Refers(db, shared', t, tx'[t], job[t])
<1>1. DInv' /\ job' = job /\ db' = db
  BY ActsKeep
<1>2. Refers(db, shared, t, tx[t], job[t]) /\ Knows(db, tx'[t], job[t])
  BY <1>1 DEF LinesInv, DInv
<1>3. Form(job[t])
  BY About
<1>4. CASE Refuse(t)
  BY <1>4, RefuseHas, BlankRefers
<1>5. CASE ~Arranges(job[t]) /\ ~Records(job[t])
  BY <1>2, <1>3, <1>5, OthersRefer
<1>6. CASE Arranges(job[t]) /\ ~Refuse(t)
  <2>1. job[t].row \notin Customers \cup PreOrders \cup Deliverables \cup Orders \cup Partners
    BY <1>6, TablesDiffer, RowsAre DEF Arranges
  <2>2. create_campaign(t, GiftLines(t)) \/ FormStep(t) \/ update_campaign(t, GiftLines(t))
    <3>1. /\ job[t].do = "plan" => create_campaign(t, GiftLines(t))
          /\ job[t].do = "save" =>
                \/ FormStep(t) \/ update_customer_details(t) \/ update_pre_order(t) \/ update_campaign(t, GiftLines(t))
                \/ update_campaign_deliverable(t) \/ update_partner_details(t) \/ edit_online_order(t)
      BY <1>6, HandlerOf
    <3>2. ~(update_customer_details(t) \/ update_pre_order(t) \/ update_campaign_deliverable(t) \/ update_partner_details(t)
            \/ edit_online_order(t))
      BY <2>1 DEF update_customer_details, update_pre_order, update_campaign_deliverable, update_partner_details, edit_online_order,
             Asks, Row
    <3> QED
      BY <1>6, <3>1, <3>2 DEF Arranges
  <2> QED
    BY <1>2, <1>6, <2>2, PlanRefers, UpdateCampaignRefers
<1>7. CASE Pays(job[t]) /\ ~Refuse(t)
  <2>1. create_partner_payment(t)
    BY <1>7, HandlerOf, Zenon DEF Pays
  <2> QED
    BY <1>2, <1>7, <2>1, PaymentRefers
<1>8. CASE DraftsGift(job[t]) /\ ~Refuse(t)
  <2>1. create_giveaway(t)
    BY <1>8, HandlerOf, Zenon DEF DraftsGift
  <2> QED
    BY <1>2, <1>8, <2>1, DraftGiftRefers
<1>9. CASE job[t].do = "promise" /\ ~Refuse(t)
  BY <1>2, <1>9, HandlerOf, PromiseRefers
<1>10. CASE job[t].do = "remove" /\ ~Refuse(t)
  BY <1>2, <1>10, HandlerOf, RemoveDeliverableRefers
<1>11. CASE job[t].do = "save" /\ job[t].row \in Deliverables /\ ~Refuse(t)
  <2>1. job[t].row \notin Customers \cup PreOrders \cup Campaigns_ \cup Orders \cup Partners
    BY <1>11, TablesDiffer, RowsAre
  <2>2. FormStep(t) \/ update_campaign_deliverable(t)
    <3>1. \/ FormStep(t) \/ update_customer_details(t) \/ update_pre_order(t) \/ update_campaign(t, GiftLines(t))
          \/ update_campaign_deliverable(t) \/ update_partner_details(t) \/ edit_online_order(t)
      BY <1>11, HandlerOf
    <3>2. ~(update_customer_details(t) \/ update_pre_order(t) \/ update_campaign(t, GiftLines(t)) \/ update_partner_details(t)
            \/ edit_online_order(t))
      BY <2>1 DEF update_customer_details, update_pre_order, update_campaign, update_partner_details, edit_online_order,
             Asks, Row
    <3> QED
      BY <3>1, <3>2
  <2> QED
    BY <1>2, <1>11, <2>2, UpdateDeliverableRefers
<1> QED
  BY <1>4, <1>5, <1>6, <1>7, <1>8, <1>9, <1>10, <1>11 DEF Records

LEMMA LinesKept ==
    ASSUME DInv, LinesInv, [Next]_vars
    PROVE  LinesInv'
<1>1. CASE UNCHANGED vars
  BY <1>1 DEF vars, LinesInv
<1>2. ASSUME NEW t \in Requests, Acts(t), ~Finish(t)
      PROVE  LinesInv'
  <2>1. /\ DInv' /\ db' = db /\ job' = job /\ \A u \in Requests : u # t => tx'[u] = tx[u]
        /\ \A u \in Requests, r \in Rows : u # t => (u \in shared'[r] <=> u \in shared[r])
    BY <1>2, ActsKeep
  <2>2. Refers(db, shared', t, tx'[t], job[t])
    BY <1>2, ActsRefer
  <2>3. ASSUME NEW u \in Requests, u # t
        PROVE  Refers(db, shared', u, tx[u], job[u])
    <3>1. PICK x, j : x = tx[u] /\ j = job[u]
      OBVIOUS
    <3>2. Refers(db, shared, u, x, j) /\ Knows(db, x, j) /\ Form(j) /\ Lines \subseteq Rows
      BY <3>1, About, RowsAre DEF LinesInv
    <3>3. \A l \in Lines : Keeps(db, shared, u, x, l) => Keeps(db, shared', u, x, l)
      BY <2>1, <2>3, <3>2 DEF Keeps
    <3>4. RecordsHeld(db, shared', u, x, j)
      BY <3>2, <3>3 DEF Refers, RecordsHeld
    <3>5. Recording(db, shared', u, x, j)
      <4>1. Pays(j) => j.to.line \in Lines
        BY <3>2 DEF Form, Pays
      <4>2. j.do = "promise" => j.to \in Lines
        BY <3>2 DEF Form
      <4>3. \A r \in Deliverables \cap DOMAIN x.mine : x.mine[r].line \in Lines
        BY <3>2 DEF Knows, Fair, Fits
      <4> QED
        BY <3>2, <3>3, <4>1, <4>2, <4>3 DEF Refers, Recording
    <3> QED
      BY <3>1, <3>2, <3>4, <3>5 DEF Refers
  <2>4. \A u \in Requests : Refers(db', shared', u, tx'[u], job'[u])
    BY <2>1, <2>2, <2>3
  <2>5. RecordsKept(db')
    BY <2>1 DEF LinesInv
  <2> QED
    BY <2>4, <2>5 DEF LinesInv
<1> QED
  BY <1>1, <1>2, CommitRefers, NextActs

LEMMA LinesStart ==
    ASSUME Init
    PROVE  LinesInv
<1>1. Opening(db) /\ \A t \in Requests : tx[t] = Blank("begin")
  BY StartIs
<1>2. ASSUME NEW t \in Requests
      PROVE  Refers(db, shared, t, tx[t], job[t])
  <2>1. tx[t].pc = "begin" /\ DOMAIN tx[t].mine = {}
    BY <1>1, BlankIs
  <2> QED
    BY <2>1, BlankRefers
<1> QED
  BY <1>1, <1>2 DEF LinesInv, Opening

\* A partner with payments, gifts or promised posts stays on the campaign, whoever saves its form meanwhile.
THEOREM PartnersStayWithTheirRecords == Spec => []LinesKeepTheirRecords
<1>1. Init => DInv /\ LinesInv
  BY StartIs, LinesStart
<1>2. (DInv /\ LinesInv) /\ [Next]_vars => (DInv /\ LinesInv)'
  BY NextKeeps, LinesKept
<1>3. LinesInv => LinesKeepTheirRecords
  BY DEF LinesInv, LinesKeepTheirRecords
<1> QED
  BY <1>1, <1>2, <1>3, PTL DEF Spec
-----------------------------------------------------------------------------
(* What the statements of an online order do *)

FinderAt == {"find", "register", "find again"}

\* One step of t, from where its record stood to where it stands.
Steps(t, from, to) == tx[t].pc \in from /\ tx'[t].pc \in to
StaysFit(t) == tx'[t].fit = tx[t].fit

Sought(t) == Steps(t, FinderAt, {"customer", "register", "find again"}) /\ Leaves(t, Elsewhere)

\* The customer is locked, and as before but for what describes the buyer.
BuyerTaken(t) ==
    /\ Steps(t, {"customer"}, {"address", "header"}) /\ StaysFit(t)
    /\ tx[t].fit \in Customers /\ ~Unfit(t, tx[t].fit, BookingOf(t))
    /\ \E v : Has(t, tx[t].fit, v) /\ v.flag = View(t, tx[t].fit).flag

AddressWritten(t) ==
    /\ Steps(t, AddressAt, {"step down", "beside", "in front", "header"}) /\ StaysFit(t)
    /\ Leaves(t, Rows \ Addresses)

Numbering(t) ==
    /\ ~Editing(t) /\ Steps(t, {"header", "number"}, {"number", "insert"}) /\ StaysFit(t)
    /\ Leaves(t, Rows \ {InvoiceDesk})

OrderWritten(t) ==
    /\ Steps(t, {"header", "insert"}, {"hold"})
    /\ IF Editing(t) THEN Own(t).is = "Pending" ELSE Own(t).is \in {"None", "Draft"}
    /\ \E v : /\ Has(t, Row(t), v)
              /\ v.is = "Pending" /\ v.customer = tx[t].fit /\ v.units = Sent(t).units /\ v.total = Sent(t).total
              /\ v.paid = Paid(t) /\ v.booking = BookingOf(t)

\* Two orders that differ in what they hold.
SameSale(v, w) ==
    /\ v.is = w.is /\ v.customer = w.customer /\ v.units = w.units /\ v.total = w.total
    /\ v.paid = w.paid /\ v.booking = w.booking

UnitsHeld(t) ==
    /\ Steps(t, {"hold"}, {IF BookingOf(t) = NoOrder \/ Editing(t) THEN "commit" ELSE "convert"})
    /\ \E v : HoldsRow(t, Row(t), v) /\ SameSale(v, Own(t))

BookingClosed(t) ==
    LET b == BookingOf(t)
    IN  /\ Steps(t, {"convert"}, {"commit"}) /\ b \in PreOrders /\ View(t, b).is \in OPEN_STATUSES
        /\ \E w : /\ Has(t, b, w) /\ w.is = "Converted" /\ w.order = Row(t)
                  /\ w.customer = View(t, b).customer /\ w.units = View(t, b).units
                  /\ w.advance = View(t, b).advance /\ w.refunded = View(t, b).refunded

OnlineWritten(t) ==
    \/ Sought(t) \/ BuyerTaken(t) \/ AddressWritten(t) \/ Numbering(t) \/ OrderWritten(t) \/ UnitsHeld(t) \/ BookingClosed(t)

LEMMA SoughtIs ==
    ASSUME DInv, NEW t \in Requests, Seeks(job[t]), find_or_create_customer(t, "find", "customer"), ~Refuse(t)
    PROVE  Sought(t)
<1>1. tx'[t].pc \in {"customer", "register", "find again"} /\ Leaves(t, Elsewhere)
  BY FinderHas
<1>2. tx[t].pc \in FinderAt
  BY DEF find_or_create_customer, At, FinderAt
<1> QED
  BY <1>1, <1>2 DEF Sought, Steps

LEMMA BuyerIs ==
    ASSUME DInv, NEW t \in Requests, At(t, "customer"), ~Unfit(t, Customer(t), BookingOf(t)),
           LockBuyer(t, Customer(t), IF Sent(t).saved = Nobody THEN "address" ELSE "header")
    PROVE  BuyerTaken(t)
<1>1. PICK c, d, v, pc : /\ c = tx[t].fit /\ d = [filled |-> TRUE]
                         /\ v = (IF View(t, c).filled THEN View(t, c) ELSE Updated(View(t, c), d))
                         /\ pc = IF Sent(t).saved = Nobody THEN "address" ELSE "header"
  OBVIOUS
<1>2. Change(t, Version(c, v), To(t, pc))
  BY <1>1 DEF LockBuyer, Customer
<1>3. Has(t, c, v) /\ tx'[t].pc = pc /\ tx'[t].fit = tx[t].fit
  BY <1>2, VersionToHas
<1>4. c \in Customers
  BY <1>1, About DEF Knows, Stands, At
<1>5. HasColumns(View(t, c), CustomerColumns)
  BY <1>4, SeenFair, RowsAre DEF Fair, Fits
<1>6. DOMAIN d = {"filled"}
  BY <1>1
<1>7. Updated(View(t, c), d).flag = View(t, c).flag
  BY <1>5, <1>6, UpdatedColumns DEF CustomerColumns
<1>8. v.flag = View(t, c).flag
  BY <1>1, <1>7
<1> QED
  BY <1>1, <1>3, <1>4, <1>8 DEF BuyerTaken, Steps, StaysFit, At, Customer

LEMMA AddressIsWritten ==
    ASSUME DInv, NEW t \in Requests, insert_address(t, "header"), ~Refuse(t)
    PROVE  AddressWritten(t)
<1>1. PICK next : next = "header" /\ insert_address(t, next)
  OBVIOUS
<1>2. /\ tx'[t].pc \in {"step down", "beside", "in front", next} /\ tx'[t].fit = tx[t].fit
      /\ tx[t].pc \in AddressAt /\ Leaves(t, Rows \ Addresses)
  BY <1>1, InsertHas
<1> QED
  BY <1>1, <1>2 DEF AddressWritten, Steps, StaysFit

LEMMA OrderIsWritten ==
    ASSUME DInv, NEW t \in Requests, Asks(t, "place", Orders) \/ Asks(t, "save", Orders),
           WriteOrder(t, "header", IF Editing(t) THEN Own(t).is = "Pending" ELSE Draft(t, "ONLINE"),
                      Header(t, "Pending", "ONLINE", Customer(t), BookingOf(t)), "hold"),
           ~Refuse(t)
    PROVE  Numbering(t) \/ OrderWritten(t)
<1>1. PICK h : /\ h = Header(t, "Pending", "ONLINE", Customer(t), BookingOf(t)) /\ DOMAIN h = HeaderColumns
               /\ h.is = "Pending" /\ h.customer = tx[t].fit /\ h.units = Sent(t).units /\ h.total = Sent(t).total
               /\ h.paid = Paid(t) /\ h.booking = BookingOf(t)
  <2>1. PICK h : h = Header(t, "Pending", "ONLINE", Customer(t), BookingOf(t))
    OBVIOUS
  <2>2. /\ DOMAIN h = HeaderColumns /\ h.is = "Pending" /\ h.customer = tx[t].fit /\ h.units = Sent(t).units
        /\ h.total = Sent(t).total /\ h.paid = Paid(t) /\ h.booking = BookingOf(t)
    BY <2>1 DEF Header, HeaderColumns, OrderColumns, Customer
  <2> QED
    BY <2>1, <2>2
<1>2. PICK draft : /\ draft = IF Editing(t) THEN Own(t).is = "Pending" ELSE Draft(t, "ONLINE")
                   /\ WriteOrder(t, "header", draft, h, "hold")
  BY <1>1
<1>3. /\ Row(t) \in Orders /\ HasColumns(Own(t), OrderColumns)
      /\ tx[t].pc \in {"number", "insert"} => ~Editing(t)
  <2>1. Stands(db, tx[t], job[t])
    BY About DEF Knows
  <2> QED
    BY <2>1, OrderIs DEF Asks, Own, Stands, Editing, Do
<1>4. CASE At(t, "header") /\ draft /\ Change(t, Version(Row(t), Updated(Own(t), h)), To(t, "hold"))
  <2>1. PICK v : v = Updated(Own(t), h)
    OBVIOUS
  <2>2. v.is = h.is /\ v.customer = h.customer /\ v.units = h.units /\ v.total = h.total /\ v.paid = h.paid /\ v.booking = h.booking
    <3>1. \A c \in DOMAIN h : c # "version" => v[c] = h[c]
      BY <1>1, <1>3, <2>1, UpdatedColumns DEF HeaderColumns
    <3> QED
      BY <1>1, <3>1 DEF HeaderColumns, OrderColumns
  <2>3. Has(t, Row(t), v) /\ tx'[t].pc = "hold"
    BY <1>4, <2>1, VersionToHas
  <2>4. IF Editing(t) THEN Own(t).is = "Pending" ELSE Own(t).is \in {"None", "Draft"}
    BY <1>2, <1>4 DEF Draft
  <2> QED
    BY <1>1, <1>4, <2>2, <2>3, <2>4 DEF OrderWritten, Steps, At
<1>5. CASE At(t, "header") /\ ~draft /\ ~Editing(t) /\ Look(t, To(t, "number"))
  BY <1>5, LookToHas DEF Numbering, Steps, StaysFit, At
<1>6. CASE At(t, "number") /\ TakeNumber(t, "insert")
  <2>1. tx'[t].pc = "insert" /\ tx'[t].fit = tx[t].fit /\ Has(t, InvoiceDesk, 0)
    BY <1>6, VersionToHas DEF TakeNumber
  <2>2. Leaves(t, Rows \ {InvoiceDesk})
    BY <2>1, HasLeaves
  <2> QED
    BY <1>3, <1>6, <2>1, <2>2 DEF Numbering, Steps, StaysFit, At
<1>7. CASE /\ At(t, "insert") /\ IsNew(t, Row(t))
           /\ Change(t, Version(Row(t), h ++ [number |-> nextInvoiceNo(t), by |-> By(t), version |-> 1]), To(t, "hold"))
  <2>1. PICK g, v : g = [number |-> nextInvoiceNo(t), by |-> By(t), version |-> 1] /\ v = h ++ g /\ Newest(v, h, g)
    BY NewestCounts
  <2>2. v.is = h.is /\ v.customer = h.customer /\ v.units = h.units /\ v.total = h.total /\ v.paid = h.paid /\ v.booking = h.booking
    BY <1>1, <2>1 DEF Newest, HeaderColumns, OrderColumns
  <2>3. Has(t, Row(t), v) /\ tx'[t].pc = "hold"
    BY <1>7, <2>1, VersionToHas
  <2>4. Own(t).is = "None" /\ ~Editing(t)
    BY <1>3, <1>7 DEF IsNew, Own, At
  <2> QED
    BY <1>1, <1>7, <2>2, <2>3, <2>4 DEF OrderWritten, Steps, At
<1> QED
  BY <1>2, <1>4, <1>5, <1>6, <1>7 DEF WriteOrder

LEMMA UnitsAreHeld ==
    ASSUME DInv, NEW t \in Requests, Row(t) \in Orders, At(t, "hold"),
           holdStock(t, Sent(t).units, Version(Row(t), [Own(t) EXCEPT !.held = Sent(t).units]),
                     IF BookingOf(t) = NoOrder \/ Editing(t) THEN "commit" ELSE "convert"),
           ~Refuse(t)
    PROVE  UnitsHeld(t)
<1>1. PICK pc, v : /\ pc = (IF BookingOf(t) = NoOrder \/ Editing(t) THEN "commit" ELSE "convert")
                   /\ v = [Own(t) EXCEPT !.held = Sent(t).units]
  OBVIOUS
<1>2. holdStock(t, Sent(t).units, Version(Row(t), v), pc)
  BY <1>1
<1>3. tx'[t].pc = pc /\ HoldsRow(t, Row(t), v)
  BY <1>2, HoldHas
<1>4. HasColumns(Own(t), OrderColumns)
  BY OrderIs DEF Own
<1>5. SameSale(v, Own(t))
  BY <1>1, <1>4 DEF HasColumns, OrderColumns, SameSale
<1> QED
  BY <1>1, <1>3, <1>5 DEF UnitsHeld, Steps, At

LEMMA BookingIsClosed ==
    ASSUME DInv, NEW t \in Requests, Row(t) \in Orders, At(t, "convert"), convertBooking(t, BookingOf(t), Row(t), "commit"), ~Refuse(t)
    PROVE  BookingClosed(t)
<1>1. PICK b, d, w : /\ b = BookingOf(t) /\ d = [is |-> "Converted", order |-> Row(t)] /\ w = Updated(View(t, b), d)
  OBVIOUS
<1>2. View(t, b).is \in OPEN_STATUSES /\ Change(t, Version(b, w), To(t, "commit"))
  BY <1>1 DEF convertBooking
<1>3. b \in PreOrders
  <2>1. Stands(db, tx[t], job[t])
    BY About DEF Knows
  <2> QED
    BY <1>1, <2>1 DEF Stands, At, BookingOf, Editing, Do, Sent
<1>4. HasColumns(View(t, b), BookingColumns)
  BY <1>3, SeenFair, RowsAre DEF Fair, Fits
<1>5. DOMAIN d = {"is", "order"} /\ d.is = "Converted" /\ d.order = Row(t)
  BY <1>1
<1>6. /\ \A c \in DOMAIN d : c # "version" => w[c] = d[c]
      /\ \A c \in BookingColumns : c \notin DOMAIN d /\ c # "version" => w[c] = View(t, b)[c]
  BY <1>1, <1>4, <1>5, UpdatedColumns DEF BookingColumns
<1>7. /\ w.is = "Converted" /\ w.order = Row(t) /\ w.customer = View(t, b).customer /\ w.units = View(t, b).units
      /\ w.advance = View(t, b).advance /\ w.refunded = View(t, b).refunded
  BY <1>5, <1>6 DEF BookingColumns
<1>8. Has(t, b, w) /\ tx'[t].pc = "commit"
  BY <1>2, VersionToHas
<1> QED
  BY <1>1, <1>2, <1>3, <1>7, <1>8 DEF BookingClosed, Steps, At

\* Every statement that placing and editing have in common.
LEMMA OnlineIsWritten ==
    ASSUME DInv, NEW t \in Requests, Asks(t, "place", Orders) \/ Asks(t, "save", Orders), write_online_order(t), ~Refuse(t)
    PROVE  OnlineWritten(t)
<1>1. Row(t) \in Orders /\ job[t].do \in {"place", "save"} /\ (job[t].do = "save" => job[t].row \in Orders) /\ Form(job[t])
  BY About DEF Asks, Do, Row
<1>2. Seeks(job[t])
  BY <1>1 DEF Seeks, Form, Sells
<1>3. CASE find_or_create_customer(t, "find", "customer")
  BY <1>2, <1>3, SoughtIs DEF OnlineWritten
<1>4. CASE At(t, "customer") /\ ~Unfit(t, Customer(t), BookingOf(t)) /\ LockBuyer(t, Customer(t), IF Sent(t).saved = Nobody THEN "address" ELSE "header")
  BY <1>4, BuyerIs DEF OnlineWritten
<1>5. CASE insert_address(t, "header")
  BY <1>5, AddressIsWritten DEF OnlineWritten
<1>6. CASE WriteOrder(t, "header", IF Editing(t) THEN Own(t).is = "Pending" ELSE Draft(t, "ONLINE"),
                      Header(t, "Pending", "ONLINE", Customer(t), BookingOf(t)), "hold")
  BY <1>6, OrderIsWritten DEF OnlineWritten
<1>7. CASE At(t, "hold") /\ holdStock(t, Sent(t).units, Version(Row(t), [Own(t) EXCEPT !.held = Sent(t).units]),
                                      IF BookingOf(t) = NoOrder \/ Editing(t) THEN "commit" ELSE "convert")
  BY <1>1, <1>7, UnitsAreHeld DEF OnlineWritten
<1>8. CASE At(t, "convert") /\ convertBooking(t, BookingOf(t), Row(t), "commit")
  BY <1>1, <1>8, BookingIsClosed DEF OnlineWritten
<1> QED
  BY <1>3, <1>4, <1>5, <1>6, <1>7, <1>8 DEF write_online_order

\* The lines are priced: nothing is written.
Priced(t) == Steps(t, {"begin", "price"}, {"find"}) /\ Leaves(t, Rows)

BookingLocked(t) ==
    LET b == BookingOf(t)
    IN  b \in PreOrders /\ Has(t, b, View(t, b))

OrderPlaced(t) ==
    \/ Priced(t) /\ (tx[t].pc = "begin" => BookingOf(t) = NoOrder)
    \/ Steps(t, {"begin"}, {"price"}) /\ BookingLocked(t) /\ View(t, BookingOf(t)).is \in OPEN_STATUSES
    \/ OnlineWritten(t)

LEMMA PriceIs ==
    ASSUME DInv, NEW t \in Requests, NEW from \in {"begin", "price"}, price_lines(t, from, "find"), ~Refuse(t)
    PROVE  Priced(t) /\ tx[t].pc = from
<1>1. At(t, from) /\ Look(t, To(t, "find"))
  BY DEF price_lines, Check
<1> QED
  BY <1>1, LookToHas DEF Priced, Steps, At

LEMMA OrderIsPlaced ==
    ASSUME DInv, NEW t \in Requests, create_online_order(t), ~Refuse(t)
    PROVE  OrderPlaced(t) /\ Row(t) \in Orders
<1>1. Row(t) \in Orders /\ Asks(t, "place", Orders) /\ BookingOf(t) \in PreOrders \cup {NoOrder}
  <2>1. Form(job[t])
    BY About
  <2> QED
    BY <2>1 DEF create_online_order, Asks, Form, BookingOf, Editing, Do, Sent
<1>2. CASE BookingOf(t) # NoOrder /\ At(t, "begin") /\ lockBooking(t, BookingOf(t), "price")
  <2>1. PICK b, v : b = BookingOf(t) /\ v = View(t, b) /\ v.is \in OPEN_STATUSES /\ Change(t, Version(b, v), To(t, "price"))
    BY <1>2 DEF lockBooking
  <2>2. Has(t, b, v) /\ tx'[t].pc = "price"
    BY <2>1, VersionToHas
  <2> QED
    BY <1>1, <1>2, <2>1, <2>2 DEF OrderPlaced, BookingLocked, Steps, At
<1>3. CASE BookingOf(t) = NoOrder /\ price_lines(t, "begin", "find")
  BY <1>1, <1>3, PriceIs DEF OrderPlaced
<1>4. CASE price_lines(t, "price", "find")
  BY <1>1, <1>4, PriceIs DEF OrderPlaced
<1>5. CASE write_online_order(t)
  BY <1>1, <1>5, OnlineIsWritten DEF OrderPlaced
<1> QED
  BY <1>2, <1>3, <1>4, <1>5 DEF create_online_order

\* The order is locked as its form found it, then opened: its own holds are released.
OrderEdited(t) ==
    \/ Steps(t, {"begin"}, {"save"}) /\ Leaves(t, Rows)
    \/ Steps(t, {"save"}, {"check"}) /\ Has(t, Row(t), db[Row(t)])
    \/ /\ tx[t].pc = "check" /\ tx'[t].pc = IF Own(t).booking = NoOrder THEN "price" ELSE "booking"
       /\ Own(t).is = "Pending" /\ \E v : Has(t, Row(t), v) /\ SameSale(v, Own(t))
    \/ Steps(t, {"booking"}, {"price"}) /\ BookingLocked(t)
    \/ Priced(t) /\ tx[t].pc = "price"
    \/ OnlineWritten(t)

LEMMA OrderIsEdited ==
    ASSUME DInv, NEW t \in Requests, job[t].do = "save", job[t].row \in Orders, FormStep(t) \/ edit_online_order(t), ~Refuse(t)
    PROVE  OrderEdited(t)
<1>1. Asks(t, "save", Orders) /\ Row(t) \in Orders
  BY DEF Asks, Do, Row
<1>2. CASE OpenForm(t)
  <2>1. PICK x, next : x = To(t, "save") /\ next = [x EXCEPT !.seen = db[Row(t)].version] /\ Look(t, next) /\ tx[t].pc = "begin"
    BY <1>2 DEF OpenForm, At
  <2>2. x.pc = "save" /\ x.mine = tx[t].mine /\ IsTx(x)
    BY <2>1, ToIs
  <2>3. next.pc = "save" /\ next.mine = tx[t].mine
    BY <2>1, <2>2, WithSeen
  <2>4. tx'[t] = next /\ \A S : Leaves(t, S)
    BY <2>1, <2>3, LookHas
  <2> QED
    BY <2>1, <2>3, <2>4 DEF OrderEdited, Steps
<1>3. CASE LockForm(t)
  <2>1. Has(t, Row(t), db[Row(t)]) /\ tx'[t].pc = "check" /\ tx[t].pc = "save"
    BY <1>3, VersionToHas DEF LockForm, At
  <2> QED
    BY <2>1 DEF OrderEdited, Steps
<1>4. CASE /\ At(t, "check") /\ Own(t).is = "Pending"
           /\ Change(t, Version(Row(t), [Own(t) EXCEPT !.held = 0]), To(t, IF Own(t).booking = NoOrder THEN "price" ELSE "booking"))
  <2>1. PICK v, pc : v = [Own(t) EXCEPT !.held = 0] /\ pc = IF Own(t).booking = NoOrder THEN "price" ELSE "booking"
    OBVIOUS
  <2>2. HasColumns(Own(t), OrderColumns)
    BY <1>1, OrderIs DEF Own
  <2>3. SameSale(v, Own(t))
    BY <2>1, <2>2 DEF HasColumns, OrderColumns, SameSale
  <2>4. Has(t, Row(t), v) /\ tx'[t].pc = pc
    BY <1>4, <2>1, VersionToHas
  <2> QED
    BY <1>4, <2>1, <2>3, <2>4 DEF OrderEdited, At
<1>5. CASE At(t, "booking") /\ Change(t, Version(BookingOf(t), View(t, BookingOf(t))), To(t, "price"))
  <2>1. job[t].row \in DOMAIN tx[t].mine /\ tx[t].mine[job[t].row].booking \in PreOrders
    <3>1. Stands(db, tx[t], job[t])
      BY About DEF Knows
    <3> QED
      BY <1>5, <3>1 DEF Stands, At
  <2>2. BookingOf(t) \in PreOrders
    BY <1>1, <2>1, About, RowsAre DEF BookingOf, Editing, Do, Own, Row
  <2>3. PICK b, v : b = BookingOf(t) /\ v = View(t, b) /\ Has(t, b, v) /\ tx'[t].pc = "price"
    BY <1>5, VersionToHas
  <2> QED
    BY <1>5, <2>2, <2>3 DEF OrderEdited, BookingLocked, Steps, At
<1>6. CASE price_lines(t, "price", "find")
  BY <1>6, PriceIs DEF OrderEdited
<1>7. CASE write_online_order(t)
  BY <1>1, <1>7, OnlineIsWritten DEF OrderEdited
<1> QED
  BY <1>2, <1>3, <1>4, <1>5, <1>6, <1>7 DEF FormStep, RefuseStale, edit_online_order

-----------------------------------------------------------------------------
(* Blocked customers *)

\* Of a customer who is not there nothing is said, and only one who is there is flagged.
Unflagged(rows, jobs) ==
    /\ \A c \in Customers : rows[c].is = "None" => rows[c].flag = "None"
    /\ \A t \in Requests : jobs[t].do = "flag" /\ jobs[t].row \in Customers => rows[jobs[t].row].is # "None"

\* Nobody adds the customer another one adds.
AddsApart(jobs) ==
    \A t, u \in Requests : \A c \in Customers : Makes(jobs[t], c) /\ Makes(jobs[u], c) => t = u

FittedAt == AddressAt \cup {"header", "number", "insert"}
WrittenAt == {"hold", "convert", "commit"}

\* The customer is locked: who is blocked has been acknowledged, and nobody blocks them before the order
\* is placed.
Acknowledged(x, c, j) == c \in Customers \cap DOMAIN x.mine /\ (x.mine[c].flag = "Blocked" => j.to.ack)

Buys(rows, x, j) ==
    /\ x.pc \notin {"done", "failed"} => \A c \in Customers : Makes(j, c) => rows[c].is = "None"
    /\ j.do = "place" =>
        /\ x.pc \in FittedAt => Acknowledged(x, x.fit, j)
        /\ j.row \in DOMAIN x.mine =>
            x.pc \in WrittenAt /\ x.mine[j.row].is = "Pending" /\ Acknowledged(x, x.mine[j.row].customer, j)
        /\ x.pc \in {"hold", "convert"} => j.row \in DOMAIN x.mine

BuyersInv == Unflagged(db, job) /\ AddsApart(job) /\ \A t \in Requests : Buys(db, tx[t], job[t])

\* Whoever saves an order's form has its handler.
LEMMA SavesOrder ==
    ASSUME DInv, NEW t \in Requests, Acts(t), ~Finish(t), ~Refuse(t), job[t].do = "save", job[t].row \in Orders
    PROVE  FormStep(t) \/ edit_online_order(t)
<1>1. ~(update_customer_details(t) \/ update_pre_order(t) \/ update_campaign(t, GiftLines(t)) \/ update_campaign_deliverable(t)
        \/ update_partner_details(t))
  BY TablesDiffer, RowsAre DEF update_customer_details, update_pre_order, update_campaign, update_campaign_deliverable,
     update_partner_details, Asks, Row
<1> QED
  BY <1>1, HandlerOf

\* Whoever was answered asks for nothing more.
LEMMA MakersOpen ==
    ASSUME DInv, NEW t \in Requests, Acts(t), ~Finish(t), ~Refuse(t), NEW c \in Customers, Makes(job[t], c)
    PROVE  tx[t].pc \notin {"done", "failed"}
<1>1. CASE job[t].do = "register"
  BY <1>1, HandlerOf DEF create_customer, insert_address, At
<1>2. CASE job[t].do = "book"
  BY <1>2, HandlerOf DEF create_pre_order, find_or_create_customer, At
<1>3. CASE job[t].do = "place"
  BY <1>3, HandlerOf, OrderIsPlaced DEF OrderPlaced, OnlineWritten, Priced, Sought, BuyerTaken, AddressWritten, Numbering, OrderWritten,
     UnitsHeld, BookingClosed, Steps, FinderAt, AddressAt
<1>4. CASE job[t].do = "checkout"
  <2>1. checkout_pos_sale(t)
    BY <1>4, HandlerOf
  <2>2. CASE WriteOrder(t, "sale", Draft(t, "POS") /\ Own(t).by = By(t),
                        Header(t, "Purchased", "POS", IF Sent(t).phone = Nobody THEN Nobody ELSE Customer(t), NoOrder), "deduct")
    BY <2>2 DEF WriteOrder, At
  <2> QED
    BY <2>1, <2>2 DEF checkout_pos_sale, find_or_create_customer, price_lines, Check, At
<1>5. CASE job[t].do = "save" /\ job[t].row \in PreOrders
  <2>1. FormStep(t) \/ update_pre_order(t)
    <3>1. ~(update_customer_details(t) \/ update_campaign(t, GiftLines(t)) \/ update_campaign_deliverable(t)
            \/ update_partner_details(t) \/ edit_online_order(t))
      BY <1>5, TablesDiffer, RowsAre DEF update_customer_details, update_campaign, update_campaign_deliverable,
         update_partner_details, edit_online_order, Asks, Row
    <3> QED
      BY <1>5, <3>1, HandlerOf
  <2> QED
    BY <2>1 DEF FormStep, OpenForm, LockForm, RefuseStale, update_pre_order, Check, find_or_create_customer, At
<1>6. CASE job[t].do = "save" /\ job[t].row \in Orders
  <2>1. FormStep(t) \/ edit_online_order(t)
    BY <1>6, SavesOrder
  <2> QED
    BY <1>6, <2>1, OrderIsEdited DEF OrderEdited, OnlineWritten, Priced, Sought, BuyerTaken, AddressWritten, Numbering, OrderWritten,
     UnitsHeld, BookingClosed, Steps, FinderAt, AddressAt
<1> QED
  BY <1>1, <1>2, <1>3, <1>4, <1>5, <1>6 DEF Makes, Sells

\* Statements that leave the order, and what is known of its customer, alone.
LEMMA BuysOn ==
    ASSUME NEW rows, NEW x, NEW y, NEW j, Buys(rows, x, j), j.do = "place", x.pc \notin {"done", "failed"},
           y.pc \in FittedAt => Acknowledged(y, y.fit, j),
           j.row \notin DOMAIN y.mine, y.pc \notin {"hold", "convert"}
    PROVE  Buys(rows, y, j)
BY DEF Buys

LEMMA PlaceBuys ==
    ASSUME DInv, NEW t \in Requests, job[t].do = "place", Row(t) \in Orders, Buys(db, tx[t], job[t]), OrderPlaced(t)
    PROVE  Buys(db, tx'[t], job[t])
<1>1. PICK x, y, j, o : x = tx[t] /\ y = tx'[t] /\ j = job[t] /\ o = job[t].row
  OBVIOUS
<1>2. /\ o = Row(t) /\ o \in Orders /\ Sent(t) = j.to /\ ~Editing(t) /\ j.do = "place" /\ Buys(db, x, j) /\ TheBatch # o
      /\ \A r \in Rows : View(t, r) = IF r \in DOMAIN x.mine THEN x.mine[r] ELSE db[r]
  BY <1>1, About, TablesDiffer DEF Row, Sent, Editing, Do
<1>3. /\ x.pc \in FittedAt => Acknowledged(x, x.fit, j)
      /\ o \in DOMAIN x.mine => x.pc \in WrittenAt /\ x.mine[o].is = "Pending" /\ Acknowledged(x, x.mine[o].customer, j)
      /\ x.pc \in {"hold", "convert"} => o \in DOMAIN x.mine
  BY <1>1, <1>2 DEF Buys
<1>4. \A S : Leaves(t, S) <=>
        \A r \in S : (r \in DOMAIN y.mine <=> r \in DOMAIN x.mine) /\ (r \in DOMAIN x.mine => y.mine[r] = x.mine[r])
  BY <1>1 DEF Leaves
<1>5. \A r, v : Has(t, r, v) <=>
        /\ DOMAIN y.mine = DOMAIN x.mine \cup {r} /\ y.mine[r] = v
        /\ \A s \in DOMAIN x.mine : s # r => y.mine[s] = x.mine[s]
  BY <1>1 DEF Has
<1>6. o \in Elsewhere /\ o \in Rows \ Addresses /\ o \in Rows \ {InvoiceDesk} /\ o \in Rows
      /\ Customers \subseteq Rows \ Addresses /\ Customers \subseteq Rows \ {InvoiceDesk} /\ Customers \subseteq Rows
      /\ o \notin Customers \cup PreOrders /\ Customers \cap PreOrders = {} /\ TheBatch \notin Customers
  BY <1>2, TablesDiffer, RowsAre DEF Elsewhere, CustomerRows
<1>7. CASE Priced(t) \/ Sought(t)
  <2>1. x.pc \notin WrittenAt \cup {"done", "failed"} /\ y.pc \notin FittedAt \cup {"hold", "convert"} /\ (o \in DOMAIN y.mine <=> o \in DOMAIN x.mine)
    BY <1>1, <1>4, <1>6, <1>7 DEF Priced, Sought, Steps, FinderAt, FittedAt, AddressAt, WrittenAt
  <2> QED
    BY <1>1, <1>2, <1>3, <2>1, BuysOn
<1>8. CASE Steps(t, {"begin"}, {"price"}) /\ BookingLocked(t)
  <2>1. PICK b, v : b \in PreOrders /\ Has(t, b, v)
    BY <1>8 DEF BookingLocked
  <2>2. x.pc \notin WrittenAt \cup {"done", "failed"} /\ y.pc \notin FittedAt \cup {"hold", "convert"}
    BY <1>1, <1>8 DEF Steps, FittedAt, AddressAt, WrittenAt
  <2>3. o \in DOMAIN y.mine <=> o \in DOMAIN x.mine
    BY <1>5, <1>6, <2>1
  <2> QED
    BY <1>1, <1>2, <1>3, <2>2, <2>3, BuysOn
<1>9. CASE BuyerTaken(t)
  <2>1. PICK c, v : c = x.fit /\ Has(t, c, v) /\ v.flag = View(t, c).flag
    BY <1>1, <1>9 DEF BuyerTaken
  <2>2. /\ c \in Customers /\ ~(View(t, c).flag = "Blocked" /\ ~Sent(t).ack) /\ y.fit = c
        /\ x.pc = "customer" /\ y.pc \in {"address", "header"}
    BY <1>1, <1>9, <2>1 DEF BuyerTaken, Unfit, Steps, StaysFit
  <2>3. Acknowledged(y, y.fit, j)
    BY <1>2, <1>5, <2>1, <2>2 DEF Acknowledged
  <2>4. o \notin DOMAIN y.mine
    BY <1>3, <1>5, <1>6, <2>1, <2>2 DEF WrittenAt
  <2> QED
    BY <1>1, <1>2, <2>2, <2>3, <2>4, BuysOn
<1>10. CASE AddressWritten(t) \/ Numbering(t)
  <2>1. /\ x.pc \in FittedAt /\ y.pc \in FittedAt /\ y.fit = x.fit /\ x.pc \notin WrittenAt \cup {"done", "failed"}
        /\ y.pc \notin {"hold", "convert"}
        /\ Leaves(t, Rows \ Addresses) \/ Leaves(t, Rows \ {InvoiceDesk})
    BY <1>1, <1>10 DEF AddressWritten, Numbering, Steps, StaysFit, FittedAt, AddressAt, WrittenAt
  <2>2. \A r \in Customers \cup {o} : (r \in DOMAIN y.mine <=> r \in DOMAIN x.mine) /\ (r \in DOMAIN x.mine => y.mine[r] = x.mine[r])
    BY <1>4, <1>6, <2>1
  <2>3. Acknowledged(y, y.fit, j)
    BY <1>3, <2>1, <2>2 DEF Acknowledged
  <2> QED
    BY <1>1, <1>2, <1>3, <2>1, <2>2, <2>3, BuysOn
<1>11. CASE OrderWritten(t)
  <2>1. PICK v : Has(t, o, v) /\ v.is = "Pending" /\ v.customer = x.fit
    BY <1>1, <1>2, <1>11 DEF OrderWritten
  <2>2. x.pc \in {"header", "insert"} /\ y.pc = "hold"
    BY <1>1, <1>11 DEF OrderWritten, Steps
  <2>3. Acknowledged(x, x.fit, j)
    BY <1>3, <2>2 DEF FittedAt
  <2>4. Acknowledged(y, v.customer, j)
    BY <1>5, <1>6, <2>1, <2>3 DEF Acknowledged
  <2>5. o \in DOMAIN y.mine /\ y.mine[o].is = "Pending" /\ Acknowledged(y, y.mine[o].customer, j)
    BY <1>5, <2>1, <2>4
  <2>6. \A c \in Customers : Makes(j, c) => db[c].is = "None"
    BY <1>2, <2>2 DEF Buys
  <2>7. y.pc \in WrittenAt /\ y.pc \notin FittedAt
    BY <2>2 DEF FittedAt, AddressAt, WrittenAt
  <2>8. j.row = o
    BY <1>1
  <2>9. Buys(db, y, j)
    BY <2>5, <2>6, <2>7, <2>8 DEF Buys
  <2> QED
    BY <1>1, <2>9
<1>12. CASE UnitsHeld(t)
  <2>1. PICK v : HoldsRow(t, o, v) /\ SameSale(v, View(t, o))
    BY <1>1, <1>2, <1>12 DEF UnitsHeld, Own
  <2>2. x.pc = "hold" /\ y.pc \in {"commit", "convert"}
    BY <1>1, <1>12 DEF UnitsHeld, Steps
  <2>3. x.mine[o].is = "Pending" /\ Acknowledged(x, x.mine[o].customer, j) /\ View(t, o) = x.mine[o]
    BY <1>2, <1>3, <1>6, <2>2
  <2>4. /\ DOMAIN y.mine = DOMAIN x.mine \cup {o, TheBatch} /\ y.mine[o] = v
        /\ \A s \in DOMAIN x.mine : s \notin {o, TheBatch} => y.mine[s] = x.mine[s]
    BY <1>1, <2>1 DEF HoldsRow
  <2>5. Acknowledged(y, v.customer, j)
    BY <1>6, <2>1, <2>3, <2>4 DEF Acknowledged, SameSale
  <2>6. o \in DOMAIN y.mine /\ y.mine[o].is = "Pending" /\ Acknowledged(y, y.mine[o].customer, j)
    BY <2>1, <2>3, <2>4, <2>5 DEF SameSale
  <2>7. \A c \in Customers : Makes(j, c) => db[c].is = "None"
    BY <1>2, <2>2 DEF Buys
  <2>8. y.pc \in WrittenAt /\ y.pc \notin FittedAt
    BY <2>2 DEF FittedAt, AddressAt, WrittenAt
  <2>9. j.row = o
    BY <1>1
  <2>10. Buys(db, y, j)
    BY <2>6, <2>7, <2>8, <2>9 DEF Buys
  <2> QED
    BY <1>1, <2>10
<1>13. CASE BookingClosed(t)
  <2>1. PICK b, w : b \in PreOrders /\ Has(t, b, w)
    BY <1>13 DEF BookingClosed
  <2>2. x.pc = "convert" /\ y.pc = "commit"
    BY <1>1, <1>13 DEF BookingClosed, Steps
  <2>3. o \in DOMAIN y.mine /\ y.mine[o] = x.mine[o] /\ x.mine[o].is = "Pending" /\ Acknowledged(y, x.mine[o].customer, j)
    BY <1>3, <1>5, <1>6, <2>1, <2>2 DEF Acknowledged
  <2> QED
    BY <1>1, <1>2, <2>2, <2>3 DEF Buys, FittedAt, AddressAt, WrittenAt
<1> QED
  BY <1>7, <1>8, <1>9, <1>10, <1>11, <1>12, <1>13 DEF OrderPlaced, OnlineWritten

\* A statement of t leaves its record in order.
LEMMA ActsBuy ==
    ASSUME DInv, BuyersInv, NEW t \in Requests, Acts(t), ~Finish(t)
    PROVE  Buys(db, tx'[t], job[t])
<1>1. Buys(db, tx[t], job[t])
  BY DEF BuyersInv
<1>2. CASE Refuse(t)
  BY <1>2, RefuseHas DEF Buys, FittedAt, AddressAt
<1>3. CASE job[t].do = "place" /\ ~Refuse(t)
  BY <1>1, <1>3, HandlerOf, OrderIsPlaced, PlaceBuys
<1>4. CASE job[t].do # "place" /\ ~Refuse(t)
  <2>1. \A c \in Customers : Makes(job[t], c) => db[c].is = "None"
    BY <1>1, <1>4, MakersOpen DEF Buys
  <2> QED
    BY <1>4, <2>1 DEF Buys
<1> QED
  BY <1>2, <1>3, <1>4

\* A customer another request adds is left alone.
LEMMA CommitBuys ==
    ASSUME DInv, BuyersInv, NEW t \in Requests, Finish(t)
    PROVE  BuyersInv'
<1>1. /\ tx[t].pc = "commit" /\ job' = job /\ tx'[t] = Blank("done") /\ \A u \in Requests : u # t => tx'[u] = tx[u]
      /\ \A r \in Rows : db'[r] = IF r \in DOMAIN tx[t].mine THEN tx[t].mine[r] ELSE db[r]
  BY FinishIs
<1>2. \A c \in Customers : db'[c] = db[c] \/ CustomerMoves(db[c], db'[c], job[t], c)
  BY <1>1, About, RowsAre DEF Knows, Fair, Moves
<1>3. Unflagged(db', job')
  BY <1>1, <1>2 DEF BuyersInv, Unflagged, CustomerMoves
<1>4. Buys(db', tx'[t], job'[t])
  <2>1. PICK x : x = Blank("done") /\ x.pc = "done" /\ DOMAIN x.mine = {}
    BY BlankIs
  <2>2. Buys(db', x, job'[t])
    BY <2>1 DEF Buys, FittedAt, AddressAt
  <2> QED
    BY <1>1, <2>1, <2>2
<1>5. ASSUME NEW u \in Requests, u # t
      PROVE  Buys(db', tx'[u], job'[u])
  <2>1. Buys(db, tx[u], job[u])
    BY DEF BuyersInv
  <2>2. ASSUME NEW c \in Customers, Makes(job[u], c), db[c].is = "None"
        PROVE  db'[c].is = "None"
    BY <1>2, <1>5, <2>2 DEF BuyersInv, AddsApart, CustomerMoves
  <2> QED
    BY <1>1, <1>5, <2>1, <2>2 DEF Buys
<1> QED
  BY <1>1, <1>3, <1>4, <1>5 DEF BuyersInv

LEMMA BuyersKept ==
    ASSUME DInv, BuyersInv, [Next]_vars
    PROVE  BuyersInv'
<1>1. CASE UNCHANGED vars
  BY <1>1 DEF vars, BuyersInv
<1>2. ASSUME NEW t \in Requests, Acts(t), ~Finish(t)
      PROVE  BuyersInv'
  <2>1. db' = db /\ job' = job /\ \A u \in Requests : u # t => tx'[u] = tx[u]
    BY <1>2, ActsKeep
  <2>2. Buys(db, tx'[t], job[t])
    BY <1>2, ActsBuy
  <2> QED
    BY <2>1, <2>2 DEF BuyersInv
<1> QED
  BY <1>1, <1>2, CommitBuys, NextActs

\* Only a COMMIT changes what others see.
LEMMA NextCommits ==
    ASSUME DInv, [Next]_vars
    PROVE  db' = db \/ \E t \in Requests : Finish(t)
<1>1. CASE UNCHANGED vars
  BY <1>1 DEF vars
<1>2. ASSUME NEW t \in Requests, Acts(t), ~Finish(t)
      PROVE  db' = db
  BY <1>2, ActsKeep
<1> QED
  BY <1>1, <1>2, NextActs

\* Whoever is blocked when their order is placed has been acknowledged.
PlacesAcknowledged ==
    \A o \in Orders :
        db[o].is \in {"None", "Draft"} /\ db'[o].is = "Pending" /\ db[db'[o].customer].flag = "Blocked" =>
            Sent(lock[o]).ack

LEMMA BlockedIsAcknowledged ==
    ASSUME DInv, BuyersInv, [Next]_vars
    PROVE  PlacesAcknowledged
<1> SUFFICES ASSUME NEW o \in Orders, db[o].is \in {"None", "Draft"}, db'[o].is = "Pending",
                    db[db'[o].customer].flag = "Blocked"
             PROVE  Sent(lock[o]).ack
  BY DEF PlacesAcknowledged
<1>1. PICK t \in Requests : Finish(t)
  BY NextCommits
<1>2. /\ tx[t].pc = "commit"
      /\ \A r \in Rows : db'[r] = IF r \in DOMAIN tx[t].mine THEN tx[t].mine[r] ELSE db[r]
  BY <1>1, FinishIs
<1>3. PICK x, j : x = tx[t] /\ j = job[t]
  OBVIOUS
<1>4. o \in DOMAIN x.mine /\ db'[o] = x.mine[o] /\ lock[o] = t
  BY <1>2, <1>3, About, RowsAre
<1>5. \A r \in DOMAIN x.mine : Fair(db, r, x.mine[r], j)
  BY <1>3, About DEF Knows
<1>6. OrderMoves(db[o], x.mine[o], j, o)
  BY <1>4, <1>5 DEF Fair, Moves
<1>7. j.do = "place" /\ o = j.row
  <2>1. x.mine[o].is = "Pending" /\ db[o].is \in {"None", "Draft"}
    BY <1>4
  <2>2. ~Follows(db[o], x.mine[o])
    BY <2>1 DEF Follows
  <2> QED
    BY <1>6, <2>1, <2>2 DEF OrderMoves
<1>8. PICK c : c = x.mine[o].customer /\ Acknowledged(x, c, j)
  BY <1>3, <1>4, <1>7 DEF BuyersInv, Buys
<1>9. CustomerMoves(db[c], x.mine[c], j, c)
  BY <1>5, <1>8 DEF Acknowledged, Fair, Moves
<1>10. x.mine[c].flag = "Blocked"
  <2>1. CASE Makes(j, c)
    <3>1. db[c].is = "None"
      BY <1>2, <1>3, <1>8, <2>1 DEF BuyersInv, Buys, Acknowledged
    <3>2. db[c].flag = "None"
      BY <1>8, <3>1 DEF BuyersInv, Unflagged, Acknowledged
    <3> QED
      BY <1>4, <1>8, <3>2
  <2>2. CASE ~Makes(j, c)
    BY <1>4, <1>7, <1>8, <1>9, <2>2 DEF CustomerMoves
  <2> QED
    BY <2>1, <2>2
<1> QED
  BY <1>3, <1>4, <1>8, <1>10 DEF Acknowledged, Sent

\* A new request has bought nothing.
LEMMA BuyersStart ==
    ASSUME Init
    PROVE  BuyersInv
<1>1. DInv /\ Opening(db) /\ Meets(job, db) /\ \A t \in Requests : tx[t] = Blank("begin")
  BY StartIs
<1>2. ASSUME NEW t \in Requests, NEW c \in Customers, Makes(job[t], c)
      PROVE  AddsCustomer(job[t]) /\ job[t].to.new = c
  BY <1>2 DEF Makes, Sells, AddsCustomer
<1>3. AddsApart(job)
  BY <1>1, <1>2 DEF AddsApart, Meets
<1>4. Unflagged(db, job)
  BY <1>1 DEF Unflagged, Opening, Meets
<1>5. ASSUME NEW t \in Requests
      PROVE  Buys(db, tx[t], job[t])
  <2>1. \A c \in Customers : Makes(job[t], c) => db[c].is = "None"
    BY <1>1, <1>2 DEF Meets
  <2>2. tx[t].pc = "begin" /\ DOMAIN tx[t].mine = {}
    BY <1>1, BlankIs
  <2> QED
    BY <2>1, <2>2 DEF Buys, FittedAt, AddressAt
<1> QED
  BY <1>3, <1>4, <1>5 DEF BuyersInv
-----------------------------------------------------------------------------
(* Closed campaigns *)

\* The line's campaign runs, and t keeps it from being closed.
Open(rows, sh, t, l) == t \in sh[rows[l].campaign] /\ rows[rows[l].campaign].is \in Running

\* A gift in a parcel is for no campaign.
Aside(rows) == \A g \in Gifts : rows[g].order # NoOrder => rows[g].line = NoLine

LookingAt == {"line", "campaign"}

\* Whoever gives has locked the gift, perhaps the batch, and nothing of a campaign; between the gift's
\* statement and the campaign's nothing is known of the campaign, and after it that it stays open.
GivesOpen(rows, sh, t, x, j) ==
    Gives(j) =>
        /\ DOMAIN x.mine \subseteq {j.row, TheBatch}
        /\ x.pc \in LookingAt => /\ j.row \in DOMAIN x.mine /\ x.mine[j.row].line \in Lines
                                 /\ DraftsGift(j) => x.mine[j.row].line = j.to.line
        /\ j.row \in DOMAIN x.mine \cap Gifts /\ x.pc \notin LookingAt /\ x.mine[j.row].is # rows[j.row].is
                /\ x.mine[j.row].line # NoLine =>
            Open(rows, sh, t, x.mine[j.row].line)

CampaignsInv == Aside(db) /\ \A t \in Requests : GivesOpen(db, shared, t, tx[t], job[t])

LEMMA ShareHas ==
    ASSUME DInv, NEW t \in Requests, NEW r \in Rows, NEW pc, Share(t, {r}, To(t, pc))
    PROVE  tx'[t].pc = pc /\ tx'[t].mine = tx[t].mine /\ t \in shared'[r]
<1>1. PICK y : y = To(t, pc) /\ y.mine = tx[t].mine /\ y.pc = pc
  BY ToIs
<1>2. Went(t, y) /\ t \in shared'[r]
  BY <1>1, ShareIs
<1>3. tx'[t] = y
  BY <1>2 DEF Went, DInv
<1> QED
  BY <1>1, <1>2, <1>3

\* The campaign is found running, and shared.
LEMMA CampaignShared ==
    ASSUME DInv, NEW t \in Requests, NEW l \in Lines, NEW pc, DOMAIN tx[t].mine \cap (Lines \cup Campaigns_) = {},
           ShareCampaign(t, l, pc), ~Refuse(t)
    PROVE  tx'[t].pc = pc /\ tx'[t].mine = tx[t].mine /\ Open(db, shared', t, l)
<1>1. PICK c : c = db[l].campaign /\ c \in Campaigns_
  BY About, RowsAre DEF Fits
<1>2. View(t, l) = db[l] /\ View(t, c) = db[c]
  BY <1>1, About, RowsAre
<1>3. CampaignOf(t, l) = c
  BY <1>1, <1>2 DEF CampaignOf
<1>4. db[c].is \in Running /\ Share(t, {c}, To(t, pc))
  BY <1>2, <1>3 DEF ShareCampaign
<1>5. tx'[t].pc = pc /\ tx'[t].mine = tx[t].mine /\ t \in shared'[c]
  BY <1>1, <1>4, ShareHas, RowsAre
<1> QED
  BY <1>1, <1>4, <1>5 DEF Open

LEMMA DraftGiftOpen ==
    ASSUME DInv, NEW t \in Requests, GivesOpen(db, shared, t, tx[t], job[t]), create_giveaway(t), ~Refuse(t)
    PROVE  GivesOpen(db, shared', t, tx'[t], job[t])
<1>1. PICK x, y, j, g : x = tx[t] /\ y = tx'[t] /\ j = job[t] /\ g = j.row
  OBVIOUS
<1>2. DraftsGift(j) /\ Gives(j) /\ g \in Gifts /\ Row(t) = g /\ Sent(t) = j.to
  BY <1>1 DEF create_giveaway, Asks, Do, Row, Sent, Gives, DraftsGift
<1>3. Form(j)
  BY <1>1, About
<1>4. /\ DOMAIN x.mine \subseteq {g, TheBatch}
      /\ x.pc \in LookingAt => g \in DOMAIN x.mine /\ x.mine[g].line = j.to.line /\ j.to.line \in Lines
  BY <1>1, <1>2 DEF GivesOpen
<1>5. j.to.line \in Lines \cup {NoLine}
  BY <1>2, <1>3 DEF Form, DraftsGift
<1>6. ASSUME x.pc = "begin"
      PROVE  DOMAIN x.mine = {}
  BY <1>1, <1>6, About DEF Knows, Idle
<1>7. CASE Change(t, Version(g, Gift(t, "Draft", "None")), To(t, IF Sent(t).line = NoLine THEN "commit" ELSE "line"))
  <2>1. PICK v, pc : v = Gift(t, "Draft", "None") /\ pc = IF Sent(t).line = NoLine THEN "commit" ELSE "line"
    OBVIOUS
  <2>2. v.line = j.to.line
    BY <1>2, <2>1 DEF Gift
  <2>3. y.pc = pc /\ DOMAIN y.mine = DOMAIN x.mine \cup {g} /\ y.mine[g] = v
    BY <1>1, <1>7, <2>1, VersionToHas DEF Has
  <2>4. GivesOpen(db, shared', t, y, j)
    BY <1>1, <1>2, <1>4, <1>5, <2>1, <2>2, <2>3 DEF GivesOpen, LookingAt
  <2> QED
    BY <1>1, <2>4
<1>8. CASE x.pc = "begin" /\ Look(t, To(t, "commit"))
  <2>1. y.mine = x.mine /\ y.pc = "commit"
    BY <1>1, <1>8, LookToHas
  <2>2. GivesOpen(db, shared', t, y, j)
    BY <1>1, <1>2, <1>6, <1>8, <2>1 DEF GivesOpen, LookingAt
  <2> QED
    BY <1>1, <2>2
<1>9. CASE x.pc = "line" /\ Share(t, {Sent(t).line}, To(t, "campaign"))
  <2>1. PICK l : l = j.to.line /\ l \in Lines /\ Share(t, {l}, To(t, "campaign"))
    BY <1>2, <1>4, <1>9 DEF LookingAt
  <2>2. y.mine = x.mine /\ y.pc = "campaign"
    BY <1>1, <2>1, ShareHas, RowsAre
  <2>3. GivesOpen(db, shared', t, y, j)
    BY <1>1, <1>2, <1>4, <1>9, <2>1, <2>2 DEF GivesOpen, LookingAt
  <2> QED
    BY <1>1, <2>3
<1>10. CASE x.pc = "campaign" /\ ShareCampaign(t, Sent(t).line, "commit")
  <2>1. PICK l : l = j.to.line /\ l \in Lines /\ ShareCampaign(t, l, "commit") /\ x.mine[g].line = l
    BY <1>2, <1>4, <1>10 DEF LookingAt
  <2>2. DOMAIN tx[t].mine \cap (Lines \cup Campaigns_) = {}
    BY <1>1, <1>2, <1>4, TablesDiffer, RowsAre
  <2>3. y.mine = x.mine /\ y.pc = "commit" /\ Open(db, shared', t, l)
    BY <1>1, <2>1, <2>2, CampaignShared
  <2>4. GivesOpen(db, shared', t, y, j)
    BY <1>1, <1>2, <1>4, <2>1, <2>3 DEF GivesOpen, LookingAt
  <2> QED
    BY <1>1, <2>4
<1>11. \/ Change(t, Version(g, Gift(t, "Draft", "None")), To(t, IF Sent(t).line = NoLine THEN "commit" ELSE "line"))
       \/ x.pc = "begin" /\ Look(t, To(t, "commit"))
       \/ x.pc = "line" /\ Share(t, {Sent(t).line}, To(t, "campaign"))
       \/ x.pc = "campaign" /\ ShareCampaign(t, Sent(t).line, "commit")
  BY <1>1, <1>2 DEF create_giveaway, At
<1> QED
  BY <1>7, <1>8, <1>9, <1>10, <1>11

LEMMA GiveOpen ==
    ASSUME DInv, LinesInv, NEW t \in Requests, GivesOpen(db, shared, t, tx[t], job[t]), give_giveaway(t), ~Refuse(t)
    PROVE  GivesOpen(db, shared', t, tx'[t], job[t])
<1>1. PICK x, y, j, g : x = tx[t] /\ y = tx'[t] /\ j = job[t] /\ g = j.row
  OBVIOUS
<1>2. ~DraftsGift(j) /\ Gives(j) /\ g \in Gifts /\ Row(t) = g
  BY <1>1 DEF give_giveaway, Asks, Do, Row, Gives, DraftsGift
<1>3. /\ \A r \in Rows : View(t, r) = IF r \in DOMAIN x.mine THEN x.mine[r] ELSE db[r]
      /\ g \in Rows /\ g # TheBatch /\ Own(t) = View(t, g) /\ DOMAIN y.mine \subseteq Rows
  <2>1. DInv'
    BY ActsKeep, NextActs DEF Acts, GiftStep, give_giveaway, Finish, Commit, At
  <2>2. {r \in Rows : lock'[r] = t} = DOMAIN tx'[t].mine
    BY <2>1 DEF DInv
  <2>3. g \in Rows /\ g # TheBatch
    BY <1>2, TablesDiffer, RowsAre
  <2>4. \A r \in Rows : View(t, r) = IF r \in DOMAIN tx[t].mine THEN tx[t].mine[r] ELSE db[r]
    BY About
  <2> QED
    BY <1>1, <1>2, <2>2, <2>3, <2>4 DEF Own
<1>4. /\ DOMAIN x.mine \subseteq {g, TheBatch}
      /\ x.pc \in LookingAt => g \in DOMAIN x.mine /\ x.mine[g].line \in Lines
  BY <1>1, <1>2 DEF GivesOpen
<1>5. CASE x.pc = "begin" /\ Press(t, {"Draft"}, "Given", To(t, IF Own(t).line = NoLine THEN "leave" ELSE "campaign"))
  <2>1. PICK v, pc : v = Updated(Own(t), [is |-> "Given"]) /\ pc = IF Own(t).line = NoLine THEN "leave" ELSE "campaign"
    OBVIOUS
  <2>2. Change(t, Version(g, v), To(t, pc))
    BY <1>2, <1>5, <2>1 DEF Press
  <2>3. y.pc = pc /\ DOMAIN y.mine = DOMAIN x.mine \cup {g} /\ y.mine[g] = v
    BY <1>1, <2>2, VersionToHas DEF Has
  <2>4. v.line = Own(t).line
    <3>0. DOMAIN [is |-> "Given"] = {"is"}
      OBVIOUS
    <3>1. PICK old, new : old = Own(t) /\ new = [is |-> "Given"] /\ DOMAIN new = {"is"}
      BY <3>0
    <3>2. HasColumns(old, GiftColumns)
      BY <1>2, <1>3, <3>1, GiftIs
    <3>3. DOMAIN old = GiftColumns
      BY <3>2 DEF HasColumns
    <3>4. Rewritten(v, old, new)
      BY <2>1, <3>1, UpdatedIs
    <3> QED
      BY <3>1, <3>3, <3>4 DEF Rewritten, GiftColumns
  <2>5. Own(t).line \in Lines \cup {NoLine}
    BY <1>2, <1>3, GiftIs DEF Fair, Fits
  <2>6. GivesOpen(db, shared', t, y, j)
    BY <1>1, <1>2, <1>4, <2>1, <2>3, <2>4, <2>5 DEF GivesOpen, LookingAt
  <2> QED
    BY <1>1, <2>6
<1>6. CASE x.pc = "campaign" /\ ShareCampaign(t, Own(t).line, "leave")
  <2>1. PICK l : l = x.mine[g].line /\ l \in Lines /\ ShareCampaign(t, l, "leave")
    BY <1>3, <1>4, <1>6 DEF LookingAt
  <2>2. DOMAIN tx[t].mine \cap (Lines \cup Campaigns_) = {}
    BY <1>1, <1>2, <1>4, TablesDiffer, RowsAre
  <2>3. y.mine = x.mine /\ y.pc = "leave" /\ Open(db, shared', t, l)
    BY <1>1, <2>1, <2>2, CampaignShared
  <2>4. GivesOpen(db, shared', t, y, j)
    BY <1>1, <1>2, <1>4, <2>1, <2>3 DEF GivesOpen, LookingAt
  <2> QED
    BY <1>1, <2>4
<1>7. CASE x.pc = "leave" /\ deductFreeStock(t, Own(t).units, "commit")
  <2>1. y.pc = "commit" /\ \A S : TheBatch \notin S => Leaves(t, S)
    BY <1>1, <1>7, DeductHas
  <2>2. Leaves(t, Rows \ {TheBatch})
    BY <2>1
  <2>3. \A r \in Rows \ {TheBatch} : (r \in DOMAIN y.mine <=> r \in DOMAIN x.mine) /\ (r \in DOMAIN x.mine => y.mine[r] = x.mine[r])
    BY <1>1, <2>2 DEF Leaves
  <2>4. DOMAIN y.mine \subseteq {g, TheBatch} /\ (g \in DOMAIN y.mine => g \in DOMAIN x.mine /\ y.mine[g] = x.mine[g])
    BY <1>3, <1>4, <2>3
  <2>5. shared' = shared
    BY <1>7 DEF deductFreeStock, Change
  <2>6. GivesOpen(db, shared', t, y, j)
    BY <1>1, <1>2, <1>7, <2>1, <2>4, <2>5 DEF GivesOpen, LookingAt
  <2> QED
    BY <1>1, <2>6
<1> QED
  BY <1>1, <1>5, <1>6, <1>7 DEF give_giveaway, At

LEMMA ActsOpen ==
    ASSUME DInv, LinesInv, CampaignsInv, NEW t \in Requests, Acts(t), ~Finish(t)
    PROVE  GivesOpen(db, shared', t, tx'[t], job[t])
<1>1. GivesOpen(db, shared, t, tx[t], job[t])
  BY DEF CampaignsInv
<1>2. CASE Refuse(t)
  <2>1. PICK y : y = tx'[t] /\ y.pc = "failed" /\ DOMAIN y.mine = {}
    BY <1>2, RefuseHas
  <2>2. GivesOpen(db, shared', t, y, job[t])
    BY <2>1 DEF GivesOpen, LookingAt
  <2> QED
    BY <2>1, <2>2
<1>3. CASE ~Gives(job[t])
  BY <1>3 DEF GivesOpen
<1>4. CASE Gives(job[t]) /\ ~Refuse(t)
  <2>1. create_giveaway(t) \/ give_giveaway(t)
    BY <1>4, HandlerOf, Zenon DEF Gives
  <2> QED
    BY <1>1, <1>4, <2>1, DraftGiftOpen, GiveOpen
<1> QED
  BY <1>2, <1>3, <1>4

\* A campaign that is kept open by u stays so.
LEMMA StaysOpen ==
    ASSUME DInv, LinesInv, NEW t \in Requests, Finish(t), NEW u \in Requests, u # t,
           NEW l \in Lines, db[l].is # "None", Open(db, shared, u, l)
    PROVE  Open(db', shared', u, l)
<1>1. /\ \A r \in Rows : db'[r] = IF r \in DOMAIN tx[t].mine THEN tx[t].mine[r] ELSE db[r]
      /\ \A r \in Rows : shared'[r] = shared[r] \ {t}
  BY FinishIs
<1>2. /\ \A r \in DOMAIN tx[t].mine : shared[r] \subseteq {t} /\ Fair(db, r, tx[t].mine[r], job[t])
      /\ \A r \in Rows : Fits(r, db[r])
  BY About DEF Knows
<1>3. PICK c : c = db[l].campaign /\ c \in Campaigns_ /\ c \in Rows /\ l \in Rows
  BY <1>2, RowsAre DEF Fits
<1>4. u \in shared[c] /\ db[c].is \in Running
  BY <1>3 DEF Open
<1>5. c \notin DOMAIN tx[t].mine
  BY <1>2, <1>4
<1>6. db'[c] = db[c] /\ u \in shared'[c]
  BY <1>1, <1>3, <1>4, <1>5
<1>7. db'[l].campaign = c
  <2>1. CASE l \in DOMAIN tx[t].mine
    <3>1. LineMoves(db[l], tx[t].mine[l], job[t])
      BY <1>2, <2>1 DEF Fair, Moves
    <3> QED
      BY <1>1, <1>3, <2>1, <3>1 DEF LineMoves
  <2>2. CASE l \notin DOMAIN tx[t].mine
    BY <1>1, <1>3, <2>2
  <2> QED
    BY <2>1, <2>2
<1> QED
  BY <1>4, <1>6, <1>7 DEF Open

\* The line of a gift somebody has written is there, but for a draft whose line is about to be looked at.
LEMMA GiftLineIs ==
    ASSUME DInv, LinesInv, NEW t \in Requests, NEW g \in Gifts, g \in DOMAIN tx[t].mine, tx[t].pc \notin LookingAt,
           tx[t].mine[g].is # "None", tx[t].mine[g].line # NoLine
    PROVE  tx[t].mine[g].line \in Lines /\ db[tx[t].mine[g].line].is = "On"
<1>1. PICK x, j, l : x = tx[t] /\ j = job[t] /\ l = x.mine[g].line
  OBVIOUS
<1>2. l \in Lines
  BY <1>1, About DEF Knows, Fair, Fits
<1>3. RecordOn(g, x.mine[g], l)
  BY <1>1 DEF RecordOn
<1>4. CASE RecordOn(g, db[g], l)
  BY <1>1, <1>2, <1>4, RecordsAre, RowsAre DEF LinesInv, DInv
<1>5. CASE ~RecordOn(g, db[g], l)
  <2>1. Keeps(db, shared, t, x, l)
    BY <1>1, <1>2, <1>3, <1>5 DEF LinesInv, Refers, RecordsHeld, LookingAt
  <2> QED
    BY <1>1, <1>2, <2>1 DEF Keeps
<1> QED
  BY <1>4, <1>5

\* A gift is given, or drafted, for a campaign by who keeps that open.
LEMMA GivenOpen ==
    ASSUME DInv, CampaignsInv, NEW t \in Requests, NEW g \in Gifts, g \in DOMAIN tx[t].mine, tx[t].pc \notin LookingAt,
           tx[t].mine[g].is # db[g].is, tx[t].mine[g].is \in {"Draft", "Given"}, tx[t].mine[g].line # NoLine
    PROVE  Gives(job[t]) /\ g = job[t].row /\ Open(db, shared, t, tx[t].mine[g].line)
<1>1. PICK x, j, v : x = tx[t] /\ j = job[t] /\ v = x.mine[g]
  OBVIOUS
<1>2. GiftMoves(db[g], v, j, g) /\ Form(j) /\ Aside(db)
  BY <1>1, About DEF Knows, Fair, Moves, CampaignsInv
<1>3. v.order = NoOrder
  <2>1. CASE v.line = db[g].line /\ v.order = db[g].order
    BY <1>1, <1>2, <2>1 DEF Aside
  <2>2. CASE DraftsGift(j) /\ v.order = j.to.order
    BY <1>2, <2>2 DEF Form, DraftsGift
  <2>3. CASE j.do = "add" /\ v.line = j.to.line
    BY <1>1, <1>2, <2>3 DEF Form
  <2> QED
    BY <1>2, <2>1, <2>2, <2>3 DEF GiftMoves, DraftsGift
<1>4. MayBecome(v, v.is, j, g)
  BY <1>1, <1>2 DEF GiftMoves
<1>5. Gives(j) /\ g = j.row
  BY <1>1, <1>3, <1>4 DEF MayBecome
<1>6. GivesOpen(db, shared, t, x, j)
  BY <1>1 DEF CampaignsInv
<1> QED
  BY <1>1, <1>5, <1>6 DEF GivesOpen

LEMMA CommitOpen ==
    ASSUME DInv, LinesInv, CampaignsInv, NEW t \in Requests, Finish(t)
    PROVE  CampaignsInv'
<1>1. /\ tx'[t] = Blank("done") /\ job' = job /\ \A u \in Requests : u # t => tx'[u] = tx[u]
      /\ \A r \in Rows : db'[r] = IF r \in DOMAIN tx[t].mine THEN tx[t].mine[r] ELSE db[r]
  BY FinishIs
<1>2. Aside(db')
  <2> SUFFICES ASSUME NEW g \in Gifts, db'[g].order # NoOrder
               PROVE  db'[g].line = NoLine
    BY DEF Aside
  <2>1. Aside(db)
    BY DEF CampaignsInv
  <2>2. CASE g \notin DOMAIN tx[t].mine
    BY <1>1, <2>1, <2>2, RowsAre DEF Aside
  <2>3. CASE g \in DOMAIN tx[t].mine
    <3>1. PICK j, v : j = job[t] /\ v = tx[t].mine[g] /\ db'[g] = v
      BY <1>1, <2>3, RowsAre
    <3>2. GiftMoves(db[g], v, j, g) /\ Form(j)
      BY <2>3, <3>1, About DEF Knows, Fair, Moves
    <3>3. CASE v.line = db[g].line /\ v.order = db[g].order
      BY <2>1, <3>1, <3>3 DEF Aside
    <3>4. CASE DraftsGift(j) /\ v.order = j.to.order
      BY <3>1, <3>2, <3>4 DEF Form, DraftsGift
    <3>5. CASE j.do = "add" /\ v.line = j.to.line
      BY <3>1, <3>2, <3>5 DEF Form
    <3> QED
      BY <3>2, <3>3, <3>4, <3>5 DEF GiftMoves, DraftsGift
  <2> QED
    BY <2>2, <2>3
<1>3. GivesOpen(db', shared', t, tx'[t], job'[t])
  <2>1. PICK y : y = Blank("done") /\ y.pc = "done" /\ DOMAIN y.mine = {}
    BY BlankIs
  <2>2. GivesOpen(db', shared', t, y, job'[t])
    BY <2>1 DEF GivesOpen, LookingAt
  <2> QED
    BY <1>1, <2>1, <2>2
<1>4. ASSUME NEW u \in Requests, u # t
      PROVE  GivesOpen(db', shared', u, tx[u], job[u])
  <2>1. PICK x, j, g, v : x = tx[u] /\ j = job[u] /\ g = j.row /\ v = x.mine[g]
    OBVIOUS
  <2>2. GivesOpen(db, shared, u, x, j)
    BY <2>1 DEF CampaignsInv
  <2>3. \A r \in DOMAIN x.mine : db'[r] = db[r]
    BY <1>4, <2>1, FinishIs
  <2>4. ASSUME Gives(j), g \in DOMAIN x.mine \cap Gifts, x.pc \notin LookingAt, v.is # db'[g].is, v.line # NoLine
        PROVE  Open(db', shared', u, v.line)
    <3>1. Open(db, shared, u, v.line)
      BY <2>1, <2>2, <2>3, <2>4 DEF GivesOpen
    <3>2. v.is # "None"
      <4>1. GiftMoves(db[g], v, j, g) /\ db'[g] = db[g]
        BY <2>1, <2>3, <2>4, About DEF Knows, Fair, Moves
      <4> QED
        BY <2>4, <4>1 DEF GiftMoves
    <3>3. v.line \in Lines /\ db[v.line].is = "On"
      BY <2>1, <2>4, <3>2, GiftLineIs
    <3> QED
      BY <1>4, <3>1, <3>3, StaysOpen
  <2>5. GivesOpen(db', shared', u, x, j)
    BY <2>1, <2>2, <2>4 DEF GivesOpen
  <2> QED
    BY <2>1, <2>5
<1>5. \A u \in Requests : GivesOpen(db', shared', u, tx'[u], job'[u])
  BY <1>1, <1>3, <1>4
<1> QED
  BY <1>2, <1>5 DEF CampaignsInv

LEMMA CampaignsKept ==
    ASSUME DInv, LinesInv, CampaignsInv, [Next]_vars
    PROVE  CampaignsInv'
<1>1. CASE UNCHANGED vars
  BY <1>1 DEF vars, CampaignsInv
<1>2. ASSUME NEW t \in Requests, Acts(t), ~Finish(t)
      PROVE  CampaignsInv'
  <2>1. /\ db' = db /\ job' = job /\ \A u \in Requests : u # t => tx'[u] = tx[u]
        /\ \A u \in Requests, r \in Rows : u # t => (u \in shared'[r] <=> u \in shared[r])
    BY <1>2, ActsKeep
  <2>2. GivesOpen(db, shared', t, tx'[t], job[t])
    BY <1>2, ActsOpen
  <2>3. ASSUME NEW u \in Requests, u # t
        PROVE  GivesOpen(db, shared', u, tx[u], job[u])
    <3>1. PICK x, j : x = tx[u] /\ j = job[u]
      OBVIOUS
    <3>2. GivesOpen(db, shared, u, x, j)
      BY <3>1 DEF CampaignsInv
    <3>3. ASSUME NEW g \in Gifts, g \in DOMAIN x.mine, x.mine[g].line # NoLine, Open(db, shared, u, x.mine[g].line)
          PROVE  Open(db, shared', u, x.mine[g].line)
      <4>1. PICK l : l = x.mine[g].line /\ l \in Lines
        BY <3>1, <3>3, About DEF Knows, Fair, Fits
      <4>2. db[l].campaign \in Rows
        BY <4>1, About, RowsAre DEF Fits
      <4> QED
        BY <2>1, <2>3, <3>3, <4>1, <4>2 DEF Open
    <3>4. GivesOpen(db, shared', u, x, j)
      BY <3>2, <3>3 DEF GivesOpen
    <3> QED
      BY <3>1, <3>4
  <2> QED
    BY <2>1, <2>2, <2>3 DEF CampaignsInv
<1> QED
  BY <1>1, <1>2, CommitOpen, NextActs

\* A gift is drafted, or given, for a campaign that runs.
GivesWhileOpen ==
    \A g \in Gifts :
        db'[g].line # NoLine /\ db'[g].is \in {"Draft", "Given"} /\ db'[g].is # db[g].is =>
            db[db[db'[g].line].campaign].is \in Running

LEMMA CampaignIsOpen ==
    ASSUME DInv, CampaignsInv, [Next]_vars
    PROVE  GivesWhileOpen
<1> SUFFICES ASSUME NEW g \in Gifts, db'[g].line # NoLine, db'[g].is \in {"Draft", "Given"}, db'[g].is # db[g].is
             PROVE  db[db[db'[g].line].campaign].is \in Running
  BY DEF GivesWhileOpen
<1>1. PICK t \in Requests : Finish(t)
  BY NextCommits
<1>2. /\ tx[t].pc = "commit"
      /\ \A r \in Rows : db'[r] = IF r \in DOMAIN tx[t].mine THEN tx[t].mine[r] ELSE db[r]
  BY <1>1, FinishIs
<1>3. g \in DOMAIN tx[t].mine /\ db'[g] = tx[t].mine[g]
  BY <1>2, RowsAre
<1>4. Open(db, shared, t, tx[t].mine[g].line)
  BY <1>2, <1>3, GivenOpen DEF LookingAt
<1> QED
  BY <1>3, <1>4 DEF Open

LEMMA CampaignsStart ==
    ASSUME Init
    PROVE  CampaignsInv
<1>1. Opening(db) /\ \A t \in Requests : tx[t] = Blank("begin")
  BY StartIs
<1>2. ASSUME NEW t \in Requests
      PROVE  GivesOpen(db, shared, t, tx[t], job[t])
  <2>1. PICK y : y = tx[t] /\ y.pc = "begin" /\ DOMAIN y.mine = {}
    BY <1>1, BlankIs
  <2>2. GivesOpen(db, shared, t, y, job[t])
    BY <2>1 DEF GivesOpen, LookingAt
  <2> QED
    BY <2>1, <2>2
<1> QED
  BY <1>1, <1>2 DEF CampaignsInv, Aside, Opening

\* What a handler refused for it still would when it writes: nobody is sold to who is blocked by then, unless
\* the person knows, and nothing is given for a campaign that was closed meanwhile.
THEOREM RefusalsStand == Spec => RefusalsStillHold
<1>1. Init => DInv /\ LinesInv /\ BuyersInv /\ CampaignsInv
  BY StartIs, LinesStart, BuyersStart, CampaignsStart
<1>2. (DInv /\ LinesInv /\ BuyersInv /\ CampaignsInv) /\ [Next]_vars => (DInv /\ LinesInv /\ BuyersInv /\ CampaignsInv)'
  BY NextKeeps, LinesKept, BuyersKept, CampaignsKept
<1>3. (DInv /\ LinesInv /\ BuyersInv /\ CampaignsInv) /\ [Next]_vars => [PlacesAcknowledged]_vars
  BY BlockedIsAcknowledged
<1>4. (DInv /\ LinesInv /\ BuyersInv /\ CampaignsInv) /\ [Next]_vars => [GivesWhileOpen]_vars
  BY CampaignIsOpen
<1>5. Spec => [][PlacesAcknowledged]_vars /\ [][GivesWhileOpen]_vars
  BY <1>1, <1>2, <1>3, <1>4, PTL DEF Spec
<1>6. Spec => BlockedNeedsAck
  BY <1>5 DEF BlockedNeedsAck, PlacesAcknowledged
<1>7. Spec => ClosedCampaignGivesNothing
  BY <1>5 DEF ClosedCampaignGivesNothing, GivesWhileOpen
<1> QED
  BY <1>6, <1>7 DEF RefusalsStillHold
-----------------------------------------------------------------------------
(* Bookings *)

\* What an order is paid, as its request sends it.
PaidOf(j) == resolveAmountPaid(PAYMENT_STATUS[j.to.pay], j.to.total, j.to.amount)

\* An order and the booking that became it agree.
Agree(order, booking, o) ==
    /\ booking.is = "Converted" /\ booking.order = o
    /\ order.customer = booking.customer /\ order.units >= booking.units
    /\ order.paid = IF order.is = "Delivered" THEN order.total ELSE booking.advance - booking.refunded

Booked(rows) ==
    /\ \A b \in PreOrders : rows[b].is = "Converted" => \E o \in Orders : rows[o].booking = b
    /\ \A o \in Orders : rows[o].booking \in PreOrders =>
        rows[o].is \notin {"None", "Draft"} /\ Agree(rows[o], rows[rows[o].booking], o)

\* Placed for a booking: that is locked, then found to fit the customer, then the order it is written into.
PlaceCloses(rows, x, o, b, j) ==
    /\ x.pc \notin {"begin", "commit", "done", "failed"} => b \in DOMAIN x.mine
    /\ x.pc \in FittedAt => checkConversion(x.mine[b], x.fit, j.to.units, PaidOf(j))
    /\ x.pc \in {"hold", "convert"} =>
        /\ o \in DOMAIN x.mine /\ x.mine[o].is = "Pending" /\ x.mine[o].booking = b
        /\ checkConversion(x.mine[b], x.mine[o].customer, x.mine[o].units, x.mine[o].paid)
    /\ x.pc = "commit" =>
        /\ o \in DOMAIN x.mine /\ x.mine[o].is = "Pending" /\ x.mine[o].booking = b
        /\ b \in DOMAIN x.mine /\ Agree(x.mine[o], x.mine[b], o) /\ rows[b].is # "Converted"

\* An order made from a booking is edited: it still fits the booking, which nobody changes any more.
EditAt == FinderAt \cup FittedAt \cup {"check", "booking", "price", "customer", "hold"}

EditFits(rows, x, o, j) ==
    /\ x.pc \in EditAt => o \in DOMAIN x.mine
    /\ rows[o].booking \in PreOrders =>
        /\ o \in DOMAIN x.mine => Agree(x.mine[o], rows[rows[o].booking], o)
        /\ x.pc \in FittedAt => checkConversion(rows[rows[o].booking], x.fit, j.to.units, PaidOf(j))

Closes(rows, x, j) ==
    /\ j.do = "place" /\ x.pc = "commit" => j.row \in Orders
    /\ j.do = "place" /\ j.row \in Orders /\ j.to.booking \in PreOrders => PlaceCloses(rows, x, j.row, j.to.booking, j)
    /\ j.do = "save" /\ j.row \in Orders => EditFits(rows, x, j.row, j)

BookingsInv == Booked(db) /\ \A t \in Requests : Closes(db, tx[t], job[t])

\* What Booked says of the rows is what the run checks of them.
LEMMA BookedIs ==
    ASSUME NEW d, \A o \in Orders : d[o].is \in {"None", "Draft"} => d[o].booking = NoOrder
    PROVE  Converted(d) => Booked(d)
<1> SUFFICES ASSUME Converted(d) PROVE Booked(d)
  OBVIOUS
<1>1. \A b \in PreOrders : d[b].is = "Converted" <=> \E o \in Orders : d[o].booking = b
  BY DEF Converted
<1>2. \A b \in PreOrders, o \in Orders : d[o].booking = b => Agree(d[o], d[b], o)
  BY <1>1 DEF Converted, Agree
<1>3. \A o \in Orders : d[o].booking \in PreOrders => d[o].is \notin {"None", "Draft"}
  BY TablesDiffer
<1> QED
  BY <1>1, <1>2, <1>3 DEF Booked

LEMMA BookedShows ==
    ASSUME NEW d, Booked(d)
    PROVE  Converted(d)
<1>1. \A b \in PreOrders : d[b].is = "Converted" => \E o \in Orders : d[o].booking = b
  BY DEF Booked
<1>2. \A b \in PreOrders, o \in Orders : d[o].booking = b => Agree(d[o], d[b], o)
  BY DEF Booked
<1> QED
  BY <1>1, <1>2 DEF Converted, Agree

\* A booking that was converted stays as it is, in whatever request's hands.
LEMMA ConvertedStays ==
    ASSUME DInv, NEW t \in Requests, NEW b \in PreOrders, db[b].is = "Converted"
    PROVE  View(t, b) = db[b]
<1>1. Fair(db, b, View(t, b), job[t])
  BY SeenFair, RowsAre
<1> QED
  BY <1>1 DEF Fair, Moves, BookingMoves

\* An order of a booking stays its order.
LEMMA BookingStays ==
    ASSUME DInv, BookingsInv, NEW t \in Requests, NEW o \in Orders, db[o].booking \in PreOrders
    PROVE  /\ View(t, o).booking = db[o].booking /\ View(t, o).is \notin {"None", "Draft"}
           /\ Follows(db[o], View(t, o)) \/ (job[t].do = "save" /\ o = job[t].row)
           /\ db[db[o].booking].is = "Converted" /\ db[db[o].booking].order = o /\ Agree(db[o], db[db[o].booking], o)
<1>1. /\ db[o].is \notin {"None", "Draft"} /\ Agree(db[o], db[db[o].booking], o)
  BY DEF BookingsInv, Booked
<1>2. OrderMoves(db[o], View(t, o), job[t], o)
  BY OrderIs
<1>3. \/ Follows(db[o], View(t, o))
      \/ job[t].do = "save" /\ o = job[t].row /\ View(t, o).is \notin {"None", "Draft"} /\ View(t, o).booking = db[o].booking
  BY <1>1, <1>2 DEF OrderMoves
<1>4. Follows(db[o], View(t, o)) => View(t, o).is \notin {"None", "Draft"} /\ View(t, o).booking = db[o].booking
  BY <1>1 DEF Follows
<1> QED
  BY <1>1, <1>3, <1>4 DEF Agree

\* An order that goes its way agrees as before.
LEMMA FollowsAgrees ==
    ASSUME NEW old, NEW new, NEW booking, NEW o, Agree(old, booking, o), Follows(old, new)
    PROVE  Agree(new, booking, o)
BY DEF Agree, Follows

\* Whatever t has written, its order of a converted booking agrees with it.
LEMMA OrderAgrees ==
    ASSUME DInv, BookingsInv, NEW t \in Requests, NEW o \in Orders, db[o].booking \in PreOrders
    PROVE  View(t, o).booking = db[o].booking /\ View(t, o).is \notin {"None", "Draft"} /\ Agree(View(t, o), db[db[o].booking], o)
<1>1. /\ View(t, o).booking = db[o].booking /\ View(t, o).is \notin {"None", "Draft"}
      /\ Follows(db[o], View(t, o)) \/ (job[t].do = "save" /\ o = job[t].row)
      /\ Agree(db[o], db[db[o].booking], o)
  BY BookingStays
<1>2. CASE Follows(db[o], View(t, o))
  BY <1>1, <1>2, FollowsAgrees
<1>3. CASE job[t].do = "save" /\ o = job[t].row
  <2>1. PICK x, j : x = tx[t] /\ j = job[t]
    OBVIOUS
  <2>2. EditFits(db, x, o, j)
    BY <1>3, <2>1 DEF BookingsInv, Closes
  <2>3. View(t, o) = IF o \in DOMAIN x.mine THEN x.mine[o] ELSE db[o]
    BY <2>1, About, RowsAre
  <2> QED
    BY <1>1, <2>2, <2>3 DEF EditFits
<1> QED
  BY <1>1, <1>2, <1>3

\* What Unfit looked at is the booking as t has it.
LEMMA FitIs ==
    ASSUME NEW t \in Requests, NEW c, NEW b, b # NoOrder, ~Unfit(t, c, b)
    PROVE  checkConversion(View(t, b), c, Sent(t).units, PaidOf(job[t]))
BY DEF Unfit, Paid, Status, PaidOf, Sent

\* What an order is written from is what the booking was found to fit.
LEMMA WrittenFits ==
    ASSUME NEW booking, NEW fit, NEW v, NEW j, checkConversion(booking, fit, j.to.units, PaidOf(j)),
           v.customer = fit, v.units = j.to.units, v.paid = PaidOf(j)
    PROVE  checkConversion(booking, v.customer, v.units, v.paid)
BY DEF checkConversion

LEMMA PlacedCloses ==
    ASSUME DInv, NEW t \in Requests, job[t].do = "place", Row(t) \in Orders, job[t].to.booking \in PreOrders,
           PlaceCloses(db, tx[t], job[t].row, job[t].to.booking, job[t]), OrderPlaced(t)
    PROVE  PlaceCloses(db, tx'[t], job[t].row, job[t].to.booking, job[t])
<1>1. PICK x, y, j, o, b : x = tx[t] /\ y = tx'[t] /\ j = job[t] /\ o = job[t].row /\ b = job[t].to.booking
  OBVIOUS
<1>2. /\ o = Row(t) /\ o \in Orders /\ Sent(t) = j.to /\ ~Editing(t) /\ j.do = "place" /\ BookingOf(t) = b /\ b \in PreOrders
      /\ \A r \in Rows : View(t, r) = IF r \in DOMAIN x.mine THEN x.mine[r] ELSE db[r]
  BY <1>1, About DEF Row, Sent, Editing, Do, BookingOf
<1>3. /\ x.pc \notin {"begin", "commit", "done", "failed"} => b \in DOMAIN x.mine
      /\ x.pc \in FittedAt => checkConversion(x.mine[b], x.fit, j.to.units, PaidOf(j))
      /\ x.pc \in {"hold", "convert"} =>
            /\ o \in DOMAIN x.mine /\ x.mine[o].is = "Pending" /\ x.mine[o].booking = b
            /\ checkConversion(x.mine[b], x.mine[o].customer, x.mine[o].units, x.mine[o].paid)
  BY <1>1 DEF PlaceCloses
<1>4. \A S : Leaves(t, S) <=>
        \A r \in S : (r \in DOMAIN y.mine <=> r \in DOMAIN x.mine) /\ (r \in DOMAIN x.mine => y.mine[r] = x.mine[r])
  BY <1>1 DEF Leaves
<1>5. \A r, v : Has(t, r, v) <=>
        /\ DOMAIN y.mine = DOMAIN x.mine \cup {r} /\ y.mine[r] = v
        /\ \A s \in DOMAIN x.mine : s # r => y.mine[s] = x.mine[s]
  BY <1>1 DEF Has
<1>6. /\ o # b /\ {o, b} \subseteq Rows /\ {o, b} \subseteq Elsewhere /\ {o, b} \subseteq Rows \ Addresses
      /\ {o, b} \subseteq Rows \ {InvoiceDesk} /\ b # TheBatch /\ o # TheBatch /\ b \notin Customers /\ b # NoOrder
  BY <1>2, TablesDiffer, RowsAre DEF Elsewhere, CustomerRows
<1>7. ASSUME b \in DOMAIN y.mine, y.pc \notin FittedAt \cup {"hold", "convert", "commit"}
      PROVE  PlaceCloses(db, y, o, b, j)
  BY <1>7 DEF PlaceCloses
<1>8. ASSUME b \in DOMAIN y.mine, y.pc \in FittedAt, checkConversion(y.mine[b], y.fit, j.to.units, PaidOf(j))
      PROVE  PlaceCloses(db, y, o, b, j)
  BY <1>8 DEF PlaceCloses, FittedAt, AddressAt
<1>9. CASE Priced(t) /\ (tx[t].pc = "begin" => BookingOf(t) = NoOrder)
  <2>1. x.pc = "price" /\ y.pc = "find"
    BY <1>1, <1>2, <1>6, <1>9 DEF Priced, Steps
  <2>2. b \in DOMAIN y.mine
    BY <1>3, <1>4, <1>6, <1>9, <2>1 DEF Priced
  <2> QED
    BY <1>1, <1>7, <2>1, <2>2 DEF FittedAt, AddressAt
<1>10. CASE Sought(t)
  <2>1. x.pc \in FinderAt /\ y.pc \in {"customer", "register", "find again"} /\ Leaves(t, Elsewhere)
    BY <1>1, <1>10 DEF Sought, Steps
  <2>2. b \in DOMAIN y.mine
    BY <1>3, <1>4, <1>6, <2>1 DEF FinderAt
  <2> QED
    BY <1>1, <1>7, <2>1, <2>2 DEF FittedAt, AddressAt
<1>11. CASE Steps(t, {"begin"}, {"price"}) /\ BookingLocked(t)
  <2>1. b \in DOMAIN y.mine /\ y.pc = "price"
    BY <1>1, <1>2, <1>5, <1>11 DEF Steps, BookingLocked
  <2> QED
    BY <1>1, <1>7, <2>1 DEF FittedAt, AddressAt
<1>12. CASE BuyerTaken(t)
  <2>1. PICK c, v : c = x.fit /\ c \in Customers /\ Has(t, c, v)
    BY <1>1, <1>12 DEF BuyerTaken
  <2>2. x.pc = "customer" /\ y.pc \in {"address", "header"} /\ y.fit = c /\ ~Unfit(t, c, b)
    BY <1>1, <1>2, <1>12, <2>1 DEF BuyerTaken, Steps, StaysFit
  <2>3. checkConversion(View(t, b), c, j.to.units, PaidOf(j))
    BY <1>1, <1>2, <1>6, <2>2, FitIs
  <2>4. b \in DOMAIN x.mine /\ View(t, b) = x.mine[b]
    BY <1>2, <1>3, <1>6, <2>2
  <2>5. b \in DOMAIN y.mine /\ y.mine[b] = x.mine[b]
    BY <1>5, <1>6, <2>1, <2>4
  <2>6. checkConversion(y.mine[b], y.fit, j.to.units, PaidOf(j))
    BY <2>2, <2>3, <2>4, <2>5
  <2>7. y.pc \in FittedAt
    BY <2>2 DEF FittedAt, AddressAt
  <2> QED
    BY <1>1, <1>8, <2>5, <2>6, <2>7
<1>13. CASE AddressWritten(t) \/ Numbering(t)
  <2>1. /\ x.pc \in FittedAt /\ y.pc \in FittedAt /\ y.fit = x.fit
        /\ Leaves(t, Rows \ Addresses) \/ Leaves(t, Rows \ {InvoiceDesk})
    BY <1>1, <1>13 DEF AddressWritten, Numbering, Steps, StaysFit, FittedAt, AddressAt
  <2>2. b \in DOMAIN x.mine /\ checkConversion(x.mine[b], x.fit, j.to.units, PaidOf(j))
    BY <1>3, <2>1 DEF FittedAt, AddressAt
  <2>3. b \in DOMAIN y.mine /\ y.mine[b] = x.mine[b]
    BY <1>4, <1>6, <2>1, <2>2
  <2>4. checkConversion(y.mine[b], y.fit, j.to.units, PaidOf(j))
    BY <2>1, <2>2, <2>3
  <2> QED
    BY <1>1, <1>8, <2>1, <2>3, <2>4
<1>14. CASE OrderWritten(t)
  <2>1. PICK v : /\ Has(t, o, v) /\ v.is = "Pending" /\ v.customer = x.fit /\ v.units = j.to.units /\ v.paid = Paid(t)
                 /\ v.booking = b
    BY <1>1, <1>2, <1>14 DEF OrderWritten
  <2>2. x.pc \in {"header", "insert"} /\ y.pc = "hold"
    BY <1>1, <1>14 DEF OrderWritten, Steps
  <2>3. b \in DOMAIN x.mine /\ checkConversion(x.mine[b], x.fit, j.to.units, PaidOf(j))
    BY <1>3, <2>2 DEF FittedAt
  <2>4. v.paid = PaidOf(j)
    BY <1>1, <2>1 DEF Paid, Status, PaidOf, Sent
  <2>5. checkConversion(x.mine[b], v.customer, v.units, v.paid)
    BY <2>1, <2>3, <2>4, WrittenFits
  <2>6. /\ b \in DOMAIN y.mine /\ y.mine[b] = x.mine[b] /\ o \in DOMAIN y.mine /\ y.mine[o] = v
    BY <1>5, <1>6, <2>1, <2>3
  <2>7. checkConversion(y.mine[b], y.mine[o].customer, y.mine[o].units, y.mine[o].paid)
    BY <2>5, <2>6
  <2>8. PlaceCloses(db, y, o, b, j)
    BY <2>1, <2>2, <2>6, <2>7 DEF PlaceCloses, FittedAt, AddressAt
  <2> QED
    BY <1>1, <2>8
<1>15. CASE UnitsHeld(t)
  <2>1. PICK v : HoldsRow(t, o, v) /\ SameSale(v, View(t, o))
    BY <1>1, <1>2, <1>15 DEF UnitsHeld, Own
  <2>2. x.pc = "hold" /\ y.pc = "convert"
    BY <1>1, <1>2, <1>6, <1>15 DEF UnitsHeld, Steps
  <2>3. /\ b \in DOMAIN x.mine /\ o \in DOMAIN x.mine /\ View(t, o) = x.mine[o] /\ x.mine[o].is = "Pending" /\ x.mine[o].booking = b
        /\ checkConversion(x.mine[b], x.mine[o].customer, x.mine[o].units, x.mine[o].paid)
    BY <1>2, <1>3, <1>6, <2>2
  <2>4. /\ DOMAIN y.mine = DOMAIN x.mine \cup {o, TheBatch} /\ y.mine[o] = v
        /\ \A s \in DOMAIN x.mine : s \notin {o, TheBatch} => y.mine[s] = x.mine[s]
    BY <1>1, <2>1 DEF HoldsRow
  <2>5. b \in DOMAIN y.mine /\ y.mine[b] = x.mine[b] /\ o \in DOMAIN y.mine /\ y.mine[o] = v
    BY <1>6, <2>3, <2>4
  <2>6. v.is = "Pending" /\ v.booking = b /\ v.customer = x.mine[o].customer /\ v.units = x.mine[o].units /\ v.paid = x.mine[o].paid
    BY <2>1, <2>3 DEF SameSale
  <2>7. checkConversion(y.mine[b], y.mine[o].customer, y.mine[o].units, y.mine[o].paid)
    BY <2>3, <2>5, <2>6
  <2>8. PlaceCloses(db, y, o, b, j)
    BY <2>2, <2>5, <2>6, <2>7 DEF PlaceCloses, FittedAt, AddressAt
  <2> QED
    BY <1>1, <2>8
<1>16. CASE BookingClosed(t)
  <2>1. PICK w : /\ Has(t, b, w) /\ w.is = "Converted" /\ w.order = o
                 /\ w.customer = View(t, b).customer /\ w.units = View(t, b).units
                 /\ w.advance = View(t, b).advance /\ w.refunded = View(t, b).refunded
    BY <1>2, <1>16 DEF BookingClosed
  <2>2. x.pc = "convert" /\ y.pc = "commit" /\ View(t, b).is \in OPEN_STATUSES
    BY <1>1, <1>2, <1>16 DEF BookingClosed, Steps
  <2>3. /\ b \in DOMAIN x.mine /\ o \in DOMAIN x.mine /\ View(t, b) = x.mine[b] /\ x.mine[o].is = "Pending" /\ x.mine[o].booking = b
        /\ checkConversion(x.mine[b], x.mine[o].customer, x.mine[o].units, x.mine[o].paid)
    BY <1>2, <1>3, <1>6, <2>2
  <2>4. b \in DOMAIN y.mine /\ y.mine[b] = w /\ o \in DOMAIN y.mine /\ y.mine[o] = x.mine[o]
    BY <1>5, <1>6, <2>1, <2>3
  <2>5. Agree(x.mine[o], w, o)
    BY <2>1, <2>3 DEF Agree, checkConversion
  <2>6. db[b].is # "Converted"
    BY <1>2, <2>2, ConvertedStays DEF OPEN_STATUSES
  <2>7. PlaceCloses(db, y, o, b, j)
    BY <2>2, <2>3, <2>4, <2>5, <2>6 DEF PlaceCloses, FittedAt, AddressAt
  <2> QED
    BY <1>1, <2>7
<1> QED
  BY <1>9, <1>10, <1>11, <1>12, <1>13, <1>14, <1>15, <1>16 DEF OrderPlaced, OnlineWritten

LEMMA EditedFits ==
    ASSUME DInv, BookingsInv, NEW t \in Requests, job[t].do = "save", Row(t) \in Orders, OrderEdited(t)
    PROVE  EditFits(db, tx'[t], job[t].row, job[t])
<1>1. PICK x, y, j, o, b : x = tx[t] /\ y = tx'[t] /\ j = job[t] /\ o = job[t].row /\ b = db[job[t].row].booking
  OBVIOUS
<1>2. /\ o = Row(t) /\ o \in Orders /\ Sent(t) = j.to /\ Editing(t) /\ Own(t) = View(t, o) /\ o \in Rows
      /\ \A r \in Rows : View(t, r) = IF r \in DOMAIN x.mine THEN x.mine[r] ELSE db[r]
  BY <1>1, About, RowsAre DEF Row, Sent, Editing, Do, Own
<1>3. EditFits(db, x, o, j)
  BY <1>1, <1>2 DEF BookingsInv, Closes, Row
<1>4. \A S : Leaves(t, S) <=>
        \A r \in S : (r \in DOMAIN y.mine <=> r \in DOMAIN x.mine) /\ (r \in DOMAIN x.mine => y.mine[r] = x.mine[r])
  BY <1>1 DEF Leaves
<1>5. \A r, v : Has(t, r, v) <=>
        /\ DOMAIN y.mine = DOMAIN x.mine \cup {r} /\ y.mine[r] = v
        /\ \A s \in DOMAIN x.mine : s # r => y.mine[s] = x.mine[s]
  BY <1>1 DEF Has
<1>6. /\ o \in Elsewhere /\ o \in Rows \ Addresses /\ o # TheBatch /\ o \notin Customers \cup PreOrders
      /\ NoOrder \notin PreOrders
  BY <1>2, TablesDiffer, RowsAre DEF Elsewhere, CustomerRows
<1>7. b \in PreOrders => /\ View(t, o).booking = b /\ BookingOf(t) = b /\ Agree(View(t, o), db[b], o)
                         /\ db[b].is = "Converted" /\ db[b].order = o /\ View(t, b) = db[b]
  BY <1>1, <1>2, OrderAgrees, BookingStays, ConvertedStays DEF BookingOf
<1>8. ASSUME y.pc \in EditAt => o \in DOMAIN y.mine,
             b \in PreOrders => /\ o \in DOMAIN y.mine => Agree(y.mine[o], db[b], o)
                                /\ y.pc \in FittedAt => checkConversion(db[b], y.fit, j.to.units, PaidOf(j))
      PROVE  EditFits(db, tx'[t], job[t].row, job[t])
  <2>1. EditFits(db, y, o, j)
    BY <1>1, <1>8 DEF EditFits
  <2> QED
    BY <1>1, <2>1
<1>9. ASSUME o \in DOMAIN y.mine <=> o \in DOMAIN x.mine, o \in DOMAIN x.mine => y.mine[o] = x.mine[o],
             x.pc \in EditAt \/ y.pc \notin EditAt,
             b \in PreOrders /\ y.pc \in FittedAt => checkConversion(db[b], y.fit, j.to.units, PaidOf(j))
      PROVE  EditFits(db, tx'[t], job[t].row, job[t])
  BY <1>1, <1>3, <1>8, <1>9 DEF EditFits
<1>10. CASE Steps(t, {"begin"}, {"save"}) /\ Leaves(t, Rows)
  <2>1. y.pc \notin EditAt
    BY <1>1, <1>10 DEF Steps, EditAt, FinderAt, FittedAt, AddressAt
  <2> QED
    BY <1>2, <1>4, <1>9, <1>10, <2>1 DEF EditAt
<1>11. CASE Steps(t, {"save"}, {"check"}) /\ Has(t, Row(t), db[Row(t)])
  <2>1. y.pc = "check" /\ o \in DOMAIN y.mine /\ y.mine[o] = db[o]
    BY <1>1, <1>2, <1>5, <1>11 DEF Steps
  <2>2. b \in PreOrders => Agree(db[o], db[b], o)
    BY <1>1, <1>2, BookingStays
  <2> QED
    BY <1>8, <2>1, <2>2 DEF FittedAt, AddressAt
<1>12. CASE x.pc = "check" /\ y.pc \in {"price", "booking"} /\ \E v : Has(t, o, v) /\ SameSale(v, View(t, o))
  <2>1. PICK v : Has(t, o, v) /\ SameSale(v, View(t, o))
    BY <1>12
  <2>2. o \in DOMAIN y.mine /\ y.mine[o] = v
    BY <1>5, <2>1
  <2>3. b \in PreOrders => Agree(v, db[b], o)
    BY <1>7, <2>1 DEF Agree, SameSale
  <2> QED
    BY <1>8, <1>12, <2>2, <2>3 DEF FittedAt, AddressAt
<1>13. CASE Steps(t, {"booking"}, {"price"}) /\ BookingLocked(t)
  <2>1. PICK c, v : c \in PreOrders /\ Has(t, c, v)
    BY <1>13 DEF BookingLocked
  <2>2. x.pc \in EditAt /\ y.pc \notin FittedAt
    BY <1>1, <1>13 DEF Steps, EditAt, FittedAt, AddressAt
  <2> QED
    BY <1>5, <1>6, <1>9, <2>1, <2>2
<1>14. CASE (Priced(t) /\ tx[t].pc = "price") \/ Sought(t)
  <2>1. x.pc \in EditAt /\ y.pc \notin FittedAt /\ (Leaves(t, Rows) \/ Leaves(t, Elsewhere))
    BY <1>1, <1>14 DEF Priced, Sought, Steps, EditAt, FittedAt, AddressAt, FinderAt
  <2> QED
    BY <1>2, <1>4, <1>6, <1>9, <2>1
<1>15. CASE BuyerTaken(t)
  <2>1. PICK c, v : c = x.fit /\ c \in Customers /\ Has(t, c, v)
    BY <1>1, <1>15 DEF BuyerTaken
  <2>2. x.pc = "customer" /\ y.fit = c /\ ~Unfit(t, c, BookingOf(t))
    BY <1>1, <1>15, <2>1 DEF BuyerTaken, Steps, StaysFit
  <2>3. b \in PreOrders => checkConversion(db[b], c, j.to.units, PaidOf(j))
    BY <1>1, <1>2, <1>6, <1>7, <2>2, FitIs
  <2> QED
    BY <1>5, <1>6, <1>9, <2>1, <2>2, <2>3 DEF EditAt
<1>16. CASE AddressWritten(t)
  <2>1. x.pc \in FittedAt /\ y.fit = x.fit /\ Leaves(t, Rows \ Addresses)
    BY <1>1, <1>16 DEF AddressWritten, Steps, StaysFit, FittedAt
  <2>2. b \in PreOrders => checkConversion(db[b], x.fit, j.to.units, PaidOf(j))
    BY <1>1, <1>3, <2>1 DEF EditFits
  <2> QED
    BY <1>4, <1>6, <1>9, <2>1, <2>2 DEF EditAt
<1>17. CASE OrderWritten(t)
  <2>1. PICK v : /\ Has(t, o, v) /\ v.is = "Pending" /\ v.customer = x.fit /\ v.units = j.to.units /\ v.paid = Paid(t)
    BY <1>1, <1>2, <1>17 DEF OrderWritten
  <2>2. x.pc \in FittedAt /\ y.pc = "hold"
    BY <1>1, <1>17 DEF OrderWritten, Steps, FittedAt
  <2>3. b \in PreOrders => checkConversion(db[b], x.fit, j.to.units, PaidOf(j))
    BY <1>1, <1>3, <2>2 DEF EditFits
  <2>4. v.paid = PaidOf(j)
    BY <1>1, <2>1 DEF Paid, Status, PaidOf, Sent
  <2>5. b \in PreOrders => Agree(v, db[b], o)
    BY <1>7, <2>1, <2>3, <2>4 DEF Agree, checkConversion
  <2>6. o \in DOMAIN y.mine /\ y.mine[o] = v
    BY <1>5, <2>1
  <2> QED
    BY <1>8, <2>2, <2>5, <2>6 DEF FittedAt, AddressAt
<1>18. CASE UnitsHeld(t)
  <2>1. PICK v : HoldsRow(t, o, v) /\ SameSale(v, View(t, o))
    BY <1>1, <1>2, <1>18 DEF UnitsHeld
  <2>2. o \in DOMAIN y.mine /\ y.mine[o] = v
    BY <1>1, <2>1 DEF HoldsRow
  <2>3. y.pc \notin FittedAt
    BY <1>1, <1>18 DEF UnitsHeld, Steps, FittedAt, AddressAt
  <2>4. b \in PreOrders => Agree(v, db[b], o)
    BY <1>7, <2>1 DEF Agree, SameSale
  <2> QED
    BY <1>8, <2>2, <2>3, <2>4
<1>19. CASE BookingClosed(t)
  <2>1. PICK c, w : c \in PreOrders /\ Has(t, c, w)
    BY <1>19 DEF BookingClosed
  <2>2. y.pc = "commit"
    BY <1>1, <1>19 DEF BookingClosed, Steps
  <2>3. y.pc \notin EditAt /\ y.pc \notin FittedAt
    BY <2>2 DEF EditAt, FinderAt, FittedAt, AddressAt
  <2> QED
    BY <1>5, <1>6, <1>9, <2>1, <2>3
<1>20. ~Numbering(t)
  BY <1>2 DEF Numbering
<1>21. CASE /\ tx[t].pc = "check" /\ tx'[t].pc = IF Own(t).booking = NoOrder THEN "price" ELSE "booking"
            /\ Own(t).is = "Pending" /\ \E v : Has(t, Row(t), v) /\ SameSale(v, Own(t))
  BY <1>1, <1>2, <1>12, <1>21
<1> QED
  BY <1>10, <1>11, <1>13, <1>14, <1>15, <1>16, <1>17, <1>18, <1>19, <1>20, <1>21 DEF OrderEdited, OnlineWritten

\* A statement of t leaves its record in order.
LEMMA ActsClose ==
    ASSUME DInv, BookingsInv, NEW t \in Requests, Acts(t), ~Finish(t)
    PROVE  Closes(db, tx'[t], job[t])
<1>1. CASE Refuse(t)
  <2>1. PICK y : y = tx'[t] /\ y.pc = "failed" /\ DOMAIN y.mine = {}
    BY <1>1, RefuseHas
  <2>2. Closes(db, y, job[t])
    BY <2>1 DEF Closes, PlaceCloses, EditFits, EditAt, FinderAt, FittedAt, AddressAt
  <2> QED
    BY <2>1, <2>2
<1>2. CASE job[t].do = "place" /\ ~Refuse(t)
  <2>1. OrderPlaced(t) /\ Row(t) \in Orders /\ Row(t) = job[t].row
    BY <1>2, HandlerOf, OrderIsPlaced DEF Row
  <2>2. ASSUME job[t].to.booking \in PreOrders
        PROVE  PlaceCloses(db, tx'[t], job[t].row, job[t].to.booking, job[t])
    <3>1. PlaceCloses(db, tx[t], job[t].row, job[t].to.booking, job[t])
      BY <1>2, <2>1, <2>2 DEF BookingsInv, Closes
    <3> QED
      BY <1>2, <2>1, <2>2, <3>1, PlacedCloses
  <2> QED
    BY <1>2, <2>1, <2>2 DEF Closes
<1>3. CASE job[t].do = "save" /\ job[t].row \in Orders /\ ~Refuse(t)
  <2>1. FormStep(t) \/ edit_online_order(t)
    BY <1>3, SavesOrder
  <2>2. OrderEdited(t)
    BY <1>3, <2>1, OrderIsEdited
  <2>3. EditFits(db, tx'[t], job[t].row, job[t])
    BY <1>3, <2>2, EditedFits DEF Row
  <2> QED
    BY <1>3, <2>3 DEF Closes
<1> QED
  BY <1>1, <1>2, <1>3 DEF Closes

\* A COMMIT gives a booking no second order, and takes none from a converted one.
LEMMA CommitBooked ==
    ASSUME DInv, BookingsInv, NEW t \in Requests, Finish(t)
    PROVE  /\ Booked(db')
           /\ \A o \in Orders : db[o].booking \in PreOrders => db'[o].booking = db[o].booking
           /\ \A b \in PreOrders : db[b].is = "Converted" => db'[b] = db[b]
<1>1. /\ tx[t].pc = "commit"
      /\ \A r \in Rows : db'[r] = IF r \in DOMAIN tx[t].mine THEN tx[t].mine[r] ELSE db[r]
  BY FinishIs
<1>2. \A r \in Rows : db'[r] = View(t, r)
  BY <1>1, About
<1>3. \A b \in PreOrders : db'[b] = View(t, b)
  BY <1>2, RowsAre
<1>4. \A o \in Orders : db'[o] = View(t, o)
  BY <1>2, RowsAre
<1>5. PICK x, j : x = tx[t] /\ j = job[t]
  OBVIOUS
<1>6. \A b \in PreOrders : db[b].is = "Converted" => db'[b] = db[b]
  BY <1>3, ConvertedStays
<1>7. \A o \in Orders : db[o].booking \in PreOrders =>
        db'[o].booking = db[o].booking /\ db'[o].is \notin {"None", "Draft"} /\ Agree(db'[o], db'[db[o].booking], o)
  <2> SUFFICES ASSUME NEW o \in Orders, db[o].booking \in PreOrders
               PROVE  db'[o].booking = db[o].booking /\ db'[o].is \notin {"None", "Draft"} /\ Agree(db'[o], db'[db[o].booking], o)
    OBVIOUS
  <2>1. View(t, o).booking = db[o].booking /\ View(t, o).is \notin {"None", "Draft"} /\ Agree(View(t, o), db[db[o].booking], o)
    BY OrderAgrees
  <2>2. db[db[o].booking].is = "Converted"
    BY BookingStays
  <2> QED
    BY <1>4, <1>6, <2>1, <2>2
<1>8. ASSUME j.do = "place", j.row \in Orders, j.to.booking \in PreOrders
      PROVE  LET o == j.row
                 b == j.to.booking
             IN  db'[o].is = "Pending" /\ db'[o].booking = b /\ Agree(db'[o], db'[b], o)
  <2>1. PICK o, b : o = j.row /\ b = j.to.booking
    OBVIOUS
  <2>2. PlaceCloses(db, x, o, b, j)
    BY <1>5, <1>8, <2>1 DEF BookingsInv, Closes
  <2>3. db'[o] = x.mine[o] /\ db'[b] = x.mine[b] /\ x.mine[o].is = "Pending" /\ x.mine[o].booking = b /\ Agree(x.mine[o], x.mine[b], o)
    BY <1>1, <1>5, <1>8, <2>1, <2>2, RowsAre DEF PlaceCloses
  <2> QED
    BY <2>1, <2>3
<1>9. ASSUME NEW o \in Orders, db[o].booking \notin PreOrders, db'[o].booking \in PreOrders
      PROVE  j.do = "place" /\ o = j.row /\ db'[o].booking = j.to.booking
  <2>1. OrderMoves(db[o], db'[o], j, o)
    BY <1>4, <1>5, OrderIs
  <2>2. ~(db'[o].booking = db[o].booking) /\ db'[o].booking # NoOrder
    BY <1>9, TablesDiffer
  <2> QED
    BY <2>1, <2>2 DEF OrderMoves, Follows
<1>10. ASSUME NEW o \in Orders, db'[o].booking \in PreOrders
       PROVE  db'[o].is \notin {"None", "Draft"} /\ Agree(db'[o], db'[db'[o].booking], o)
  <2>1. CASE db[o].booking \in PreOrders
    BY <1>7, <2>1
  <2>2. CASE db[o].booking \notin PreOrders
    BY <1>8, <1>9, <1>10, <2>2
  <2> QED
    BY <2>1, <2>2
<1>11. ASSUME NEW b \in PreOrders, db'[b].is = "Converted"
       PROVE  \E o \in Orders : db'[o].booking = b
  <2>1. CASE db[b].is = "Converted"
    <3>1. PICK o \in Orders : db[o].booking = b
      BY <2>1 DEF BookingsInv, Booked
    <3> QED
      BY <1>7, <3>1
  <2>2. CASE db[b].is # "Converted"
    <3>1. Fair(db, b, db'[b], j)
      BY <1>3, <1>5, SeenFair, RowsAre
    <3>2. j.do = "place" /\ b = j.to.booking
      BY <1>11, <2>2, <3>1 DEF Fair, Moves, BookingMoves
    <3>3. j.row \in Orders
      BY <1>1, <1>5, <3>2 DEF BookingsInv, Closes
    <3> QED
      BY <1>8, <3>2, <3>3
  <2> QED
    BY <2>1, <2>2
<1> QED
  BY <1>6, <1>7, <1>10, <1>11 DEF Booked

LEMMA BookingsKept ==
    ASSUME DInv, BookingsInv, [Next]_vars
    PROVE  BookingsInv'
<1>1. CASE UNCHANGED vars
  BY <1>1 DEF vars, BookingsInv
<1>2. ASSUME NEW t \in Requests, Acts(t), ~Finish(t)
      PROVE  BookingsInv'
  <2>1. db' = db /\ job' = job /\ \A u \in Requests : u # t => tx'[u] = tx[u]
    BY <1>2, ActsKeep
  <2>2. Closes(db, tx'[t], job[t])
    BY <1>2, ActsClose
  <2> QED
    BY <2>1, <2>2 DEF BookingsInv
<1>3. ASSUME NEW t \in Requests, Finish(t)
      PROVE  BookingsInv'
  <2>1. tx'[t] = Blank("done") /\ job' = job /\ \A u \in Requests : u # t => tx'[u] = tx[u]
    BY <1>3, FinishIs
  <2>2. /\ Booked(db')
        /\ \A o \in Orders : db[o].booking \in PreOrders => db'[o].booking = db[o].booking
        /\ \A b \in PreOrders : db[b].is = "Converted" => db'[b] = db[b]
    BY <1>3, CommitBooked
  <2>3. Closes(db', tx'[t], job'[t])
    <3>1. PICK y : y = Blank("done") /\ y.pc = "done" /\ DOMAIN y.mine = {}
      BY BlankIs
    <3>2. Closes(db', y, job'[t])
      BY <3>1 DEF Closes, PlaceCloses, EditFits, EditAt, FinderAt, FittedAt, AddressAt
    <3> QED
      BY <2>1, <3>1, <3>2
  <2>4. ASSUME NEW u \in Requests, u # t
        PROVE  Closes(db', tx[u], job[u])
    <3>1. PICK x, j : x = tx[u] /\ j = job[u]
      OBVIOUS
    <3>2. Closes(db, x, j)
      BY <3>1 DEF BookingsInv
    <3>3. \A r \in DOMAIN x.mine : db'[r] = db[r]
      BY <1>3, <2>4, <3>1, FinishIs
    <3>4. ASSUME NEW o, NEW b, PlaceCloses(db, x, o, b, j)
          PROVE  PlaceCloses(db', x, o, b, j)
      BY <3>3, <3>4 DEF PlaceCloses
    <3>5. ASSUME NEW o \in Orders, EditFits(db, x, o, j)
          PROVE  EditFits(db', x, o, j)
      <4>1. o \in DOMAIN x.mine => db'[o] = db[o]
        BY <3>3
      <4>2. x.pc \in FittedAt => x.pc \in EditAt
        BY DEF EditAt
      <4>3. o \in DOMAIN x.mine /\ db[o].booking \in PreOrders => db'[db[o].booking] = db[db[o].booking]
        BY <2>2 DEF BookingsInv, Booked, Agree
      <4> QED
        BY <3>5, <4>1, <4>2, <4>3 DEF EditFits
    <3>6. Closes(db', x, j)
      BY <3>2, <3>4, <3>5 DEF Closes
    <3> QED
      BY <3>1, <3>6
  <2>5. \A u \in Requests : Closes(db', tx'[u], job'[u])
    BY <2>1, <2>3, <2>4
  <2> QED
    BY <2>2, <2>5 DEF BookingsInv
<1> QED
  BY <1>1, <1>2, <1>3, NextActs

LEMMA BookingsStart ==
    ASSUME Init
    PROVE  BookingsInv
<1>1. Opening(db) /\ \A t \in Requests : tx[t] = Blank("begin")
  BY StartIs
<1>2. Booked(db)
  BY <1>1, BookedIs DEF Opening
<1>3. ASSUME NEW t \in Requests
      PROVE  Closes(db, tx[t], job[t])
  <2>1. PICK y : y = tx[t] /\ y.pc = "begin" /\ DOMAIN y.mine = {}
    BY <1>1, BlankIs
  <2>2. Closes(db, y, job[t])
    BY <2>1 DEF Closes, PlaceCloses, EditFits, EditAt, FinderAt, FittedAt, AddressAt
  <2> QED
    BY <2>1, <2>2
<1> QED
  BY <1>2, <1>3 DEF BookingsInv

\* A booking becomes one order, of its customer, with every unit that was booked and paid what was in advance,
\* whoever edits the booking or the order, calls it off or places another one meanwhile.
THEOREM BookingsBecomeTheirOrders == Spec => []BookingKept
<1>1. Init => DInv /\ BookingsInv
  BY StartIs, BookingsStart
<1>2. (DInv /\ BookingsInv) /\ [Next]_vars => (DInv /\ BookingsInv)'
  BY NextKeeps, BookingsKept
<1>3. BookingsInv => BookingKept
  BY BookedShows DEF BookingsInv, BookingKept
<1> QED
  BY <1>1, <1>2, <1>3, PTL DEF Spec
=============================================================================
