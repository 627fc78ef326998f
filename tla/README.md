# Stock Flow server: formal specification

This directory specifies the server in `src/src`: an Express API over one PostgreSQL
database that keeps the stock, sales, deliveries, returns and purchases of a shop. It holds
TLA+ modules that model the server's handlers, TLC configurations that check them on small
instances, and TLAPS proofs of the properties that matter most, for every instance.

`PROJECT.json` lists the components, the runs, the map from definitions to source lines,
the hazards each property is for, and the theorems. This file explains them.

## 1. The system

### How a request runs

The server is deployed as short-lived copies of one process. It keeps no state of its own
that matters; everything is in PostgreSQL. A handler that writes runs its statements in one
READ COMMITTED transaction, `execute_transaction` (`src/src/db/database.js`):

- a statement sees what is committed when it starts, and its own transaction's writes;
- a row that is updated, or selected `FOR UPDATE`, stays locked to the end of the transaction;
- a statement that waits for a row goes on with the row's *newest* version, but everything
  else it read (a joined table, a subquery) stays as it was *before* the wait;
- `fail` rolls everything back; a lost connection before COMMIT is retried up to three times;
  after COMMIT was sent it never is; a deadlock is broken by the database and not retried.

So the hard behaviour of the system is in the interleaving of statements of concurrent
transactions, not inside one handler. Nearly every rule in the code has the shape "lock or
update a row only from the state it leaves, then work on other rows", and its correctness
depends on which row is locked first and which value was read before the wait.

### The parts

| Part | State | Operations | What makes it correct |
|---|---|---|---|
| Stock movements (`routes/sales/utils/stock-movement.js`) | `inventory.quantity_available`, `stock_hold`, `stock_movement` | hold, release, deduct held, deduct free, restock | a unit is promised or sold once; movements add up |
| Transactions (`db/`) | connections, row locks | run, fail, retry, refuse a stale edit | all or nothing, at most once, every request answered |
| Online orders (`routes/sales/online`, `routes/sales/order`) | `orders`, `online_order`, `order_items` | draft, place, edit, confirm, cancel, not delivered, refund | an order holds exactly its lines; order and parcel agree |
| Delivery batches (`routes/sales/delivery-batch`) | `delivery_batch`, `delivery_batch_order` | make, change, cancel, hand over, deliver | a parcel leaves once, in one batch |
| Returns (`routes/sales/return`) | `product_return`, `return_details`, money on `orders` | raise, confirm, cancel | units and money go back once, and only what was received |
| Counter sales (`routes/sales/pos`) | `orders` | park, check out | sold once, from free stock |
| Pre-orders (`routes/sales/pre-order`) | `pre_order` | take, confirm, convert, cancel | converted into one order, for its units and advance |
| Giveaways and gifts (`routes/sales/giveaway`) | `giveaway`, its holds | make, add, remove, give, cancel | gift holds follow their order |
| Purchase orders (`routes/inventory/purchase-order`) | `purchase`, `purchase_details` | draft, submit, verify, cancel | received once, never onto a deleted product |
| Disposals, adjustments (`routes/inventory`) | documents with an approval | draft, submit, approve, reject, cancel | applied once, all lines or none |
| Sessions (`auth/`, `routes/auth`, `middleware/`) | `auth_session`, `auth_refresh_token`, codes, throttle | sign in, renew, sign out, reset | one live token per session; an ended session stays ended |
| Users, roles, features (`routes/admin`) | `login`, `role`, grants, the registry of features, one settings row | make, change, turn off, delete, reorder | always an owner; one order of the menu |
| Own accounts, guests (`routes/profile`, `routes/auth`) | `login`, codes, throttle | profile, passwords, a guest's visit | a code is used once; guests fit under the cap and differ |
| Caches (`utils/`, `middleware/`) | `config_version`; what an instance and a browser keep with it | bump, read, answer 304 | nothing stale is used while its version is current |
| Catalogue (`routes/configuration`) | products, categories, brands, places, suppliers | create, edit on a form, delete a product | no edit is overwritten unseen; a product carries the category of its sub-category; what is in use is not deleted |
| Customers (`routes/sales/customer`) | customers, addresses, phones | find or create, edit, block, addresses | one customer per phone, one default address |
| Marketing (`routes/marketing`) | campaigns, their partners' lines, payments, promised posts | create, edit, start, complete, cancel, pay, give | what refers to a line never loses it; a closed campaign gives nothing |
| Reports (`routes/report`, analytics, dashboard, exports) | none: queries | reports, pages and exports | figures of one name are one number; a day that is over gains nothing |
| Email, logs | none | | not about the rows above |

How they interact: every part that moves units calls the stock helpers inside its own
transaction; a delivery batch calls dispatch and deliver per order; "not delivered" raises a
return; confirming a return restocks, settles money on the order and moves the parcel; an order
takes a customer, a pre-order and gifts with it; a purchase, disposal or adjustment moves units
that orders want; administration raises the version that caches are kept with. They
share rows (the batch of stock, the order, the parcel, the return), never messages.

### What is hard here

Section "hazards" of `PROJECT.json` lists each at its line. In short: two requests each
finding the last unit; a statement that waits and then trusts what it read before; locks
taken in different orders; a transaction run twice; one step of several failing; units and
money of one return read at different instants; sequences of legal steps (part refunds,
cancelled returns, edited orders) that leave two rows contradicting each other; a cached value
that outlives what it was read from; two queries that count the same thing differently.

## 2. The modules

### Stock: `StockUnits`, `StockLedger`, `StockTx`, `MCStock`

`StockLedger` is the promise: placing, editing, confirming, cancelling, handing over and
moving units each take effect at one instant or not at all. `StockTx` is the code, one
database statement per action. `onHand`, `held`, `status`, `items` and `ledger` are the
committed tables; `batchLock` and `orderLock` are row locks; `tx` holds, for each request,
its next statement and its own uncommitted versions of the rows it locked, which COMMIT
publishes at once. A sale, a gift and a disposal also raise the figures of each batch's product
(`product_stats`) and keep that row; who has it follows from what they wrote (`HasFigures`). `deductFreeStock` is three actions (`LockBatch`, `StartTake`,
`TakeFreeStock`), because the hold subquery is evaluated in the snapshot of the guarded
UPDATE and not again after its wait. That is the bug described in the comment at
`stock-movement.js:93`, and the reason the batch is locked by a statement of its own:
replacing `LockBatch` by its form without the lock brings that bug back, and TLC finds it.

`StockUnits` counts promised units as the cardinality of a set of (order, number) pairs, so
that the sum over holds can be reasoned about without recursion.

### Parcels: `ReadCommitted`, `Parcels`, `ParcelTx`, `MCParcel`

`ReadCommitted` is the database for any set of rows: view, lock, write, commit, fail,
deadlock. Its `Version` and `++` are TLC's `:>` and `@@`, defined so that they can be reasoned
about. `ParcelTx` writes the ten handlers that touch orders, parcels, delivery batches and
not-delivered returns with it. An order and its parcel are two rows; `SELECT ... FOR UPDATE
OF o` goes on with the newest order and the *old* parcel, so each such statement is two
actions: one that reads (`Select...`, `ReadReturnedParcel`), one that locks. The batches of stock and the
figures that an order's units count in are rows too, locked one after the other in any order (`LockStock`);
what is written in them is the business of other modules. `Parcels` is the
atomic life of a parcel; `ParcelTx` implements it under a mapping from the rows to one
standing per order. What committed rows agree on (`RowsAgree`) is an operator of the rows, for it is
said of openings and of the rows a COMMIT leaves too.

### Units and money of an order: `Returns`, `MCReturns`

Every handler of a return locks the order, so it is one action, with one exception that the
code has: cancelling a return does not lock the order, and can fall between the two
statements in which `raiseReturn` reads pending units and pending refunds (`StartRaise`,
`FinishRaise`).

### Sessions: `Sessions`, `SessionTx`, `MCSessions`

A sign-in opens an `auth_session` with one refresh token; each renewal trades that token for
the next and keeps, in `replaced_by_oid` and `rotated_on`, what it was traded for and when.
`Sessions` is the promise: renewing, reissuing within the grace, ending, signing in and turning
an account off each happen at one instant. `SessionTx` is the code on `ReadCommitted`, with the
rows `login`, `auth_session` and `auth_refresh_token`: a renewal is `FindToken`, `ReadAccount`,
`LockSession`, `ReadToken`, `RevokeSuccessor`, `TradeToken`; everything that ends sessions goes
through `end_where`, which is `SelectSessions` (the snapshot of its first UPDATE), one
`EndSession` per row and `RevokeTokens` (the second UPDATE, in a snapshot of its own).
`ChangeAccount` stands for the handlers that lock or update an account first. LOCALTIMESTAMP is
the time the *transaction* began, so `began` is kept per request: a renewal that waited measures
the grace from before its wait, and `Sessions` takes that time as the parameter `at`.
`Sessions` begins with nobody signed in; the openings of `MCSessions` are tables that earlier requests
left, so what `SessionTx` implements is `Resumed`: any state of `Inv`, then the steps of `Sessions`.

### A browser: `Tabs`

`Tabs` puts a browser before `Sessions`: tabs that share one cookie, requests and answers that
are lost or overtake each other, tabs that ask again. The browser is not in the repository; it
is modelled from what the handlers tell it (set the cookie, clear it). Every renewal is one
step here, which `sessions_refinement` justifies. It asks the question `SessionTx` cannot: what
becomes of a person whose answers get lost.

### What handlers share: `Forms`

`Forms` adds `SELECT ... FOR SHARE` to `ReadCommitted` (the code locks a *parent* that way, so
that it stays Active until the child is written), the bookkeeping of waits (`Awaits`, `Cycle`,
`BreakCycle`), and the statements that most handlers are made of: a form opened on a row and
saved later behind `refuse_stale` (`OpenForm`, `LockForm`, `RefuseStale`, `Save`), a button that is a
guarded UPDATE (`Press`), a parent that must be in use (`RequireActive`), a check before the write
(`Check`). A handler is then an operator with the name of its file and one disjunct per statement.
The back office, the office and the sales desk are three compositions of such handlers.

### The back office: `Catalogue`, `Purchasing`, `Corrections`, `BackOffice`, `MCBackOffice`

`Catalogue` has the tables of configuration and of the documents that change stock, and what a
request asks to be done to them (`job`); it creates and edits the seven kinds of
configuration and deletes products, `Purchasing` has purchase orders, `Corrections` disposals and
stock adjustments. Two statements are split into what their snapshot sees and what they
lock: `require_active_sub_category` joins the sub-category with its category first (`FindParents`),
and the UPDATE that moves the products of a sub-category finds them first (`FindProducts`) and then
locks them one after the other, testing each again (`MoveProduct`). `check_references` and
`check_lines` are one action per table they read, because nothing is locked between the reads.

A line stands for one unit. Units a document brings in as a new batch are its `made`. Holds are left
to `StockTx`: here what a batch has is free.

### The office: `Admin`, `OwnAccount`, `Caches`, `Office`, `MCOffice`

`Admin` has accounts, roles, features and settings; `OwnAccount` profiles, the three ways to a new
password, the throttle's two statements and a guest's visit under its advisory lock; `Caches` what one
server instance keeps between requests (permissions, switched off features, settings, boot payloads)
and what a browser keeps with an ETag. A kept value may vanish at any time (a restart, an expiry), and
instances share nothing, so one stands for any number. `CachesAreTrue` relates each kept value to the
committed rows *at the same `config_version`*: what is kept with an older version may be old. A role's name is
the one part of a boot payload that is read before the version, and `CachesAreTrue` claims nothing of it.
`Office` begins with tables that earlier requests left (`Tidy`) and requests that passed their schema
(`Form`).

### The sales desk: `Customers`, `Bookings`, `Campaigns`, `Shelf`, `OrderGifts`, `DeskOrders`, `SalesDesk`, `MCSalesDesk`

What `StockTx` and `ParcelTx` leave out of an order: its customer and address, the pre-order it was
made from, the gifts in its parcel, its number, the campaign a gift is for. One batch stands for the
shelf, and an order has one line of it. A phone is a row of a unique index: who saves a customer keeps
the next request with that phone waiting, and "insert on conflict" then finds the row committed
meanwhile. `TakeNumber` is the advisory lock with the count of the day's orders under it.

### The reports: `Figures`, `SalesReports`, `StockReports`, `Reports`, `MCFigures`

`Figures` runs the business day by day, one handler per step; that handlers behave as single steps is
what the modules above are for. It keeps what the queries read: the dates of an order, units and money
of its returns (the amounts are those of `Returns`, through INSTANCE), the movements of each batch by
reason and day, the documents, the product counters. `SalesReports` and `StockReports` are the queries,
each translated from its own SQL with its own joins and filters: a function from keys to figures, for a
period and the channels its reader may see. `Reports` says which of those figures must be one number.
A campaign's result is read on the day after everything in it is over, or today (`on`). Lists that the code
cuts with LIMIT are cut here too (`Listed`), after as many rows as `ListRows` says, and what is said of them is
said of a list that may be cut (`HeadOf`): its rows are the report's, and none above them is missing. Reports
themselves are not cut: over `ROW_LIMIT` (50000) rows the server refuses.

### Proofs: `StockProofs`, `ParcelTxProofs`, `ReturnsProofs`, `SessionsProofs`, `SessionTxProofs`, `TabsProofs`, `OfficeProofs`, `SalesDeskProofs`

See section 5.

### Faulty forms

Beside an operator some modules define its *faulty form* (`LockBatchToHoldOnly`,
`DeliverOrderUnguarded`, ...): what a plausible mistake in that code would do. `PROJECT.json`
("mutants") pairs each with the property that fails when it takes the operator's place; a property
made of several parts has one for each part that is about another hazard. They
show that the property depends on the code; no specification uses them.

## 3. The runs

A property with a list of names is their conjunction; the names are defined, each with its comment,
beside it.

| Run | Instance | Shows |
|---|---|---|
| `stock_safety` | 3 requests out of 14 jobs, 2 orders, 2 batches of one product (2 and 1 units), 3 openings | `HeldWithinOnHand`: no unit promised or sold twice; `OpenOrdersHoldTheirLines`: holds equal lines; `LedgerAddsUp`: movements add up; `SortedHandlersMeetOnFigures`: handlers that lock batches in order wait in a circle only over a product's figures |
| `stock_deadlock` | 2 requests, same jobs | `ApprovalsAndSalesNeverDeadlock`: violated, see section 4 |
| `stock_liveness` | 2 requests, 2 attempts each, same jobs | `EveryRequestAnswered`; `ImplementsLedger`: each is one atomic step of `StockLedger` or none |
| `parcel_safety` | 3 requests out of 16 jobs, 2 orders with units of the same 2 batches of stock and 2 products, 2 delivery batches, 6 openings | `ParcelsAreWhereBatchesSay`: order, parcel and returns agree, an order is in one batch at a time, what left is in a batch that was handed over, and nobody is left behind; `RecordsMeetOnStock`: whoever does not put orders in a batch waits in a circle only over stock and figures; `ImplementsParcels`: the statements implement the atomic life of a parcel, in which a parcel is in one batch at a time and agrees with its order |
| `returns_money` | 2 lines (2 units at 1, 1 unit at 2), delivery 2, up to 4 returns, advances below, at and above the charge | `NoUnitReturnedTwice`; `RefundsAreRight`: promises covered by what was received, refunds earned, the delivery charge given back with the whole order and once; `OrderTellsItsReturns` |
| `sessions` | 3 requests out of 16 jobs, 2 accounts, 2 sessions open and room for more, 6 tokens, the clock ticks once, 3 openings | `OpenSessionsRenew`: one live token per open session, none per ended one, and the chain of traded tokens leads to it; `AnsweredMeansOver`; `OneDeviceNeverDeadlocks`; `ImplementsSessions` |
| `tabs` | one or two tabs, one session, 6 tokens, 4 ticks | `OneTabStaysSignedIn`: lost requests and answers never sign out a browser with one tab; `Inv` of `Sessions` |
| `back_office` | 3 requests out of one of 5 groups of jobs (51 in all); two or three rows of each kind, one of them yet to be created; 3 batches of 2 products | `DocumentsAppliedOnce`; `ChecksStillStand`: no edit overwritten unseen, parents Active when a child is put under them; `CatalogueAgrees`; `DeletedGetsNoStock` |
| `office` | 3 requests out of one group of jobs: two owners, a manager, staff, 4 guests for a cap of 2 (one here, one whose time is over, two who come), two modules with four features and one with none, one code sent and two yet to be sent | `AlwaysAnOwner`; `CachesAreTrue`; `OneOrder` of the menu; `GuestsFitAndDiffer`; `CodeChangesOnce` |
| `boot_payload` | an instance with the boot requests of two people | `OwnPayload`: violated, see section 4 |
| `sales_desk` | 3 requests out of one group of jobs: 3 customers, 5 addresses, 2 bookings, 6 orders, 3 gifts, a campaign with two partners, one free unit | `UnitsAccountedFor`; `BookingKept`; `GiftFollowsItsOrder`; `LinesKeepTheirRecords`; `RefusalsStillHold`: a blocked customer and a closed campaign; `AddressesStayInOrder`; `NumbersDiffer` |
| `figures` | 4 orders (two of one customer online, one at the counter, one there that another customer pays in part), 3 batches of 2 products, 5 documents, 3 campaigns, 2 days, 10 plans | `SalesReportsAgree`; `UnitsAddUp`; `StockPagesAgree`; `EverySaleBalances`; `OrdersAccountedFor`; `ClosedDaysOnlyFall` |

Why these bounds are enough: a conflict needs two transactions on one row, and a wait that
changes what a third sees needs three; two orders and two batches are the least for a cycle of
waits; the quantities make every job fit in some states and not in others. In `returns_money`
four returns let a cancelled one come between two that complete the order. `MaxAttempts` (3 in
the code) and `MaxReturns` (none in the code) are the only caps of the transaction models; a request
that would exceed `MaxReturns` is simply not made.

In `MCBackOffice`, `MCOffice` and `MCSalesDesk` jobs are in groups, and the three requests of a
behaviour are taken from one group: requests meet only on rows they share, and a job that shares rows
with several groups is in each of them. A job that is in a group twice is a button pressed twice.

Time is counted in graces: `Grace` is 1, `Idle` 2 and `Lifetime` 3, so that within the
`Horizon` each of the three can pass or not. In `MCSessions` one session and one token are about
to lapse, so one tick decides; in the run `tabs` four ticks outlive the whole session. Three requests
each issue at most one token and three exist, so six never run out; in `tabs` a tab asks only
while a token is left for every request on its way (`Ask`). The clock of `Tabs` stands still
while messages travel: the grace (30 seconds) is longer than a renewal takes to fail.

The bounds of `figures`: `LastDay` 2, since a report knows a day only as inside its period, before or
after it; `MaxReturns` 2, so that one return may be confirmed and another cancelled or pending;
`Plans`, the orders and documents that happen together in one behaviour, with or without edits, returns
and payments on account, since all of them at once are millions of states; every product and aisle is
Active, every batch is ready for sale, and what never changes in a batch or order is a constant. A
period is read over all channels, and all days over each channel: the filters are independent
conditions of one WHERE. `Floor`, under which no campaign is judged, is 1 (20 in the code), and `ListRows`, after
which a list is cut, 1 (from 5 to 12 in the code), so that two products, places or customers are more than a list
shows. One product has no brand and one batch no aisle, which no export of a brand or an aisle shows; every product
has a sub-category, as its schema asks (`product/schema.js:46`): the exports of brands, warehouses and aisles would
leave out one without (`Filed`). What a parcel owes its delivery pays, so only the sale at the counter makes a customer owe.

`CHECK_DEADLOCK FALSE` is used for `MCReturns` and `MCFigures`, where an order's life and the days
end, and `MCTabs.cfg`, where tokens and clock run out; the others check deadlock and end in `AllAnswered`.

**Symmetry** is over requests, in safety runs of `MCStock`, `MCParcel` and `MCSessions`: nothing in
the modules tells one request from another, and the properties checked with it speak of states and
of single steps only. `MCStarts` has each triple of jobs in one order instead.

**Fairness** (`FairSpec`): weak fairness of each request's statements, since a running copy
executes the next statement once its row is free, and of `BreakDeadlock`, since PostgreSQL
looks for deadlocks after `deadlock_timeout`. Nothing is assumed about lost connections. Weak
fairness is enough although rows are contended, because a request asks for finitely many rows
and the instance has finitely many requests.

## 4. What the checks found

All properties above hold of the code as it is, but two.

`OwnPayload` (run `boot_payload`): an instance keeps the boot payload it built under the payload's ETag
(`get-user-info.js:49`, `115`), and `config-version.js:44` calls it "The ETag for one user's boot payload". It is
made of the version, the role and the stamp of the account's last edit, which is 0 for an account that
nobody edited: two such accounts of one role share it, and the second is answered with the first's payload.

`ApprovalsAndSalesNeverDeadlock` (run `stock_deadlock`): "Batches are locked in one order, so two approvals or a
checkout touching the same batches cannot deadlock" (`approve-product-dispose.js:33`). After each batch the
product's row of `product_stats` is locked as well (line 47; `checkout-pos-sale.js:90` and `give-giveaway.js:41`
do the same), and kept. In the trace one request has taken batch 1 and the figures of its product and wants batch
2 of the same product; another has batch 2 and wants the figures. The database ends one of them; it is
answered with an error, not run again, and can be pressed again. `SortedHandlersMeetOnFigures` says that this is the only way.

### Met on the way

These were reached while modelling, with the models in this directory or a job added to them. They are
hazards in `PROJECT.json`; no property of a run states them.

*Two tabs.* The comment at `refresh-token.js:19-22` wants neither a lost answer nor "two tabs renewing
together" to end a session of honest people (`HonestStaySignedIn` of `Tabs`). With one tab it holds
(`OneTabStaysSignedIn`). With two it does not: both tabs send token 1; the first is given token 2, the
second, within the grace, token 3, and token 2 is taken back (`refresh-token.js:104`). If the answer with
token 3 is lost, or overtaken by the one with token 2, the cookie is token 2, and the next renewal meets
the Revoked branch (line 94): answered "ended", cookie cleared, sign-in page, while the session stays open
in the list of devices.

*An order for a deleted product.* A delete refuses a product that a submitted purchase order is waiting
for, because "verifying it later would put stock on a product nobody can see" (`delete-product.js:8-9`). It
counts committed orders while it has the product locked, but a purchase order reads its products without a
lock (`order-rules.js:36`). Order and delete each find the other's row as it was, and both commit;
verification then receives the units without looking at `is_deleted` (`verify-purchase-order.js:35-70`). If a
foreign key makes the insert of a line lock the product, the whole delete still fits between the order's
check and its insert.

*A moved aisle.* An aisle that is in use may not move, or "every stock number by location would disagree
with itself" (`aisle/utils/parent.js:16-18`). In use means named by a purchase line or a batch. The line of a
submitted adjustment that will open a batch there is neither: the aisle moves, and verifying the adjustment
opens the batch in the old warehouse on an aisle of the new one. Nothing has to overlap for this.

*Other waits in a cycle.* Two delivery batches made of the same orders, because `addOrders` locks in no order; and
hand-overs, deliveries and confirmed returns with units of the same batches or products, because each row of stock
or figures stays locked while the next is waited for, in no order, within an order and from one order to the next
(`order-moves.js:26`, `61-62`, `confirm-return.js:82-86`). `RecordsMeetOnStock` names both as the exceptions. A gift drafted for a campaign
locks the partner's line and the campaign in one statement (`create-giveaway.js:39`), in an order the database
chooses, while a form has the campaign and then takes lines off it (`update-campaign.js`).

*A role's name.* `get_user_info` reads the role's name with the account (`get-user-info.js:22-23`), the version after
it (line 36), and sends and keeps both (lines 90, 115). A role renamed between the two (`update-role.js:30-32`) is kept
under its old name with an ETag that is current, until the version is raised again. Grants, features,
settings and the account itself are read after the version or are part of the ETag, and of them `CachesAreTrue` holds.

*Guests.* `free_name` and the cap count who is active when somebody comes; a guest account that left and is turned
on again by an administrator (`switch-user-status.js`) is counted by nothing, and `GuestsFitAndDiffer` says so.

*The last owner.* `lock_target` joins each account to the roles as it first read them: while somebody is being
*made* an owner, the owners it counts do not include them, and `AlwaysAnOwner` says so.

*Customers.* `find_or_create` goes by phone: if its insert meets the customer who has that phone, and that
customer is given another phone before it looks again, it finds nobody, and the sale is refused.

*Reports.* "COD with couriers" is empty in every state: an order is among the sold, which its query asks for,
only once its parcel was delivered, and a delivered order owes nothing. "Returned" of a product's lifetime
leaves out the units that came back damaged, which `UnitsAddUp` takes into account. A supplier's export explains a
column as "Total quantity purchased from THIS supplier only" (`export-supplier-data.js:468`), but sums purchase lines
after joining every batch of the product (lines 112, 134), other suppliers' too, so a product with two batches shows
twice the units; `generate-supplier-performance-report.js:558` joins the same way, and `SupplierExport` and
`SupplierPerformance` are the queries as they are.

*Delivery.* A batch delivery that meets a "not delivered" is refused as a whole; two returns that both give
the delivery charge back block each other until one is cancelled.

## 5. What is proved

For every value of the constants that the modules' assumptions allow. `PROJECT.json` ("theorems") says
in a sentence what each theorem establishes.

| Component | Theorems | Inductive invariant |
|---|---|---|
| `StockTx` | `TypeCorrect`, `NeverPromisedTwice`, `DispatchFindsItsUnits` (`StockProofs`) | `IInv` |
| `StockTx` | `MovementsAddUp`, `OrdersHoldTheirLines`, `SortedHandlersDeadlockOnFiguresOnly`, `TransactionsImplementLedger` (`StockProofs`) | `HInv` |
| `StockLedger` | `LedgerNeverPromisesTwice` (`StockProofs`) | `LInv` |
| `ParcelTx` | `ParcelsStayWhereBatchesSay`, `TransactionsImplementParcels`, `ButtonsMeetOnStock` (`ParcelTxProofs`) | `PInv` |
| `Parcels` | `ParcelsAgree` (`ParcelTxProofs`) | `Inv` |
| `Returns` | `EveryUnitReturnsOnce`, `RefundsStayRight`, `OrderSaysWhatReturned` (`ReturnsProofs`) | `RInv` |
| `Sessions` | `SessionsStayRenewable` (`SessionsProofs`) | `Inv` |
| `SessionTx` | `TransactionsImplementSessions`, `OpenSessionsStayRenewable`, `AnswersAreKept`, `OneDeviceIsNeverDeadlocked` (`SessionTxProofs`) | `SInv` |
| `Tabs` | `BrowsersKeepSessions`, `LoneTabStaysSignedIn` (`TabsProofs`) | `TabsInv` |
| `Office` | `TablesInOrder`, `TheBusinessIsOwned`, `ACodeIsUsedOnce`, `VisitorsHaveRoom`, `TheMenuKeepsOneOrder`, `CachesTellTheTruthAlways` (`OfficeProofs`) | `BInv`, `OwnersInv`, `CodesInv`, `GuestsInv`, `OrderInv`, `CachesInv` |
| `SalesDesk` | `EachKindItsRows`, `NumbersNeverRepeat`, `PartnersStayWithTheirRecords`, `RefusalsStand`, `BookingsBecomeTheirOrders` (`SalesDeskProofs`) | `DInv`, `NumbersInv`, `LinesInv`, `BuyersInv`, `CampaignsInv`, `BookingsInv` |

### Stock: units

`HeldWithinOnHand` speaks of committed rows only and is not inductive: it says nothing of what
transactions have pending. `IInv` adds, for each request:

- `Covered`: a batch it has locked covers every promise on it *as this request sees them*, the
  committed holds of other orders and its own pending ones, so its COMMIT keeps the property;
- `OnlyLetGo`: on a batch it has *not* locked it can only have given up units, so another
  transaction's lock on that batch is enough to count the promises on it;
- `Placed`: where it stands between two statements; above all, a request about to run the guarded
  UPDATE has the batch locked and its snapshot counted every promise it can see. This is the clause
  that fails without the lock of `stock-movement.js:96`.

`StockProofs` begins with what counting units needs: that `Promised` is finite and monotone, and changes
by exactly the units one order's hold changes by.

### Stock: history, deadlock and refinement

Three questions need to know more of a request than what it may still take: do the movements add up, are
an open order's holds its lines, is a COMMIT one step of `StockLedger`. `HInv` is `IInv`, `History`
(committed movements add up with their balances; committed orders hold their lines) and `Knows(t)` of
every request: which lines it has worked through, that its versions are what its job does to exactly
those, and that its own movements continue the committed ones of the batches it has locked. At its COMMIT
no line is left, so its versions are the whole job, and the abstract ledger takes the same step from the
same rows: an order it changed and a batch it took from are locked, so they are still as it found them.

The deadlock theorem says which handlers a deadlock needs. A request that has yet to claim its order has
nothing locked for another to wait for, so in a circle without a hand-over (`dispatch`) or an adjustment
everybody waits for the batch of its next line or for the figures of the batch it has just locked. A handler
that sorts has locked only batches up to that one, so if each waited for a batch, each would wait for one below
the one its neighbour waits for, and the request that waits for the largest batch would have nobody to wait for.
So somebody waits for figures; and who has them took another batch of that product.

### Parcels

A request of `ParcelTx` keeps, between its statements, only its record: locked rows with their new
versions, the orders to do and the orders that fit. `Knows(rows, x, j)` says for each of the ten kinds of
job what such a record x means for the committed rows. `PInv` is `TypeOK`, `RowsAgree(db)`, and `Knows` of every
request. The proof has three parts:

- *its own statements*: each keeps `Knows` of its request, from rows that agree. One step needs all of
  them: a handover goes on with orders that looked unready when it selected them. An order of an open batch
  is Confirmed exactly while its parcel is being prepared, so none of these is found Confirmed when it is
  locked, although they were selected without a lock;
- *its COMMIT*: `CommitAgrees`, the rows after it agree, and `Effect` says by kind what it did. Effects are
  of four shapes: one order's record moves (`RecordMoves`), a batch gets other orders (`Repacked`), leaves
  (`Leaves`), arrives (`Arrives`); and the abstract `Parcels` takes the step of that shape;
- *the others' COMMITs*: `Spares` says what a COMMIT leaves to a request that has rows locked: these rows,
  the contents of a batch among them, that an order among them joins no batch, and that only what was
  Confirmed or Pending is Confirmed. `KnowledgeOutlives`: that is enough for `Knows` of all kinds.

Deadlock: whoever has a row of stock or figures has all its orders, parcels and returns already and
waits for nothing but more such rows. So of those in a circle who wait for something else, each is
waited for by another of them. Whoever has a parcel locked has its order too, so they wait for
orders, and only a handover or a delivery waits for an order with another locked; they lock oldest
first, so the oldest order waited for in the circle would have to be waited for by nobody. Requests
that put orders in batches (`addOrders` inserts into an index in the order of the form) are outside
the statement.

### Returns

`RInv` needs what the three properties do not say: `OrderSound` (channel, status, parcel and payment fit),
`PaidSound` and `WaitingSound` (what was received, and what a waiting return is worth, by the order's state),
`SettledSound`, and `RaisingSound`: a cancelled return may fall between `StartRaise` and `FinishRaise`, so
the units read first may have become fewer and the money read next is of fewer returns; never more, since
everything else needs the order's lock. Units and money are sums over lines and returns, `SumFunctionOnSet`
of the community modules. The facts about sums (taking an element out, adding columns, comparing) need
induction over finite sets; it is made with a smallest counterexample, from the well-foundedness of the
strict subsets of a finite set, which the library states without an operator parameter.

### Sessions

`OneWayToRenew` and `TradesLeadOn` need each other, and `EachReplacesOne`: a reissue takes back the token
it finds behind the presented one, and the chain of every *other* traded token survives only because none
of them leads to that same token. One lemma serves both trades (`Renew`, `Reissue`), one both ways of ending
sessions.

### Sessions, statement by statement

`SInv` is `TypeOK`, the invariant of `Sessions` on the committed rows, and `Knows` of every request: what its
own versions are, by kind of request and statement, in terms of the committed rows. A renewal that has its
session locked and has read its token knows that the token is still live, or was traded moments ago for one
nobody used; one about to commit knows that nothing was issued for that session after its new token; whoever
ends sessions has written nothing but the end of open sessions and of their tokens, and has no live token of
them left over when it commits. Three parts again:

- *its own statements* keep `Knows`. `ReadToken` is the step the lock is for: it reads the token again, after
  the lock of the session, so what it decides on cannot change until COMMIT. `RevokeTokens` runs in a snapshot
  of its own and so finds every token the locked sessions have; a snapshot from before the lock would leave a
  token that was issued meanwhile;
- *its COMMIT* is one event of `Sessions` (`CommitIsOneEvent`), whose `at` is the time the transaction began; it
  keeps the invariant of `Sessions` by what `SessionsProofs` proves, cited through `INSTANCE`;
- *the others' COMMITs*: `Kept` says what any COMMIT leaves alone. The tokens of a session are only touched by
  who has the session locked; what was issued or opened is never un-issued; a session that is over stays over.
  That is enough for `Knows` of all kinds.

`AnsweredMeansOver` needs one clause more (`KnowsNamed`): what the steps behind a sign-out named is over in its
own eyes or about to be ended by it, although the token it was named by may be traded by a renewal it waits for.
Deadlock: a renewal and the sign-out of one device lock nothing before their session, and who has a token
locked has its session locked too (`TokensGuarded`); so once they hold a row they wait for nobody (`StandsAlone`).

### A browser

`TabsInv` says that every waiting tab has exactly one message under way, and of a browser with one tab that asks
again in time (`Honest`): the cookie, or the one in the answer under way, is the live token of the session, or
one it traded just now whose replacement nobody used. Every step of the server is a step of `Sessions`
(`StepsOfSessions`), so `BrowsersKeepSessions` follows from `SessionsProofs`. It is of one browser and its one session
(`TabsAssumption`), with any number of tabs; whoever signs out or in again is in `SessionTx`.

### The office

More than twenty kinds of requests write here, and a question concerns a few of them. `BInv` is what all
share: the tables are typed, locks are those of the versions, and `Knows` of every request: each version it has
made is one its kind may make of that row (`Fair`, and `Moves` for accounts), and whenever it changes what
instances keep, it has raised `config_version` or will before its COMMIT (`Pending`). From it follows what any step
leaves to others and may do to a table (`Leaves`), and every question adds only what its own requests know:

- *who takes an owner's place away* (`Spares`) has, when it commits, another active owner locked, or has not
  touched one. `LockOwner` tests each owner again after the wait for its row, so two owners who turn each other
  off wait for each other instead of counting each other;
- *who verifies an emailed code* (`Uses`) has it locked from its comparison on, and has spent it itself before it
  writes the password; a spent code is never good again. The theorem is about these: `reset-password.js:49` reads its
code without a lock, so a reset may change the password with a code that is being verified;
- *a visitor* (`Visits`) has the desk locked from the count to the COMMIT, so nobody else comes in meanwhile: those
  who are still active when it commits are among those it counted, and none has the name it was given;
- *who arranges a module* (`Arranges`) locks every feature of it, finds their number and the form's equal, and
  writes them the positions of one list without repetition: until its COMMIT nobody else can, and after it the
  positions differ because the list's places do. It works through the modules of its form one by one, and those
  it is done with, or has not come to, are each either untouched or wholly rewritten;
- *who reads* keeps what it reads with the version it read *before* it. A COMMIT that changes what is cached raises
  `config_version`, so what was read is true or the version is old (but the role's name, read before it, of which
nothing is said); `Clean` and `Pending` of `BInv` say the first half
  for every kind of writer, `Reader` the second for every point between two reads, `GoodMemory` for what is kept.

Each has the three parts above: its own statements, its COMMIT, the others' COMMITs.

### The sales desk

Built like the office. `DInv` is what more than thirty kinds of requests share: rows have the columns of their table, locks
are those of the versions, a row locked FOR SHARE is not locked by another, and `Knows` of every request: each version
it has made is one its kind may make of that row (`Fits`, and a `...Moves` for each table: who may add a customer, close
a booking, take a partner off, what an order keeps on its way), and what it has found out where it stands (`Stands`).
The questions:

- *numbers* (`Mints`): whoever adds an order has the invoice desk locked and gave the order one more than the
  number of committed orders; nobody else adds one until its COMMIT. A draft keeps its number, so the numbers of the
  orders there are are always 1 up to their count, which is why the next one is free;
- *the lines of campaigns* (`Refers`): a payment, a gift or a promised post that is not committed yet is on a line that
  its request keeps (`Keeps`: locked, or shared) and found to be there. A form that takes partners off has its campaign and
  every line of it locked before it looks for records, so what it found unrecorded stays so: whoever would record on it
  waits for the line, and then finds it gone. That nobody else *adds* a line to the campaign meanwhile is the lock of the
  campaign's own row;
- *refusals* (`Buys`, `GivesOpen`): whoever places an order has, from where the customer is fitted to the COMMIT, that
  customer locked, and knows them acknowledged if they are blocked; the customer may also be one it adds, which nobody
  can flag before it is there. Whoever drafts or gives a gift for a campaign has, once it has looked, the campaign shared
  and running, so nobody closes it before the COMMIT; the gift's line names that campaign as long as it is there
  (`LinesInv`). All that may become Draft or Given otherwise is in a parcel, and for no campaign (`MayBecome`, `Aside`);
- *bookings* (`Closes`): whoever places an order for a booking has it locked from the first statement, knows from where
  the customer is fitted that the booking fits them, and from where the order is written that it fits the order, and
  at the COMMIT has closed it for that order. A converted booking never changes again, so whoever edits its order goes by
  what is committed, without keeping the lock for it; and an order that is placed only goes its way (`Follows`).

### From which assumptions

What the modules `ASSUME`, and TLC evaluates on the instances: orders, batches, lines and requests are finite
sets, orders and batches of naturals; a job is about rows its handler can be about (`JobsAssumption`); the
initial holds are within the initial stock; and `OpeningsAssumption`, that the rows `ParcelTx` starts from
agree, as the rows that earlier requests left do. `SessionTx` starts, likewise, from tables of which `Inv` of
`Sessions` holds (a conjunct of `Init`), and `SessionStartsAssumption` says that a request presents what it was
given: the token of a cookie was issued, the session it names was opened. `TabsAssumption` fixes one session, the
one the browser is about, and some grace. `AdminAssumption` and `OwnAccountAssumption` say that the tables of the
office have no row in common, that there are finitely many guests and codes, and that a guest's role is not the
owner's; `OfficeAssumption` that a request passed its schema; `Tidy`, a conjunct of `Init`, that the tables are as
earlier requests left them. The sales desk's assumptions are of the same kinds: its tables have no row in common and
orders are finitely many; `SalesDeskAssumption`, a request passed its schema (`Form`); `OpeningsAssumption`, the rows of a
day's start are as earlier requests left them (`Opening`), and the row a request will add is not there yet and no
other request's (`Meets`: its key is generated for it).

### Only model-checked

Liveness, and everything under fairness or with ENABLED, is out of the prover's reach. Not proved are the
properties of `BackOffice` and `Reports`, and of `SalesDesk` those that compare sums (`UnitsAccountedFor`) or need the whole
of a request's work: `GiftFollowsItsOrder`, `AddressesStayInOrder`. `TypeOK` and `DispatchNeverShort` of `StockTx` are proved and no longer checked by a run.

## 6. What is not modelled

Email (sent after the transaction and ignored on failure), logs, crash reports and observability, which
nothing reads back; the reading of a pasted message into an order and the search for a place by its name,
which are suggestions on a form; request schemas (a job is a request that passed its schema); lists, their
paging, sorting and search; layout and wording of documents and exports.

Of what is modelled: names, codes and labels, whose uniqueness the database's indexes keep; the locks that
foreign keys take (there is no schema in the repository); expiry dates and cost budgets of batches as editable
rows; the pool's size: a transaction never asks for a second connection, so three are as good as any; the
rows of `product_stats` that the gifts of an order count in; trends by hour and weekday, the
couriers' speed, a campaign's audience by age and place; the answer to a create that is retried after a lost
connection; drafts of documents whose lines are not filled in yet. `PROJECT.json` says for each component what
is left out and why.

## 7. The plan

Done: stock, parcels, returns, sessions, the back office, the office and its caches, the sales desk, the
reports; and the proofs of section 5. What is left is proof: `DocumentsAppliedOnce`
and `CatalogueAgrees` of `BackOffice`, along the lines of `OfficeProofs`, and `GiftFollowsItsOrder` and `AddressesStayInOrder` of `SalesDesk`.
