----------------------------- MODULE StockProofs -----------------------------
(***************************************************************************)
(* The stock transactions keep their types and never promise or sell more  *)
(* than is on hand, for every set of orders, batches, requests and jobs.   *)
(* The movement ledger adds up, open orders hold their lines, and every    *)
(* COMMIT is one step of the abstract ledger.  Handlers that sort their    *)
(* batches deadlock over the figures of a product only.                    *)
(***************************************************************************)
EXTENDS StockTx, FiniteSetTheorems, TLAPS

-----------------------------------------------------------------------------
(* How Promised counts: it is a number, it grows with the holds, and a     *)
(* change to one order's hold changes it by that much.                     *)

\* The units of one batch are finitely many, so their number is a natural number.
LEMMA PromisedFinite ==
    ASSUME NEW H \in Holdings, NEW b \in Batches
    PROVE  IsFiniteSet(PromisedUnits(H, b)) /\ Promised(H, b) \in Nat
<1> DEFINE f == [o \in Orders |-> {o} \X (1..H[o][b])]
           T == {{o} \X (1..H[o][b]) : o \in Orders}
<1>1. IsFiniteSet(Orders)
  BY OrdersAssumption
<1>2. f \in Surjection(Orders, T)
  BY DEF Surjection
<1>3. IsFiniteSet(T)
  BY <1>1, <1>2, FS_Surjection
<1>4. ASSUME NEW o \in Orders
      PROVE  IsFiniteSet({o} \X (1..H[o][b]))
  <2>1. H[o][b] \in Nat
    BY DEF Holdings, Quantities
  <2>2. IsFiniteSet(1..H[o][b])
    BY <2>1, FS_Interval
  <2>3. IsFiniteSet({o})
    BY FS_Singleton
  <2> QED
    BY <2>2, <2>3, FS_Product
<1>5. IsFiniteSet(UNION T)
  BY <1>3, <1>4, FS_UNION
<1> QED
  BY <1>5, FS_CardinalityType DEF PromisedUnits, Promised

\* A unit is promised exactly when its order holds that many.
LEMMA PromisedMember ==
    ASSUME NEW H, NEW b, NEW u
    PROVE  u \in PromisedUnits(H, b) <=> \E o \in Orders : u \in {o} \X (1..H[o][b])
BY DEF PromisedUnits

\* Fewer units held by every order are fewer units promised.
LEMMA PromisedMono ==
    ASSUME NEW G \in Holdings, NEW H \in Holdings, NEW b \in Batches,
           \A o \in Orders : G[o][b] <= H[o][b]
    PROVE  Promised(G, b) <= Promised(H, b)
<1>1. ASSUME NEW o \in Orders
      PROVE  {o} \X (1..G[o][b]) \subseteq {o} \X (1..H[o][b])
  <2>1. G[o][b] \in Nat /\ H[o][b] \in Nat /\ G[o][b] <= H[o][b]
    BY DEF Holdings, Quantities
  <2> QED
    BY <2>1
<1>2. PromisedUnits(G, b) \subseteq PromisedUnits(H, b)
  BY <1>1, PromisedMember
<1> QED
  BY <1>2, PromisedFinite, FS_Subset DEF Promised

\* There are n numbers from one to n.
LEMMA NumbersUpTo == ASSUME NEW n \in Nat PROVE IsFiniteSet(1..n) /\ Cardinality(1..n) = n
<1>1. 1 \in Int /\ n \in Int
  OBVIOUS
<1>2. IsFiniteSet(1..n) /\ Cardinality(1..n) = IF 1 > n THEN 0 ELSE n - 1 + 1
  BY <1>1, FS_Interval
<1> QED
  BY <1>2

\* An order alone holds no more than all orders do.
LEMMA PromisedCovers ==
    ASSUME NEW H \in Holdings, NEW b \in Batches, NEW o \in Orders
    PROVE  H[o][b] <= Promised(H, b)
<1>1. H[o][b] \in Nat
  BY DEF Holdings, Quantities
<1>2. IsFiniteSet({o} \X (1..H[o][b])) /\ Cardinality({o} \X (1..H[o][b])) = 1 * H[o][b]
  <2>1. IsFiniteSet(1..H[o][b]) /\ Cardinality(1..H[o][b]) = H[o][b]
    BY <1>1, NumbersUpTo
  <2>2. IsFiniteSet({o}) /\ Cardinality({o}) = 1
    BY FS_Singleton
  <2> QED
    BY <2>1, <2>2, FS_Product
<1>3. {o} \X (1..H[o][b]) \in SUBSET PromisedUnits(H, b)
  BY PromisedMember
<1>4. Cardinality({o} \X (1..H[o][b])) <= Cardinality(PromisedUnits(H, b))
  BY <1>3, PromisedFinite, FS_Subset
<1> QED
  BY <1>1, <1>2, <1>4 DEF Promised

\* When the orders but o hold the same, the promises differ by what o holds more.
LEMMA PromisedChange ==
    ASSUME NEW G \in Holdings, NEW H \in Holdings, NEW b \in Batches, NEW o \in Orders,
           \A p \in Orders \ {o} : G[p][b] = H[p][b],
           G[o][b] <= H[o][b]
    PROVE  Promised(H, b) = Promised(G, b) + (H[o][b] - G[o][b])
<1> DEFINE D == {o} \X ((G[o][b] + 1)..H[o][b])
<1>1. G[o][b] \in Nat /\ H[o][b] \in Nat /\ G[o][b] <= H[o][b]
  BY DEF Holdings, Quantities
<1>2. IsFiniteSet(D) /\ Cardinality(D) = H[o][b] - G[o][b]
  <2>1. /\ IsFiniteSet((G[o][b] + 1)..H[o][b])
        /\ Cardinality((G[o][b] + 1)..H[o][b]) = H[o][b] - G[o][b]
    <3>1. G[o][b] + 1 \in Int /\ H[o][b] \in Int
      BY <1>1
    <3>2. /\ IsFiniteSet((G[o][b] + 1)..H[o][b])
          /\ Cardinality((G[o][b] + 1)..H[o][b])
               = IF G[o][b] + 1 > H[o][b] THEN 0 ELSE H[o][b] - (G[o][b] + 1) + 1
      BY <3>1, FS_Interval
    <3> QED
      BY <1>1, <3>2
  <2>2. IsFiniteSet({o}) /\ Cardinality({o}) = 1
    BY FS_Singleton
  <2>3. IsFiniteSet(D) /\ Cardinality(D) = 1 * (H[o][b] - G[o][b])
    BY <2>1, <2>2, FS_Product
  <2> QED
    BY <1>1, <2>3
<1>3. PromisedUnits(H, b) = PromisedUnits(G, b) \cup D
  <2>1. {o} \X (1..H[o][b]) = ({o} \X (1..G[o][b])) \cup D
    BY <1>1
  <2>2. \A u : u \in PromisedUnits(H, b) <=> u \in PromisedUnits(G, b) \cup D
    <3> TAKE u
    <3>1. u \in PromisedUnits(H, b) <=> \E p \in Orders : u \in {p} \X (1..H[p][b])
      BY PromisedMember
    <3>2. u \in PromisedUnits(G, b) <=> \E p \in Orders : u \in {p} \X (1..G[p][b])
      BY PromisedMember
    <3>3. \A p \in Orders \ {o} : {p} \X (1..H[p][b]) = {p} \X (1..G[p][b])
      OBVIOUS
    <3> HIDE DEF D
    <3> QED
      BY <2>1, <3>1, <3>2, <3>3
  <2> QED
    BY <2>2
<1>4. PromisedUnits(G, b) \cap D = {}
  <2>1. ASSUME NEW u \in PromisedUnits(G, b), u \in D
        PROVE  FALSE
    <3>1. PICK p \in Orders : u \in {p} \X (1..G[p][b])
      BY PromisedMember
    <3>2. p = o
      BY <2>1, <3>1
    <3> QED
      BY <1>1, <2>1, <3>1, <3>2
  <2> QED
    BY <2>1
<1>5. Cardinality({}) = 0
  BY FS_EmptySet
<1>6. Cardinality(PromisedUnits(G, b) \cup D)
        = Cardinality(PromisedUnits(G, b)) + Cardinality(D) - Cardinality(PromisedUnits(G, b) \cap D)
  BY <1>2, PromisedFinite, FS_Union
<1>7. Promised(G, b) \in Nat /\ Promised(H, b) \in Nat
  BY PromisedFinite
<1> HIDE DEF D
<1>8. Cardinality(PromisedUnits(H, b)) = Cardinality(PromisedUnits(G, b)) + Cardinality(D) - 0
  BY <1>3, <1>4, <1>5, <1>6
<1> QED
  BY <1>1, <1>2, <1>7, <1>8 DEF Promised

\* Orders that hold nothing promise nothing.
LEMMA PromisedNothing ==
    ASSUME NEW H \in Holdings, NEW b \in Batches, \A o \in Orders : H[o][b] = 0
    PROVE  Promised(H, b) = 0
<1>1. PromisedUnits(H, b) = {}
  BY PromisedMember
<1> QED
  BY <1>1, FS_EmptySet DEF Promised

\* One order letting go of, or spending, q units of one batch changes no other promise.
LEMMA PromisedOneMore ==
    ASSUME NEW G \in Holdings, NEW H \in Holdings, NEW o \in Orders, NEW b \in Batches, NEW q \in Nat,
           G[o][b] = 0, H[o][b] = q,
           \A p \in Orders, c \in Batches : p # o \/ c # b => H[p][c] = G[p][c]
    PROVE  \A c \in Batches : Promised(H, c) = IF c = b THEN Promised(G, c) + q ELSE Promised(G, c)
<1>1. Promised(H, b) = Promised(G, b) + q
  <2>1. \A p \in Orders \ {o} : G[p][b] = H[p][b]
    OBVIOUS
  <2>2. G[o][b] <= H[o][b] /\ H[o][b] - G[o][b] = q
    OBVIOUS
  <2>3. Promised(H, b) = Promised(G, b) + (H[o][b] - G[o][b])
    BY <2>1, <2>2, PromisedChange
  <2> QED
    BY <2>2, <2>3
<1>2. ASSUME NEW c \in Batches, c # b
      PROVE  Promised(H, c) = Promised(G, c)
  <2>1. \A p \in Orders : H[p][c] = G[p][c] /\ G[p][c] \in Nat
    BY <1>2 DEF Holdings, Quantities
  <2>2. \A p \in Orders : H[p][c] <= G[p][c] /\ G[p][c] <= H[p][c]
    BY <2>1
  <2>3. Promised(H, c) <= Promised(G, c) /\ Promised(G, c) <= Promised(H, c)
    BY <2>2, PromisedMono
  <2>4. Promised(H, c) \in Nat /\ Promised(G, c) \in Nat
    BY PromisedFinite
  <2> QED
    BY <2>3, <2>4
<1> QED
  BY <1>1, <1>2

\* Promises fall into those of some of the orders and those of the others.
LEMMA PromisedSplit ==
    ASSUME NEW G \in Holdings, NEW D \in Holdings, NEW H \in Holdings, NEW b \in Batches,
           \A o \in Orders : \/ D[o][b] = H[o][b] /\ G[o][b] = 0
                             \/ G[o][b] = H[o][b] /\ D[o][b] = 0
    PROVE  Promised(H, b) = Promised(G, b) + Promised(D, b)
<1> DEFINE P == PromisedUnits(G, b)
           Q == PromisedUnits(D, b)
<1>1. ASSUME NEW o \in Orders
      PROVE  /\ {o} \X (1..H[o][b]) = ({o} \X (1..G[o][b])) \cup ({o} \X (1..D[o][b]))
             /\ {o} \X (1..G[o][b]) = {} \/ {o} \X (1..D[o][b]) = {}
  <2>1. 1..0 = {}
    OBVIOUS
  <2> QED
    BY <2>1
<1>2. PromisedUnits(H, b) = P \cup Q
  <2>1. \A u : u \in PromisedUnits(H, b) <=> u \in P \/ u \in Q
    <3> TAKE u
    <3>1. u \in PromisedUnits(H, b) <=> \E o \in Orders : u \in {o} \X (1..H[o][b])
      BY PromisedMember
    <3>2. u \in P <=> \E o \in Orders : u \in {o} \X (1..G[o][b])
      BY PromisedMember
    <3>3. u \in Q <=> \E o \in Orders : u \in {o} \X (1..D[o][b])
      BY PromisedMember
    <3> HIDE DEF P, Q
    <3> QED
      BY <1>1, <3>1, <3>2, <3>3, Zenon
  <2> QED
    BY <2>1
<1>3. P \cap Q = {}
  <2>1. ASSUME NEW u, u \in P, u \in Q
        PROVE  FALSE
    <3>1. PICK o \in Orders : u \in {o} \X (1..G[o][b])
      BY <2>1, PromisedMember
    <3>2. PICK p \in Orders : u \in {p} \X (1..D[p][b])
      BY <2>1, PromisedMember
    <3>3. o = p
      BY <3>1, <3>2
    <3> QED
      BY <1>1, <3>1, <3>2, <3>3
  <2> QED
    BY <2>1
<1>4. IsFiniteSet(P) /\ IsFiniteSet(Q) /\ Cardinality({}) = 0
  BY PromisedFinite, FS_EmptySet
<1>5. Promised(G, b) \in Nat /\ Promised(D, b) \in Nat
  BY PromisedFinite
<1> HIDE DEF P, Q
<1>6. Cardinality(P \cup Q) = Cardinality(P) + Cardinality(Q) - Cardinality(P \cap Q)
  BY <1>4, FS_Union
<1>7. Promised(G, b) = Cardinality(P) /\ Promised(D, b) = Cardinality(Q) /\ Promised(H, b) = Cardinality(P \cup Q)
  BY <1>2 DEF Promised, P, Q
<1>8. Cardinality(P \cap Q) = 0
  BY <1>3, <1>4
<1> QED
  BY <1>5, <1>6, <1>7, <1>8

-----------------------------------------------------------------------------
(* What a transaction knows, and why it never sells a unit twice *)

\* What a transaction knows of itself between two statements.  While it works on a line it has the
\* batch locked and, where it writes, its snapshot counts every promise it can see; the lines a
\* hand-over works through belong to orders it has locked.
Placed(t) ==
    /\ tx[t].pc = "begin" => tx[t].attempts < MaxAttempts
    /\ OnShelf(Kind(t)) => tx[t].ready = {}
    /\ \A o \in tx[t].ready : orderLock[o] = t
    /\ tx[t].pc = "hold" => Holds(Kind(t))
    /\ tx[t].pc \in {"take", "write"} => OnShelf(Kind(t))
    /\ tx[t].pc \in {"hold", "take", "write"} =>
        /\ tx[t].todo # << >>
        /\ batchLock[LineBatch(t)] = t
        /\ job[t].want[LineBatch(t)] > 0
    /\ tx[t].pc = "write" => Promised(HoldsOf(t), LineBatch(t)) <= tx[t].seen
    /\ tx[t].pc = "line" /\ Kind(t) = "dispatch" =>
        \A i \in 1..Len(tx[t].todo) : tx[t].todo[i][1] \in Orders /\ orderLock[tx[t].todo[i][1]] = t

\* A batch a transaction has locked covers the promises as that transaction sees them.
Covered(t) == \A b \in Batches : batchLock[b] = t => Promised(HoldsOf(t), b) <= tx[t].shelf[b]

\* On a batch it has not locked, a transaction can only have let go of an order's units.
OnlyLetGo(t) ==
    \A o \in Orders, b \in Batches :
        orderLock[o] = t /\ batchLock[b] # t => tx[t].mine[o][b] <= held[o][b]

\* The inductive invariant.
IInv ==
    /\ TypeOK
    /\ HeldWithinOnHand
    /\ \A t \in Requests : Placed(t) /\ Covered(t) /\ OnlyLetGo(t)

-----------------------------------------------------------------------------
(* Types of the helpers *)

LEMMA LinesFinite ==
    IsFiniteSet(Lines)
<1>1. IsFiniteSet(Orders) /\ IsFiniteSet(Batches)
  BY OrdersAssumption, BatchesAssumption
<1>2. IsFiniteSet(Orders \cup {NoOrder})
  BY <1>1, FS_AddElement
<1> QED
  BY <1>1, <1>2, FS_Product DEF Lines

\* However a transaction orders its lines, it works through a sequence of lines of the set it was given.
LEMMA SequencesType ==
    ASSUME NEW kind, NEW S \in SUBSET Lines, NEW s \in Sequences(kind, S)
    PROVE  s \in Seq(Lines) /\ \A i \in 1..Len(s) : s[i] \in S
<1>1. IsFiniteSet(S)
  BY LinesFinite, FS_Subset
<1>2. Cardinality(S) \in Nat
  BY <1>1, FS_CardinalityType
<1>3. s \in [1..Cardinality(S) -> S]
  BY DEF Sequences, SetToSeqs
<1>4. s \in Seq(S)
  BY <1>2, <1>3
<1> QED
  BY <1>4

LEMMA BlankType ==
    ASSUME NEW pc \in {"begin", "order", "line", "hold", "take", "write", "done", "failed"},
           NEW n \in 0..MaxAttempts
    PROVE  Blank(pc, n) \in Transaction
<1>1. [b \in Batches |-> << >>] \in [Batches -> Seq(Movement)]
  OBVIOUS
<1>2. Nothing \in Quantities /\ [o \in Orders |-> Nothing] \in Holdings
  BY DEF Nothing, Quantities, Holdings
<1>3. << >> \in Seq(Lines)
  OBVIOUS
<1> QED
  BY <1>1, <1>2, <1>3 DEF Blank, Transaction

LEMMA QuantityUpdate ==
    ASSUME NEW f \in Quantities, NEW b \in Batches, NEW n \in Nat
    PROVE  [f EXCEPT ![b] = n] \in Quantities
BY DEF Quantities

\* What a request sees of the database has the type of what is committed.
LEMMA SeenTypes ==
    ASSUME TypeOK, NEW t \in Requests
    PROVE  ShelfOf(t) \in Quantities /\ HoldsOf(t) \in Holdings
<1>1. tx[t].shelf \in Quantities /\ tx[t].mine \in Holdings
  BY DEF TypeOK, Transaction
<1> QED
  BY <1>1 DEF TypeOK, ShelfOf, HoldsOf, Quantities, Holdings

\* Under the invariant, whatever row a request sees next covers the promises it sees.
LEMMA SeenCovered ==
    ASSUME IInv, NEW t \in Requests, NEW b \in Batches
    PROVE  Promised(HoldsOf(t), b) <= ShelfOf(t)[b]
<1>1. CASE batchLock[b] = t
  BY <1>1 DEF IInv, Covered, ShelfOf
<1>2. CASE batchLock[b] # t
  <2>1. \A o \in Orders : HoldsOf(t)[o][b] <= held[o][b]
    <3> TAKE o \in Orders
    <3>1. held[o][b] \in Nat
      BY DEF IInv, TypeOK, Holdings, Quantities
    <3>2. CASE orderLock[o] = t
      BY <1>2, <3>2 DEF IInv, OnlyLetGo, HoldsOf
    <3>3. CASE orderLock[o] # t
      BY <3>1, <3>3 DEF HoldsOf
    <3> QED
      BY <3>2, <3>3
  <2>2. HoldsOf(t) \in Holdings /\ held \in Holdings
    BY SeenTypes DEF IInv, TypeOK
  <2>3. Promised(HoldsOf(t), b) <= Promised(held, b)
    BY <2>1, <2>2, PromisedMono
  <2>4. Promised(held, b) <= onHand[b] /\ ShelfOf(t)[b] = onHand[b]
    BY <1>2 DEF IInv, HeldWithinOnHand, ShelfOf
  <2>5. Promised(HoldsOf(t), b) \in Nat /\ Promised(held, b) \in Nat /\ onHand[b] \in Nat
    BY <2>2, PromisedFinite DEF IInv, TypeOK, Quantities
  <2> QED
    BY <2>3, <2>4, <2>5
<1> QED
  BY <1>1, <1>2

\* The line a transaction works on is one of its lines, and so are the lines after it.
LEMMA LineType ==
    ASSUME TypeOK, NEW t \in Requests, tx[t].todo # << >>
    PROVE  /\ Line(t) \in Lines /\ LineBatch(t) \in Batches
           /\ Tail(tx[t].todo) \in Seq(Lines)
           /\ Len(tx[t].todo) \in Nat /\ Len(tx[t].todo) > 0 /\ Line(t) = tx[t].todo[1]
           /\ Len(Tail(tx[t].todo)) = Len(tx[t].todo) - 1
           /\ \A i \in 1..Len(Tail(tx[t].todo)) : Tail(tx[t].todo)[i] = tx[t].todo[i + 1]
<1>1. tx[t].todo \in Seq(Lines)
  BY DEF TypeOK, Transaction
<1>2. Line(t) \in Lines /\ Tail(tx[t].todo) \in Seq(Lines)
  BY <1>1 DEF Line
<1>3. LineBatch(t) \in Batches
  BY <1>2 DEF LineBatch, Lines
<1> QED
  BY <1>1, <1>2, <1>3 DEF Line

-----------------------------------------------------------------------------
(* A statement of one request *)

\* A statement of t writes only t's own versions and takes or frees only t's own locks.
Frame(t) ==
    /\ UNCHANGED <<database, job>>
    /\ \A u \in Requests \ {t} :
        /\ tx'[u] = tx[u]
        /\ \A b \in Batches : batchLock'[b] = u <=> batchLock[b] = u
        /\ \A o \in Orders : orderLock'[o] = u <=> orderLock[o] = u

\* So it is enough to show of a statement that it keeps what t knows of itself.
LEMMA OthersKeep ==
    ASSUME IInv, NEW t \in Requests, Frame(t), TypeOK',
           Placed(t)', Covered(t)', OnlyLetGo(t)'
    PROVE  IInv'
<1>1. HeldWithinOnHand'
  BY DEF IInv, HeldWithinOnHand, Frame, database
<1>2. ASSUME NEW u \in Requests \ {t}
      PROVE  Placed(u)' /\ Covered(u)' /\ OnlyLetGo(u)'
  <2>1. /\ tx'[u] = tx[u]
        /\ \A b \in Batches : batchLock'[b] = u <=> batchLock[b] = u
        /\ \A o \in Orders : orderLock'[o] = u <=> orderLock[o] = u
        /\ held' = held /\ job' = job
    BY DEF Frame, database
  <2>2. HoldsOf(u)' = HoldsOf(u)
    BY <2>1 DEF HoldsOf
  <2>3. Placed(u) /\ Covered(u) /\ OnlyLetGo(u)
    BY DEF IInv
  <2>4. Covered(u)'
    BY <2>1, <2>2, <2>3 DEF Covered
  <2>5. OnlyLetGo(u)'
    BY <2>1, <2>3 DEF OnlyLetGo
  <2>6. Placed(u)'
    <3>1. Kind(u)' = Kind(u) /\ LineBatch(u)' = LineBatch(u)
      BY <2>1 DEF Kind, LineBatch, Line
    <3>2. (tx[u].pc \in {"hold", "take", "write"} => batchLock[LineBatch(u)] = u)'
      <4>1. tx[u].todo # << >> => LineBatch(u) \in Batches
        BY LineType DEF IInv
      <4> QED
        BY <2>1, <2>3, <3>1, <4>1 DEF Placed
    <3>3. (tx[u].pc = "line" /\ Kind(u) = "dispatch" =>
            \A i \in 1..Len(tx[u].todo) : tx[u].todo[i][1] \in Orders /\ orderLock[tx[u].todo[i][1]] = u)'
      BY <2>1, <2>3, <3>1 DEF Placed
    <3>4. (\A o \in tx[u].ready : orderLock[o] = u)'
      <4>1. tx[u].ready \in SUBSET Orders
        BY DEF IInv, TypeOK, Transaction
      <4> QED
        BY <2>1, <2>3, <4>1 DEF Placed
    <3> QED
      BY <2>1, <2>2, <2>3, <3>1, <3>2, <3>3, <3>4 DEF Placed
  <2> QED
    BY <2>4, <2>5, <2>6
<1> QED
  BY <1>1, <1>2 DEF IInv

-----------------------------------------------------------------------------
(* Each statement keeps the invariant *)

\* A transaction that is rolled back frees its locks and keeps nothing of what it wrote.
LEMMA RollbackKeeps ==
    ASSUME IInv, NEW t \in Requests, NEW pc \in {"begin", "failed"}, Rollback(t, pc),
           pc = "begin" => tx[t].attempts < MaxAttempts
    PROVE  IInv'
<1>1. tx[t].attempts \in 0..MaxAttempts /\ tx \in [Requests -> Transaction]
  BY DEF IInv, TypeOK, Transaction
<1>2. tx' = [tx EXCEPT ![t] = Blank(pc, tx[t].attempts)]
  BY DEF Rollback
<1>3. Blank(pc, tx[t].attempts) \in Transaction
  BY <1>1, BlankType
<1>4. tx'[t] = Blank(pc, tx[t].attempts) /\ \A u \in Requests \ {t} : tx'[u] = tx[u]
  BY <1>1, <1>2
<1>5. tx' \in [Requests -> Transaction]
  BY <1>1, <1>2, <1>3
<1>6. /\ batchLock' = [b \in Batches |-> IF batchLock[b] = t THEN NoRequest ELSE batchLock[b]]
      /\ orderLock' = [o \in Orders |-> IF orderLock[o] = t THEN NoRequest ELSE orderLock[o]]
      /\ UNCHANGED <<database, job>>
  BY DEF Rollback, Unlock
<1>7. TypeOK'
  BY <1>5, <1>6 DEF IInv, TypeOK, database
<1>8. NoRequest \notin Requests
  BY RequestsAssumption
<1>9. Frame(t)
  BY <1>4, <1>6, <1>8 DEF Frame
<1>10. (\A b \in Batches : batchLock'[b] # t) /\ (\A o \in Orders : orderLock'[o] # t)
  BY <1>6, <1>8
<1>11. Covered(t)' /\ OnlyLetGo(t)'
  BY <1>10 DEF Covered, OnlyLetGo
<1>12. Placed(t)'
  BY <1>4 DEF Placed, Blank, Kind
<1> QED
  BY <1>7, <1>9, <1>11, <1>12, OthersKeep

LEMMA FailKeeps ==
    ASSUME IInv, NEW t \in Requests, Fail(t)
    PROVE  IInv'
BY RollbackKeeps DEF Fail

LEMMA BeginKeeps ==
    ASSUME IInv, NEW t \in Requests, Begin(t)
    PROVE  IInv'
<1> DEFINE S == IF OnShelf(Kind(t)) THEN {<<NoOrder, b>> : b \in {c \in Batches : job[t].want[c] # 0}} ELSE {}
           pc == IF OnShelf(Kind(t)) THEN "line" ELSE "order"
<1>1. PICK s \in Sequences(Kind(t), S) :
        tx' = [tx EXCEPT ![t].pc = pc, ![t].attempts = @ + 1, ![t].unlocked = job[t].orders, ![t].todo = s]
  BY DEF Begin
<1>2. tx[t].pc = "begin" /\ UNCHANGED <<database, locks, job>>
  BY DEF Begin
<1>3. S \in SUBSET Lines
  BY DEF Lines
<1>4. s \in Seq(Lines)
  BY <1>3, SequencesType
<1>5. tx \in [Requests -> Transaction] /\ tx[t] \in Transaction
  BY DEF IInv, TypeOK
<1>6. job[t].orders \in SUBSET Orders
  BY JobsAssumption DEF IInv, TypeOK, JobType
<1>7. tx[t].attempts + 1 \in 0..MaxAttempts
  BY <1>2, <1>5, MaxAttemptsAssumption DEF IInv, Placed, Transaction
<1> HIDE DEF S
<1>8. tx'[t] = [tx[t] EXCEPT !.pc = pc, !.attempts = @ + 1, !.unlocked = job[t].orders, !.todo = s]
  BY <1>1, <1>5
<1>9. \A u \in Requests \ {t} : tx'[u] = tx[u]
  BY <1>1, <1>5
<1>10. tx' \in [Requests -> Transaction]
  BY <1>1, <1>4, <1>5, <1>6, <1>7 DEF Transaction
<1>11. TypeOK'
  BY <1>2, <1>10 DEF IInv, TypeOK, database, locks
<1>12. Frame(t)
  BY <1>2, <1>9 DEF Frame, locks
<1>13. /\ tx'[t].pc = pc /\ tx'[t].ready = tx[t].ready
       /\ tx'[t].mine = tx[t].mine /\ tx'[t].shelf = tx[t].shelf
  BY <1>5, <1>8 DEF Transaction
<1>14. HoldsOf(t)' = HoldsOf(t)
  BY <1>2, <1>13 DEF HoldsOf, database, locks
<1>15. Covered(t)' /\ OnlyLetGo(t)'
  BY <1>2, <1>13, <1>14 DEF IInv, Covered, OnlyLetGo, database, locks
<1>16. Placed(t)'
  BY <1>2, <1>13 DEF IInv, Placed, Kind, OnShelf, locks
<1> QED
  BY <1>11, <1>12, <1>15, <1>16, OthersKeep
\* The claims of an order: what t has of its holds is what was committed, or less.
LEMMA ClaimKeeps ==
    ASSUME IInv, NEW t \in Requests, NEW o \in Orders, NEW from, NEW own \in Quantities,
           NEW S \in SUBSET Lines, ClaimOrder(t, o, from, own, S),
           ~OnShelf(Kind(t)), Kind(t) # "dispatch",
           \A b \in Batches : own[b] <= held[o][b]
    PROVE  IInv'
<1>1. CASE Fail(t)
  BY <1>1, FailKeeps
<1>2. CASE ~Fail(t)
  <2>1. /\ orderLock[o] = NoRequest
        /\ orderLock' = [orderLock EXCEPT ![o] = t]
        /\ UNCHANGED <<database, batchLock, job>>
    BY <1>2 DEF ClaimOrder
  <2>2. PICK s \in Sequences(Kind(t), S) :
          tx' = [tx EXCEPT ![t].pc = "line", ![t].unlocked = {}, ![t].ready = {o},
                           ![t].mine[o] = own, ![t].todo = s]
    BY <1>2 DEF ClaimOrder
  <2>3. s \in Seq(Lines)
    BY SequencesType
  <2>4. tx \in [Requests -> Transaction] /\ tx[t] \in Transaction
    BY DEF IInv, TypeOK
  <2>5. tx'[t] = [tx[t] EXCEPT !.pc = "line", !.unlocked = {}, !.ready = {o}, !.mine[o] = own, !.todo = s]
    BY <2>2, <2>4
  <2>6. \A u \in Requests \ {t} : tx'[u] = tx[u]
    BY <2>2, <2>4
  <2>7. [tx[t].mine EXCEPT ![o] = own] \in Holdings
    BY <2>4 DEF Transaction, Holdings
  <2>8. tx' \in [Requests -> Transaction]
    <3>1. [tx[t] EXCEPT !.pc = "line", !.unlocked = {}, !.ready = {o}, !.todo = s] \in Transaction
      BY <2>3, <2>4 DEF Transaction
    <3>2. tx'[t] = [[tx[t] EXCEPT !.pc = "line", !.unlocked = {}, !.ready = {o}, !.todo = s]
                     EXCEPT !.mine = [tx[t].mine EXCEPT ![o] = own]]
      BY <2>4, <2>5 DEF Transaction
    <3>3. tx'[t] \in Transaction
      BY <2>7, <3>1, <3>2 DEF Transaction
    <3>4. tx' = [tx EXCEPT ![t] = tx'[t]]
      BY <2>2, <2>4
    <3> QED
      BY <2>4, <3>3, <3>4
  <2>9. orderLock' \in [Orders -> Requests \cup {NoRequest}]
    BY <2>1 DEF IInv, TypeOK
  <2>10. TypeOK'
    BY <2>1, <2>8, <2>9 DEF IInv, TypeOK, database
  <2>11. Frame(t)
    BY <2>1, <2>6, RequestsAssumption DEF IInv, TypeOK, Frame
  <2>12. /\ tx'[t].pc = "line" /\ tx'[t].shelf = tx[t].shelf /\ tx'[t].ready = {o}
         /\ tx'[t].mine = [tx[t].mine EXCEPT ![o] = own]
    BY <2>4, <2>5 DEF Transaction
  <2>13. \A p \in Orders, b \in Batches : HoldsOf(t)'[p][b] <= HoldsOf(t)[p][b]
    <3> TAKE p \in Orders, b \in Batches
    <3>1. held' = held /\ tx[t].mine \in Holdings
      BY <2>1, <2>4 DEF database, Transaction
    <3>2. held[p][b] \in Nat /\ tx[t].mine[p][b] \in Nat
      BY <3>1 DEF IInv, TypeOK, Holdings, Quantities
    <3>3. CASE p = o
      BY <2>1, <2>12, <3>1, <3>3, RequestsAssumption DEF HoldsOf, IInv, TypeOK, Holdings
    <3>4. CASE p # o
      BY <2>1, <2>12, <3>1, <3>2, <3>4 DEF HoldsOf, IInv, TypeOK, Holdings
    <3> QED
      BY <3>3, <3>4
  <2>14. Covered(t)'
    <3> SUFFICES ASSUME NEW b \in Batches, batchLock'[b] = t
                 PROVE  Promised(HoldsOf(t)', b) <= tx'[t].shelf[b]
      BY DEF Covered
    <3>1. HoldsOf(t) \in Holdings /\ HoldsOf(t)' \in Holdings
      <4>1. \A u \in Requests : TypeOK' => HoldsOf(u)' \in Holdings
        BY <2>8, <2>1 DEF HoldsOf, TypeOK, Holdings, Transaction, IInv, database
      <4> QED
        BY <2>10, <4>1, SeenTypes DEF IInv
    <3>2. Promised(HoldsOf(t)', b) <= Promised(HoldsOf(t), b)
      BY <2>13, <3>1, PromisedMono
    <3>3. Promised(HoldsOf(t), b) <= tx[t].shelf[b]
      BY <2>1 DEF IInv, Covered
    <3>4. Promised(HoldsOf(t)', b) \in Nat /\ Promised(HoldsOf(t), b) \in Nat /\ tx[t].shelf[b] \in Nat
      BY <2>4, <3>1, PromisedFinite DEF Transaction, Quantities
    <3> QED
      BY <2>12, <3>2, <3>3, <3>4
  <2>15. OnlyLetGo(t)'
    <3> SUFFICES ASSUME NEW p \in Orders, NEW b \in Batches, orderLock'[p] = t, batchLock'[b] # t
                 PROVE  tx'[t].mine[p][b] <= held'[p][b]
      BY DEF OnlyLetGo
    <3>1. held' = held /\ batchLock' = batchLock
      BY <2>1 DEF database
    <3>2. tx[t].mine \in Holdings
      BY <2>4 DEF Transaction
    <3>3. CASE p = o
      BY <2>12, <3>1, <3>2, <3>3 DEF Holdings
    <3>4. CASE p # o
      <4>1. orderLock[p] = t
        BY <2>1, <3>4 DEF IInv, TypeOK
      <4> QED
        BY <2>12, <3>1, <3>2, <3>4, <4>1 DEF IInv, OnlyLetGo, Holdings
    <3> QED
      BY <3>3, <3>4
  <2>16. Placed(t)'
    BY <2>1, <2>12 DEF Placed, Kind, database, IInv, TypeOK
  <2> QED
    BY <2>10, <2>11, <2>14, <2>15, <2>16, OthersKeep
<1> QED
  BY <1>1, <1>2
LEMMA PlaceKeeps ==
    ASSUME IInv, NEW t \in Requests, NEW o \in Orders, PlaceOrder(t, o) \/ EditOrder(t, o)
    PROVE  IInv'
<1>1. WantedLines(t, o) \in SUBSET Lines
  BY DEF WantedLines, Lines, Named
<1>2. Nothing \in Quantities /\ \A b \in Batches : Nothing[b] <= held[o][b]
  BY DEF Nothing, Quantities, IInv, TypeOK, Holdings
<1>3. ~OnShelf(Kind(t)) /\ Kind(t) # "dispatch"
  BY DEF PlaceOrder, EditOrder, OnShelf
<1>4. \E from : ClaimOrder(t, o, from, Nothing, WantedLines(t, o))
  BY DEF PlaceOrder, EditOrder
<1> QED
  BY <1>1, <1>2, <1>3, <1>4, ClaimKeeps

LEMMA ConfirmKeeps ==
    ASSUME IInv, NEW t \in Requests, NEW o \in Orders, ConfirmOrder(t, o) \/ CancelOrder(t, o)
    PROVE  IInv'
<1>1. {} \in SUBSET Lines
  OBVIOUS
<1>2. /\ Nothing \in Quantities /\ \A b \in Batches : Nothing[b] <= held[o][b]
      /\ held[o] \in Quantities /\ \A b \in Batches : held[o][b] <= held[o][b]
  BY DEF Nothing, Quantities, IInv, TypeOK, Holdings
<1>3. ~OnShelf(Kind(t)) /\ Kind(t) # "dispatch"
  BY DEF ConfirmOrder, CancelOrder, OnShelf
<1>4. \E from : ClaimOrder(t, o, from, Nothing, {}) \/ ClaimOrder(t, o, from, held[o], {})
  BY DEF ConfirmOrder, CancelOrder
<1> QED
  BY <1>1, <1>2, <1>3, <1>4, ClaimKeeps

\* Locking a parcel's order shows its holds as they are committed, so nothing seen changes.
LEMMA LockParcelKeeps ==
    ASSUME IInv, NEW t \in Requests, NEW o \in Orders, LockParcel(t, o)
    PROVE  IInv'
<1> DEFINE ready == tx[t].ready \cup (IF status[o] = "Confirmed" THEN {o} ELSE {})
           last == tx[t].unlocked = {o}
           lines == UNION {{p} \X Named(held[p]) : p \in ready}
           S == IF last THEN lines ELSE {}
           pc == IF last THEN "line" ELSE "order"
<1>1. CASE Fail(t)
  BY <1>1, FailKeeps
<1>2. CASE ~Fail(t)
  <2>1. /\ orderLock[o] = NoRequest /\ Kind(t) = "dispatch"
        /\ orderLock' = [orderLock EXCEPT ![o] = t]
        /\ UNCHANGED <<database, batchLock, job>>
    BY <1>2 DEF LockParcel
  <2>2. PICK s \in Sequences("dispatch", S) :
          tx' = [tx EXCEPT ![t].pc = pc, ![t].unlocked = @ \ {o}, ![t].ready = ready,
                           ![t].mine[o] = held[o], ![t].todo = s]
    BY <1>2 DEF LockParcel
  <2>3. tx \in [Requests -> Transaction] /\ tx[t] \in Transaction
    BY DEF IInv, TypeOK
  <2>4. ready \in SUBSET Orders
    BY <2>3 DEF Transaction
  <2>5. S \in SUBSET (ready \X Batches) /\ S \in SUBSET Lines
    BY <2>4 DEF Lines, Named
  <2>5a. pc \in {"line", "order"}
    OBVIOUS
  <2> HIDE DEF ready, S, last, pc
  <2>6. s \in Seq(Lines) /\ \A i \in 1..Len(s) : s[i] \in ready \X Batches
    <3>1. s \in Seq(Lines) /\ \A i \in 1..Len(s) : s[i] \in S
      BY <2>5, SequencesType
    <3> QED
      BY <2>5, <3>1
  <2>7. \A u \in Requests \ {t} : tx'[u] = tx[u]
    BY <2>2, <2>3
  <2>8. held[o] \in Quantities
    BY DEF IInv, TypeOK, Holdings
  <2>9. [tx[t].mine EXCEPT ![o] = held[o]] \in Holdings
    BY <2>3, <2>8 DEF Transaction, Holdings
  <2>10. [tx[t] EXCEPT !.pc = pc, !.unlocked = @ \ {o}, !.ready = ready, !.todo = s] \in Transaction
    BY <2>3, <2>4, <2>6, <2>5a DEF Transaction
  <2>11. tx'[t] = [[tx[t] EXCEPT !.pc = pc, !.unlocked = @ \ {o}, !.ready = ready, !.todo = s]
                    EXCEPT !.mine = [tx[t].mine EXCEPT ![o] = held[o]]]
    BY <2>2, <2>3 DEF Transaction
  <2>12. tx'[t] \in Transaction
    BY <2>9, <2>10, <2>11 DEF Transaction
  <2>13. tx' = [tx EXCEPT ![t] = tx'[t]]
    BY <2>2, <2>3
  <2>14. tx' \in [Requests -> Transaction]
    BY <2>3, <2>12, <2>13
  <2>15. TypeOK'
    BY <2>1, <2>14 DEF IInv, TypeOK, database
  <2>16. Frame(t)
    BY <2>1, <2>7, RequestsAssumption DEF IInv, TypeOK, Frame
  <2>17. /\ tx'[t].pc = pc /\ tx'[t].shelf = tx[t].shelf /\ tx'[t].ready = ready /\ tx'[t].todo = s
         /\ tx'[t].mine = [tx[t].mine EXCEPT ![o] = held[o]]
    BY <2>3, <2>11 DEF Transaction
  <2>18. HoldsOf(t)' = HoldsOf(t)
    <3>1. \A p \in Orders : HoldsOf(t)'[p] = HoldsOf(t)[p]
      BY <2>1, <2>3, <2>17, RequestsAssumption DEF HoldsOf, database, IInv, TypeOK, Holdings, Transaction
    <3> QED
      BY <3>1 DEF HoldsOf
  <2>19. Covered(t)'
    BY <2>1, <2>17, <2>18 DEF IInv, Covered
  <2>20. OnlyLetGo(t)'
    BY <2>1, <2>3, <2>8, <2>17 DEF IInv, TypeOK, OnlyLetGo, database, Transaction, Holdings, Quantities
  <2>21. \A p \in ready : orderLock'[p] = t
    BY <2>1, <2>3 DEF ready, IInv, TypeOK, Placed, Transaction
  <2>22. \A i \in 1..Len(s) : s[i][1] \in Orders /\ orderLock'[s[i][1]] = t
    BY <2>4, <2>6, <2>21
  <2>23. Placed(t)'
    BY <2>1, <2>17, <2>21, <2>22, <2>5a DEF Placed, Kind, OnShelf
  <2> QED
    BY <2>15, <2>16, <2>19, <2>20, <2>23, OthersKeep
<1> QED
  BY <1>1, <1>2
LEMMA LockBatchKeeps ==
    ASSUME IInv, NEW t \in Requests, LockBatch(t)
    PROVE  IInv'
<1> DEFINE b == LineBatch(t)
           pc == IF Holds(Kind(t)) THEN "hold" ELSE "take"
           shelf == [tx[t].shelf EXCEPT ![b] = ShelfOf(t)[b]]
<1>1. /\ AtLine(t, {"place", "edit", "sell", "adjust"})
      /\ job[t].want[b] > 0
      /\ Free(batchLock[b], t)
      /\ batchLock' = [batchLock EXCEPT ![b] = t]
      /\ UNCHANGED <<database, orderLock, job>>
  BY DEF LockBatch
<1>2. tx \in [Requests -> Transaction] /\ tx[t] \in Transaction
  BY DEF IInv, TypeOK
<1>3. b \in Batches /\ tx[t].todo # << >>
  BY <1>1, LineType DEF IInv, AtLine
<1>4. shelf \in Quantities
  <2>1. ShelfOf(t)[b] \in Nat
    BY <1>3, SeenTypes DEF IInv, Quantities
  <2>2. tx[t].shelf \in Quantities
    BY <1>2 DEF Transaction
  <2> QED
    BY <1>3, <2>1, <2>2, QuantityUpdate
<1>5. pc \in {"hold", "take"} /\ (pc = "hold" => Holds(Kind(t))) /\ (pc = "take" => OnShelf(Kind(t)))
  BY <1>1 DEF AtLine, Holds, OnShelf
<1>6. tx' = [tx EXCEPT ![t] = [tx[t] EXCEPT !.pc = pc, !.shelf = shelf]]
  BY <1>2 DEF LockBatch, Transaction
<1> HIDE DEF pc, shelf, b
<1>7. /\ tx'[t] = [tx[t] EXCEPT !.pc = pc, !.shelf = shelf]
      /\ \A u \in Requests \ {t} : tx'[u] = tx[u]
  BY <1>2, <1>6
<1>8. tx'[t] \in Transaction
  BY <1>2, <1>4, <1>5, <1>7 DEF Transaction
<1>9. tx' \in [Requests -> Transaction]
  BY <1>2, <1>6, <1>7, <1>8
<1>10. TypeOK'
  BY <1>1, <1>3, <1>9 DEF IInv, TypeOK, database
<1>11. Frame(t)
  BY <1>1, <1>3, <1>7, RequestsAssumption DEF IInv, TypeOK, Frame, Free
<1>12. /\ tx'[t].pc = pc /\ tx'[t].shelf = shelf /\ tx'[t].ready = tx[t].ready
       /\ tx'[t].todo = tx[t].todo /\ tx'[t].mine = tx[t].mine
  BY <1>2, <1>7 DEF Transaction
<1>13. HoldsOf(t)' = HoldsOf(t)
  BY <1>1, <1>12 DEF HoldsOf, database
<1>14. Covered(t)'
  <2>1. \A c \in Batches : Promised(HoldsOf(t), c) <= ShelfOf(t)[c]
    BY SeenCovered
  <2>2. shelf[b] = ShelfOf(t)[b] /\ \A c \in Batches \ {b} : shelf[c] = tx[t].shelf[c]
    BY <1>2, <1>3 DEF shelf, Transaction, Quantities
  <2>3. \A c \in Batches \ {b} : batchLock'[c] = t => Promised(HoldsOf(t), c) <= shelf[c]
    BY <1>1, <1>3, <2>2 DEF IInv, Covered, TypeOK
  <2> QED
    BY <1>12, <1>13, <2>1, <2>2, <2>3 DEF Covered
<1>15. OnlyLetGo(t)'
  BY <1>1, <1>3, <1>12 DEF IInv, OnlyLetGo, TypeOK, database
<1>16. Placed(t)'
  <2>1. LineBatch(t)' = b /\ Kind(t)' = Kind(t)
    BY <1>1, <1>12 DEF LineBatch, Line, Kind, b
  <2> QED
    BY <1>1, <1>3, <1>5, <1>12, <2>1 DEF IInv, TypeOK, Placed
<1> QED
  BY <1>10, <1>11, <1>14, <1>15, <1>16, OthersKeep

\* Holding q more units of a batch promises q more, and they are on it.
LEMMA HoldStockKeeps ==
    ASSUME IInv, NEW t \in Requests, HoldStock(t)
    PROVE  IInv'
<1> DEFINE o == Line(t)[1]
           b == LineBatch(t)
           q == job[t].want[b]
           mine == [tx[t].mine EXCEPT ![o] = [tx[t].mine[o] EXCEPT ![b] = @ + q]]
<1>1. CASE Fail(t)
  BY <1>1, FailKeeps
<1>2. CASE ~Fail(t)
  <2>1. /\ tx[t].pc = "hold"
        /\ ShelfOf(t)[b] - Promised(HoldsOf(t), b) >= q
        /\ UNCHANGED <<database, locks, job>>
    BY <1>2 DEF HoldStock
  <2>2. tx \in [Requests -> Transaction] /\ tx[t] \in Transaction
    BY DEF IInv, TypeOK
  <2>3. tx[t].todo # << >> /\ Holds(Kind(t)) /\ batchLock[b] = t /\ q > 0
    BY <2>1 DEF IInv, Placed
  <2>4. b \in Batches /\ o \in Orders \cup {NoOrder} /\ Tail(tx[t].todo) \in Seq(Lines)
    BY <2>3, LineType DEF IInv, Lines
  <2>5. q \in Nat
    <3>1. job[t] \in Jobs /\ job[t].kind # "adjust"
      BY <2>3 DEF IInv, TypeOK, Kind, Holds
    <3>2. job[t].want \in Quantities
      BY <3>1, JobsAssumption
    <3> QED
      BY <2>4, <3>2 DEF Quantities
  <2>6. mine \in Holdings
    <3>1. tx[t].mine \in Holdings
      BY <2>2 DEF Transaction
    <3>2. CASE o \in Orders
      <4>1. tx[t].mine[o] \in Quantities
        BY <3>1, <3>2 DEF Holdings
      <4>2. [tx[t].mine[o] EXCEPT ![b] = @ + q] \in Quantities
        <5>1. tx[t].mine[o][b] + q \in Nat
          BY <2>4, <2>5, <4>1 DEF Quantities
        <5> QED
          BY <2>4, <4>1, <5>1, QuantityUpdate
      <4> QED
        BY <3>1, <3>2, <4>2 DEF Holdings
    <3>3. CASE o \notin Orders
      BY <3>1, <3>3 DEF Holdings
    <3> QED
      BY <3>2, <3>3
  <2>7. tx' = [tx EXCEPT ![t] = [tx[t] EXCEPT !.pc = "line", !.todo = Tail(tx[t].todo), !.mine = mine]]
    BY <1>2, <2>2 DEF HoldStock, Transaction
  <2> HIDE DEF mine, q, b, o
  <2>8. /\ tx'[t] = [tx[t] EXCEPT !.pc = "line", !.todo = Tail(tx[t].todo), !.mine = mine]
        /\ \A u \in Requests \ {t} : tx'[u] = tx[u]
    BY <2>2, <2>7
  <2>9. tx'[t] \in Transaction
    BY <2>2, <2>4, <2>6, <2>8 DEF Transaction
  <2>10. tx' \in [Requests -> Transaction]
    BY <2>2, <2>7, <2>8, <2>9
  <2>11. TypeOK'
    BY <2>1, <2>10 DEF IInv, TypeOK, database, locks
  <2>12. Frame(t)
    BY <2>1, <2>8 DEF Frame, locks
  <2>13. /\ tx'[t].pc = "line" /\ tx'[t].shelf = tx[t].shelf /\ tx'[t].ready = tx[t].ready
         /\ tx'[t].mine = mine
    BY <2>2, <2>8 DEF Transaction
  <2>14. HoldsOf(t) \in Holdings /\ HoldsOf(t)' \in Holdings
    <3>1. HoldsOf(t)' = [p \in Orders |-> IF orderLock[p] = t THEN mine[p] ELSE held[p]]
      BY <2>1, <2>13 DEF HoldsOf, database, locks
    <3> QED
      BY <2>6, <3>1, SeenTypes DEF IInv, TypeOK, Holdings
  <2>15. \A p \in Orders, c \in Batches : <<p, c>> # <<o, b>> => mine[p][c] = tx[t].mine[p][c]
    BY <2>2, <2>4 DEF mine, Transaction, Holdings, Quantities
  <2>16. o \in Orders => mine[o][b] = tx[t].mine[o][b] + q
    BY <2>2, <2>4 DEF mine, Transaction, Holdings, Quantities
  <2>17. \A p \in Orders, c \in Batches : <<p, c>> # <<o, b>> => HoldsOf(t)'[p][c] = HoldsOf(t)[p][c]
    BY <2>1, <2>13, <2>15 DEF HoldsOf, database, locks
  <2>18. o \in Orders => HoldsOf(t)'[o][b] \in {HoldsOf(t)[o][b], HoldsOf(t)[o][b] + q}
    BY <2>1, <2>13, <2>16 DEF HoldsOf, database, locks
  <2>19. \A c \in Batches \ {b} : Promised(HoldsOf(t)', c) <= Promised(HoldsOf(t), c)
    <3> TAKE c \in Batches \ {b}
    <3>1. \A p \in Orders : HoldsOf(t)'[p][c] = HoldsOf(t)[p][c] /\ HoldsOf(t)[p][c] \in Nat
      BY <2>14, <2>17 DEF Holdings, Quantities
    <3>2. \A p \in Orders : HoldsOf(t)'[p][c] <= HoldsOf(t)[p][c]
      BY <3>1
    <3> QED
      BY <2>14, <3>2, PromisedMono
  <2>20. Promised(HoldsOf(t)', b) <= Promised(HoldsOf(t), b) + q
    <3>1. Promised(HoldsOf(t)', b) \in Nat /\ Promised(HoldsOf(t), b) \in Nat
      BY <2>4, <2>14, PromisedFinite
    <3>2. CASE o \in Orders /\ HoldsOf(t)'[o][b] = HoldsOf(t)[o][b] + q
      <4>1. HoldsOf(t)[o][b] \in Nat /\ HoldsOf(t)'[o][b] \in Nat
        BY <2>4, <2>14, <3>2 DEF Holdings, Quantities
      <4>2. \A p \in Orders \ {o} : HoldsOf(t)[p][b] = HoldsOf(t)'[p][b]
        BY <2>4, <2>17
      <4>3. HoldsOf(t)[o][b] <= HoldsOf(t)'[o][b] /\ HoldsOf(t)'[o][b] - HoldsOf(t)[o][b] = q
        BY <2>5, <3>2, <4>1
      <4>4. Promised(HoldsOf(t)', b) = Promised(HoldsOf(t), b) + (HoldsOf(t)'[o][b] - HoldsOf(t)[o][b])
        BY <2>4, <2>14, <3>2, <4>2, <4>3, PromisedChange
      <4> QED
        BY <2>5, <3>1, <4>3, <4>4
    <3>3. CASE o \notin Orders \/ HoldsOf(t)'[o][b] = HoldsOf(t)[o][b]
      <4>1. \A p \in Orders : HoldsOf(t)'[p][b] = HoldsOf(t)[p][b] /\ HoldsOf(t)[p][b] \in Nat
        BY <2>4, <2>14, <2>17, <3>3 DEF Holdings, Quantities
      <4>2. \A p \in Orders : HoldsOf(t)'[p][b] <= HoldsOf(t)[p][b]
        BY <4>1
      <4>3. Promised(HoldsOf(t)', b) <= Promised(HoldsOf(t), b)
        BY <2>4, <2>14, <4>2, PromisedMono
      <4> QED
        BY <2>5, <3>1, <4>3
    <3> QED
      BY <2>18, <3>2, <3>3
  <2>21. Covered(t)'
    <3> SUFFICES ASSUME NEW c \in Batches, batchLock'[c] = t
                 PROVE  Promised(HoldsOf(t)', c) <= tx'[t].shelf[c]
      BY DEF Covered
    <3>1. /\ Promised(HoldsOf(t)', c) \in Nat /\ Promised(HoldsOf(t), c) \in Nat
          /\ tx[t].shelf[c] \in Nat /\ batchLock[c] = t
      BY <2>1, <2>2, <2>14, PromisedFinite DEF Transaction, Quantities, locks
    <3>2. CASE c = b
      <4>1. ShelfOf(t)[b] = tx[t].shelf[b]
        BY <2>3, <2>4 DEF ShelfOf
      <4> QED
        BY <2>1, <2>5, <2>13, <2>20, <3>1, <3>2, <4>1
    <3>3. CASE c # b
      <4>1. Promised(HoldsOf(t), c) <= tx[t].shelf[c]
        BY <3>1 DEF IInv, Covered
      <4> QED
        BY <2>13, <2>19, <3>1, <3>3, <4>1
    <3> QED
      BY <3>2, <3>3
  <2>22. OnlyLetGo(t)'
    <3> SUFFICES ASSUME NEW p \in Orders, NEW c \in Batches, orderLock'[p] = t, batchLock'[c] # t
                 PROVE  tx'[t].mine[p][c] <= held'[p][c]
      BY DEF OnlyLetGo
    <3>1. orderLock[p] = t /\ batchLock[c] # t /\ held' = held
      BY <2>1 DEF locks, database
    <3> QED
      BY <2>3, <2>13, <2>15, <3>1 DEF IInv, OnlyLetGo
  <2>23. Placed(t)'
    <3>1. Kind(t)' = Kind(t) /\ Kind(t) # "dispatch" /\ ~OnShelf(Kind(t))
      BY <2>1, <2>3 DEF Kind, Holds, OnShelf
    <3>2. \A p \in tx[t].ready : orderLock'[p] = t
      BY <2>1 DEF IInv, Placed, locks
    <3> QED
      BY <2>13, <3>1, <3>2 DEF Placed
  <2> QED
    BY <2>11, <2>12, <2>21, <2>22, <2>23, OthersKeep
<1> QED
  BY <1>1, <1>2
\* The snapshot of the guarded update counts every promise the transaction can see, and it has the batch locked.
LEMMA StartTakeKeeps ==
    ASSUME IInv, NEW t \in Requests, StartTake(t)
    PROVE  IInv'
<1> DEFINE seen == Promised(HoldsOf(t), LineBatch(t))
<1>1. /\ tx[t].pc = "take" /\ UNCHANGED <<database, locks, job>>
      /\ tx' = [tx EXCEPT ![t] = [tx[t] EXCEPT !.pc = "write", !.seen = seen]]
  BY DEF StartTake, IInv, TypeOK, Transaction
<1>2. tx \in [Requests -> Transaction] /\ tx[t] \in Transaction
  BY DEF IInv, TypeOK
<1>3. /\ tx[t].todo # << >> /\ OnShelf(Kind(t)) /\ LineBatch(t) \in Batches
      /\ batchLock[LineBatch(t)] = t /\ job[t].want[LineBatch(t)] > 0
  BY <1>1, LineType DEF IInv, Placed
<1>4. seen \in Nat
  BY <1>3, SeenTypes, PromisedFinite DEF IInv
<1>5. /\ tx'[t] = [tx[t] EXCEPT !.pc = "write", !.seen = seen]
      /\ \A u \in Requests \ {t} : tx'[u] = tx[u]
  BY <1>1, <1>2
<1>6. tx' \in [Requests -> Transaction]
  BY <1>1, <1>2, <1>4 DEF Transaction
<1>7. TypeOK'
  BY <1>1, <1>6 DEF IInv, TypeOK, database, locks
<1>8. Frame(t)
  BY <1>1, <1>5 DEF Frame, locks
<1>9. /\ tx'[t].pc = "write" /\ tx'[t].shelf = tx[t].shelf /\ tx'[t].ready = tx[t].ready
      /\ tx'[t].todo = tx[t].todo /\ tx'[t].mine = tx[t].mine /\ tx'[t].seen = seen
  BY <1>2, <1>5 DEF Transaction
<1>10. HoldsOf(t)' = HoldsOf(t) /\ LineBatch(t)' = LineBatch(t) /\ Kind(t)' = Kind(t)
  BY <1>1, <1>9 DEF HoldsOf, LineBatch, Line, Kind, database, locks
<1>11. Covered(t)' /\ OnlyLetGo(t)'
  BY <1>1, <1>9, <1>10 DEF IInv, Covered, OnlyLetGo, database, locks
<1>12. Placed(t)'
  <2>1. seen <= tx'[t].seen
    BY <1>4, <1>9
  <2>2. \A o \in tx[t].ready : orderLock'[o] = t
    BY <1>1 DEF IInv, Placed, locks
  <2>3. (Promised(HoldsOf(t), LineBatch(t)))' = seen
    BY <1>10
  <2> QED
    BY <1>1, <1>3, <1>9, <1>10, <2>1, <2>2, <2>3 DEF IInv, Placed, locks, Holds, OnShelf
<1> QED
  BY <1>7, <1>8, <1>11, <1>12, OthersKeep

\* A line worked off: q units less on the batch, and what is left covers what stays promised.
LEMMA DeductedKeeps ==
    ASSUME IInv, NEW t \in Requests, tx[t].todo # << >>, NEW q \in Int, NEW mine \in Holdings,
           Free(batchLock[LineBatch(t)], t),
           q <= ShelfOf(t)[LineBatch(t)],
           batchLock' = [batchLock EXCEPT ![LineBatch(t)] = t],
           UNCHANGED <<database, orderLock, job>>,
           tx' = [tx EXCEPT ![t] = [Deducted(t, LineBatch(t), q) EXCEPT !.mine = mine]],
           \A p \in Orders, c \in Batches : mine[p][c] <= tx[t].mine[p][c],
           \A p \in Orders, c \in Batches \ {LineBatch(t)} : mine[p][c] = tx[t].mine[p][c],
           Promised([p \in Orders |-> IF orderLock[p] = t THEN mine[p] ELSE held[p]], LineBatch(t))
             <= ShelfOf(t)[LineBatch(t)] - q,
           Kind(t) = "dispatch" => tx[t].pc = "line"
    PROVE  IInv'
<1> DEFINE b == LineBatch(t)
           left == ShelfOf(t)[b] - q
           shelf == [tx[t].shelf EXCEPT ![b] = left]
           written == [tx[t].written EXCEPT ![b] = Append(@, [quantity |-> -q, balance |-> left])]
           r == [tx[t] EXCEPT !.pc = "line", !.todo = Tail(tx[t].todo), !.seen = 0,
                              !.shelf = shelf, !.written = written]
<1>1. tx \in [Requests -> Transaction] /\ tx[t] \in Transaction
  BY DEF IInv, TypeOK
<1>2. b \in Batches /\ Tail(tx[t].todo) \in Seq(Lines)
  BY LineType DEF IInv
<1>3. left \in Nat
  <2>1. ShelfOf(t)[b] \in Nat
    BY <1>2, SeenTypes DEF IInv, Quantities
  <2> QED
    BY <2>1
<1>4. shelf \in Quantities
  BY <1>1, <1>2, <1>3, QuantityUpdate DEF Transaction
<1>5. written \in [Batches -> Seq(Movement)]
  <2>1. [quantity |-> -q, balance |-> left] \in Movement
    BY <1>3 DEF Movement
  <2>2. tx[t].written \in [Batches -> Seq(Movement)]
    BY <1>1 DEF Transaction
  <2>3. Append(tx[t].written[b], [quantity |-> -q, balance |-> left]) \in Seq(Movement)
    BY <1>2, <2>1, <2>2
  <2> QED
    BY <1>2, <2>2, <2>3
<1>6. Deducted(t, b, q) = r
  BY <1>1 DEF Deducted, Transaction
<1> HIDE DEF shelf, written
<1>7. r \in Transaction
  BY <1>1, <1>2, <1>4, <1>5 DEF Transaction
<1>8. [r EXCEPT !.mine = mine] \in Transaction
  BY <1>7 DEF Transaction
<1>9. /\ tx'[t] = [r EXCEPT !.mine = mine]
      /\ \A u \in Requests \ {t} : tx'[u] = tx[u]
  BY <1>1, <1>6
<1>10. tx' \in [Requests -> Transaction]
  BY <1>1, <1>6, <1>8
<1>11. TypeOK'
  BY <1>2, <1>10 DEF IInv, TypeOK, database
<1>12. Frame(t)
  BY <1>2, <1>9, RequestsAssumption DEF IInv, TypeOK, Frame, Free
<1>13. /\ tx'[t].pc = "line" /\ tx'[t].shelf = shelf /\ tx'[t].ready = tx[t].ready
       /\ tx'[t].todo = Tail(tx[t].todo) /\ tx'[t].mine = mine
  BY <1>1, <1>9 DEF Transaction
<1>14. HoldsOf(t)' = [p \in Orders |-> IF orderLock[p] = t THEN mine[p] ELSE held[p]]
  BY <1>13 DEF HoldsOf, database
<1>15. HoldsOf(t)' \in Holdings /\ HoldsOf(t) \in Holdings
  BY <1>14, SeenTypes DEF IInv, TypeOK, Holdings
<1>16. \A c \in Batches : Promised(HoldsOf(t)', c) <= Promised(HoldsOf(t), c)
  <2> TAKE c \in Batches
  <2>1. \A p \in Orders : HoldsOf(t)'[p][c] <= HoldsOf(t)[p][c]
    <3> TAKE p \in Orders
    <3>1. held[p][c] \in Nat
      BY DEF IInv, TypeOK, Holdings, Quantities
    <3> QED
      BY <1>14, <3>1 DEF HoldsOf
  <2> QED
    BY <1>15, <2>1, PromisedMono
<1>17. Covered(t)'
  <2> SUFFICES ASSUME NEW c \in Batches, batchLock'[c] = t
               PROVE  Promised(HoldsOf(t)', c) <= shelf[c]
    BY <1>13 DEF Covered
  <2>1. CASE c = b
    BY <1>1, <1>2, <1>14, <2>1 DEF shelf, Transaction, Quantities
  <2>2. CASE c # b
    <3>1. batchLock[c] = t /\ shelf[c] = tx[t].shelf[c] /\ tx[t].shelf[c] \in Nat
      BY <1>1, <1>2, <2>2 DEF IInv, TypeOK, shelf, Transaction, Quantities
    <3>2. Promised(HoldsOf(t), c) <= tx[t].shelf[c]
      BY <3>1 DEF IInv, Covered
    <3>3. Promised(HoldsOf(t), c) \in Nat /\ Promised(HoldsOf(t)', c) \in Nat
      BY <1>15, PromisedFinite
    <3> QED
      BY <1>16, <3>1, <3>2, <3>3
  <2> QED
    BY <2>1, <2>2
<1>18. OnlyLetGo(t)'
  <2> SUFFICES ASSUME NEW p \in Orders, NEW c \in Batches, orderLock'[p] = t, batchLock'[c] # t
               PROVE  mine[p][c] <= held[p][c]
    BY <1>13 DEF OnlyLetGo, database
  <2>1. c # b /\ batchLock[c] # t /\ orderLock[p] = t
    BY <1>2 DEF IInv, TypeOK
  <2> QED
    BY <2>1 DEF IInv, OnlyLetGo
<1>19. Placed(t)'
  <2>1. Kind(t)' = Kind(t)
    BY DEF Kind
  <2>2. \A o \in tx[t].ready : orderLock'[o] = t
    BY DEF IInv, Placed
  <2>3. Kind(t) = "dispatch" =>
          \A i \in 1..Len(Tail(tx[t].todo)) :
            Tail(tx[t].todo)[i][1] \in Orders /\ orderLock'[Tail(tx[t].todo)[i][1]] = t
    <3> SUFFICES ASSUME Kind(t) = "dispatch", NEW i \in 1..Len(Tail(tx[t].todo))
                 PROVE  Tail(tx[t].todo)[i][1] \in Orders /\ orderLock'[Tail(tx[t].todo)[i][1]] = t
      OBVIOUS
    <3>1. Tail(tx[t].todo)[i] = tx[t].todo[i + 1] /\ i + 1 \in 1..Len(tx[t].todo)
      BY LineType DEF IInv
    <3> QED
      BY <3>1 DEF IInv, Placed
  <2> QED
    BY <1>13, <2>1, <2>2, <2>3 DEF IInv, Placed
<1> QED
  BY <1>11, <1>12, <1>17, <1>18, <1>19, OthersKeep
\* Taking or putting back units of no order: the holds stay, and what is left still covers them.
LEMMA ShelfKeeps ==
    ASSUME IInv, NEW t \in Requests, TakeFreeStock(t) \/ RestockStock(t)
    PROVE  IInv'
<1> DEFINE b == LineBatch(t)
           q == job[t].want[b]
<1>1. CASE Fail(t)
  BY <1>1, FailKeeps
<1>2. CASE ~Fail(t)
  <2>1. /\ Free(batchLock[b], t) /\ batchLock' = [batchLock EXCEPT ![b] = t]
        /\ tx' = [tx EXCEPT ![t] = Deducted(t, b, q)]
        /\ UNCHANGED <<database, orderLock, job>>
    BY <1>2 DEF TakeFreeStock, RestockStock
  <2>2. tx[t] \in Transaction /\ job[t] \in JobType
    BY JobsAssumption DEF IInv, TypeOK
  <2>3. tx[t].todo # << >>
    BY DEF IInv, Placed, TakeFreeStock, RestockStock, AtLine
  <2>4. b \in Batches
    BY <2>3, LineType DEF IInv
  <2>5. q \in Int
    BY <2>2, <2>4 DEF JobType
  <2>6. ShelfOf(t)[b] \in Nat /\ Promised(HoldsOf(t), b) \in Nat
    BY <2>4, SeenTypes, PromisedFinite DEF IInv, Quantities
  <2>7. Promised(HoldsOf(t), b) <= ShelfOf(t)[b] - q
    <3>1. CASE RestockStock(t)
      <4>1. Promised(HoldsOf(t), b) <= ShelfOf(t)[b] /\ q < 0
        BY <2>4, <3>1, SeenCovered DEF RestockStock
      <4> QED
        BY <2>5, <2>6, <4>1
    <3>2. CASE TakeFreeStock(t)
      <4>1. ShelfOf(t)[b] - tx[t].seen >= q /\ tx[t].pc = "write"
        BY <1>2, <3>2 DEF TakeFreeStock, FreeStockCovers
      <4>2. Promised(HoldsOf(t), b) <= tx[t].seen /\ tx[t].seen \in Nat
        BY <2>2, <4>1 DEF IInv, Placed, Transaction
      <4> QED
        BY <2>5, <2>6, <4>1, <4>2
    <3> QED
      BY <3>1, <3>2
  <2>8. q <= ShelfOf(t)[b]
    BY <2>5, <2>6, <2>7
  <2>9. tx[t].mine \in Holdings
    BY <2>2 DEF Transaction
  <2>10. \A p \in Orders, c \in Batches : tx[t].mine[p][c] <= tx[t].mine[p][c]
    BY <2>9 DEF Holdings, Quantities
  <2>11. Deducted(t, b, q) = [Deducted(t, b, q) EXCEPT !.mine = tx[t].mine]
    BY <2>2 DEF Deducted, Transaction
  <2>12. tx' = [tx EXCEPT ![t] = [Deducted(t, b, q) EXCEPT !.mine = tx[t].mine]]
    BY <2>1, <2>11
  <2>13. Kind(t) # "dispatch"
    BY DEF IInv, Placed, TakeFreeStock, RestockStock, AtLine, OnShelf
  <2>14. Promised([p \in Orders |-> IF orderLock[p] = t THEN tx[t].mine[p] ELSE held[p]], b) <= ShelfOf(t)[b] - q
    BY <2>7 DEF HoldsOf
  <2> HIDE DEF q
  <2> QED
    BY <2>1, <2>3, <2>5, <2>8, <2>9, <2>10, <2>12, <2>13, <2>14, DeductedKeeps
<1> QED
  BY <1>1, <1>2

\* Dispatch takes off the batch what its order held there, and the hold goes with it.
LEMMA DeductHeldKeeps ==
    ASSUME IInv, NEW t \in Requests, DeductHeldStock(t)
    PROVE  IInv'
<1> DEFINE o == Line(t)[1]
           b == LineBatch(t)
           q == tx[t].mine[o][b]
           mine == [tx[t].mine EXCEPT ![o] = [tx[t].mine[o] EXCEPT ![b] = 0]]
           left == [p \in Orders |-> IF orderLock[p] = t THEN mine[p] ELSE held[p]]
<1>1. CASE Fail(t)
  BY <1>1, FailKeeps
<1>2. CASE ~Fail(t)
  <2>1. /\ AtLine(t, {"dispatch"}) /\ Free(batchLock[b], t)
        /\ ShelfOf(t)[b] >= q
        /\ batchLock' = [batchLock EXCEPT ![b] = t]
        /\ UNCHANGED <<database, orderLock, job>>
    BY <1>2 DEF DeductHeldStock
  <2>2. tx[t] \in Transaction
    BY DEF IInv, TypeOK
  <2>3. tx[t].todo # << >> /\ tx[t].pc = "line" /\ Kind(t) = "dispatch"
    BY <2>1 DEF AtLine
  <2>4. b \in Batches /\ Line(t) = tx[t].todo[1] /\ 1 \in 1..Len(tx[t].todo)
    BY <2>3, LineType DEF IInv
  <2>5. o \in Orders /\ orderLock[o] = t
    BY <2>3, <2>4 DEF IInv, Placed
  <2>6. tx[t].mine \in Holdings /\ tx[t].mine[o] \in Quantities /\ q \in Nat
    BY <2>2, <2>4, <2>5 DEF Transaction, Holdings, Quantities
  <2>7. mine \in Holdings
    <3>1. [tx[t].mine[o] EXCEPT ![b] = 0] \in Quantities
      BY <2>4, <2>6, QuantityUpdate
    <3> QED
      BY <2>5, <2>6, <3>1 DEF Holdings
  <2>8. tx' = [tx EXCEPT ![t] = [Deducted(t, b, q) EXCEPT !.mine = mine]]
    <3>1. Deducted(t, b, q).mine = tx[t].mine
      BY <2>2 DEF Deducted, Transaction
    <3>2. [Deducted(t, b, q) EXCEPT !.mine[o][b] = 0] = [Deducted(t, b, q) EXCEPT !.mine = mine]
      BY <3>1
    <3> QED
      BY <1>2, <3>2 DEF DeductHeldStock
  <2>9. mine[o][b] = 0 /\ \A p \in Orders, c \in Batches : <<p, c>> # <<o, b>> => mine[p][c] = tx[t].mine[p][c]
    BY <2>4, <2>5, <2>6 DEF Holdings, Quantities
  <2>10. \A p \in Orders, c \in Batches : mine[p][c] <= tx[t].mine[p][c]
    BY <2>6, <2>9 DEF Holdings, Quantities
  <2> HIDE DEF mine
  <2>11. left \in Holdings /\ HoldsOf(t) \in Holdings
    BY <2>7, SeenTypes DEF IInv, TypeOK, Holdings
  <2>12. left[o][b] = 0 /\ HoldsOf(t)[o][b] = q /\ \A p \in Orders \ {o} : left[p][b] = HoldsOf(t)[p][b]
    BY <2>4, <2>5, <2>9 DEF HoldsOf
  <2>13. Promised(HoldsOf(t), b) = Promised(left, b) + (HoldsOf(t)[o][b] - left[o][b])
    <3>1. left[o][b] <= HoldsOf(t)[o][b]
      BY <2>6, <2>12
    <3> HIDE DEF left, q
    <3> QED
      BY <2>4, <2>5, <2>11, <2>12, <3>1, PromisedChange
  <2>14. Promised(left, b) <= ShelfOf(t)[b] - q
    <3>1. /\ Promised(left, b) \in Nat /\ Promised(HoldsOf(t), b) \in Nat
          /\ Promised(HoldsOf(t), b) <= ShelfOf(t)[b] /\ ShelfOf(t)[b] \in Nat
      BY <2>4, <2>11, SeenTypes, SeenCovered, PromisedFinite DEF IInv, Quantities
    <3> HIDE DEF left, q
    <3> QED
      BY <2>6, <2>12, <2>13, <3>1
  <2>15. \A p \in Orders, c \in Batches \ {b} : mine[p][c] = tx[t].mine[p][c]
    BY <2>9
  <2>16. Promised([p \in Orders |-> IF orderLock[p] = t THEN mine[p] ELSE held[p]], b) <= ShelfOf(t)[b] - q
    BY <2>14
  <2>17. q \in Int /\ q <= ShelfOf(t)[b]
    <3>1. ShelfOf(t)[b] \in Nat
      BY <2>4, SeenTypes DEF IInv, Quantities
    <3> QED
      BY <2>1, <2>6, <3>1
  <2> HIDE DEF q, left, o
  <2> QED
    BY <2>1, <2>3, <2>7, <2>8, <2>10, <2>15, <2>16, <2>17, DeductedKeeps
<1> QED
  BY <1>1, <1>2
LEMMA LoseConnectionKeeps ==
    ASSUME IInv, NEW t \in Requests, LoseConnection(t) \/ BreakDeadlock(t)
    PROVE  IInv'
<1> DEFINE pc == IF tx[t].attempts < MaxAttempts THEN "begin" ELSE "failed"
<1>1. CASE Fail(t)
  BY <1>1, FailKeeps
<1>2. CASE Rollback(t, pc)
  <2>1. pc \in {"begin", "failed"} /\ (pc = "begin" => tx[t].attempts < MaxAttempts)
    OBVIOUS
  <2> HIDE DEF pc
  <2> QED
    BY <1>2, <2>1, RollbackKeeps
<1> QED
  BY <1>1, <1>2 DEF LoseConnection, BreakDeadlock

\* COMMIT: the batches it had locked cover what stays promised, on the others promises only became fewer.
LEMMA CommitKeeps ==
    ASSUME IInv, NEW t \in Requests, Commit(t)
    PROVE  IInv'
<1>1. /\ onHand' = ShelfOf(t) /\ held' = HoldsOf(t) /\ job' = job
      /\ status' = [o \in Orders |-> IF o \in tx[t].ready THEN StatusAfter(Kind(t)) ELSE status[o]]
      /\ items' = [o \in Orders |-> IF o \in tx[t].ready /\ Holds(Kind(t)) THEN job[t].want ELSE items[o]]
      /\ ledger' = [b \in Batches |-> ledger[b] \o tx[t].written[b]]
      /\ tx' = [tx EXCEPT ![t] = Blank("done", tx[t].attempts)]
      /\ batchLock' = [b \in Batches |-> IF batchLock[b] = t THEN NoRequest ELSE batchLock[b]]
      /\ orderLock' = [o \in Orders |-> IF orderLock[o] = t THEN NoRequest ELSE orderLock[o]]
  BY DEF Commit, Unlock
<1>2. tx \in [Requests -> Transaction] /\ tx[t] \in Transaction
  BY DEF IInv, TypeOK
<1>3. Blank("done", tx[t].attempts) \in Transaction
  <2>1. tx[t].attempts \in 0..MaxAttempts
    BY <1>2 DEF Transaction
  <2> QED
    BY <2>1, BlankType
<1>4. tx' \in [Requests -> Transaction] /\ tx'[t] = Blank("done", tx[t].attempts)
      /\ \A u \in Requests \ {t} : tx'[u] = tx[u]
  BY <1>1, <1>2, <1>3
<1>5. NoRequest \notin Requests
  BY RequestsAssumption
<1>6. job[t] \in Jobs /\ job[t] \in JobType
  BY JobsAssumption DEF IInv, TypeOK
<1>7. TypeOK'
  <2>1. onHand' \in Quantities /\ held' \in Holdings
    BY <1>1, SeenTypes DEF IInv
  <2>2. status' \in [Orders -> OrderStatus]
    <3>1. tx[t].ready # {} => StatusAfter(Kind(t)) \in OrderStatus
      <4>1. tx[t].ready # {} => ~OnShelf(Kind(t))
        BY DEF IInv, Placed
      <4>2. Kind(t) \in Kinds
        BY <1>6 DEF Kind, JobType
      <4> QED
        BY <4>1, <4>2 DEF OnShelf, Kinds, StatusAfter, OrderStatus
    <3>2. status \in [Orders -> OrderStatus]
      BY DEF IInv, TypeOK
    <3> QED
      BY <1>1, <3>1, <3>2
  <2>3. items' \in Holdings
    <3>1. Holds(Kind(t)) => job[t].want \in Quantities
      BY <1>6, JobsAssumption DEF Holds, Kind
    <3> QED
      BY <1>1, <3>1 DEF IInv, TypeOK, Holdings
  <2>4. ledger' \in [Batches -> Seq(Movement)]
    <3>1. \A b \in Batches : ledger[b] \in Seq(Movement) /\ tx[t].written[b] \in Seq(Movement)
      BY <1>2 DEF IInv, TypeOK, Transaction
    <3> QED
      BY <1>1, <3>1
  <2>5. /\ batchLock' \in [Batches -> Requests \cup {NoRequest}]
        /\ orderLock' \in [Orders -> Requests \cup {NoRequest}]
    BY <1>1 DEF IInv, TypeOK
  <2> QED
    BY <1>1, <1>4, <2>1, <2>2, <2>3, <2>4, <2>5 DEF IInv, TypeOK
<1>8. HeldWithinOnHand'
  BY <1>1, SeenCovered DEF HeldWithinOnHand
<1>9. Placed(t)' /\ Covered(t)' /\ OnlyLetGo(t)'
  <2>1. (\A b \in Batches : batchLock'[b] # t) /\ (\A o \in Orders : orderLock'[o] # t)
    BY <1>1, <1>5
  <2> QED
    BY <1>4, <2>1 DEF Placed, Covered, OnlyLetGo, Blank
<1>10. ASSUME NEW u \in Requests \ {t}
       PROVE  Placed(u)' /\ Covered(u)' /\ OnlyLetGo(u)'
  <2>1. /\ tx'[u] = tx[u] /\ Kind(u)' = Kind(u) /\ LineBatch(u)' = LineBatch(u)
        /\ \A b \in Batches : batchLock'[b] = u <=> batchLock[b] = u
        /\ \A o \in Orders : orderLock'[o] = u <=> orderLock[o] = u
    BY <1>1, <1>4, <1>5 DEF Kind, LineBatch, Line
  <2>2. tx[u] \in Transaction
    BY <1>2
  <2>3. HoldsOf(u) \in Holdings /\ HoldsOf(u)' \in Holdings
    <3>1. HoldsOf(u)' = [o \in Orders |-> IF orderLock[o] = u THEN tx[u].mine[o] ELSE HoldsOf(t)[o]]
      BY <1>1, <2>1 DEF HoldsOf
    <3> QED
      BY <2>2, <3>1, SeenTypes DEF IInv, Holdings, Transaction
  <2>4. \A b \in Batches : batchLock[b] # t => Promised(HoldsOf(u)', b) <= Promised(HoldsOf(u), b)
    <3> TAKE b \in Batches
    <3> HAVE batchLock[b] # t
    <3>1. \A o \in Orders : HoldsOf(u)'[o][b] <= HoldsOf(u)[o][b]
      <4> TAKE o \in Orders
      <4>1. CASE orderLock[o] = u
        <5>1. HoldsOf(u)'[o] = HoldsOf(u)[o] /\ HoldsOf(u)[o][b] \in Nat
          BY <2>1, <2>3, <4>1 DEF HoldsOf, Holdings, Quantities
        <5> QED
          BY <5>1
      <4>2. CASE orderLock[o] # u
        <5>1. HoldsOf(u)'[o] = HoldsOf(t)[o] /\ HoldsOf(u)[o] = held[o]
          BY <1>1, <2>1, <4>2 DEF HoldsOf
        <5>2. HoldsOf(t)[o][b] <= held[o][b]
          <6>1. held[o][b] \in Nat
            BY DEF IInv, TypeOK, Holdings, Quantities
          <6> QED
            BY <6>1 DEF IInv, OnlyLetGo, HoldsOf
        <5> QED
          BY <5>1, <5>2
      <4> QED
        BY <4>1, <4>2
    <3> QED
      BY <2>3, <3>1, PromisedMono
  <2>5. Covered(u)'
    <3> SUFFICES ASSUME NEW b \in Batches, batchLock'[b] = u
                 PROVE  Promised(HoldsOf(u)', b) <= tx[u].shelf[b]
      BY <2>1 DEF Covered
    <3>1. batchLock[b] = u
      BY <2>1
    <3>2. Promised(HoldsOf(u), b) <= tx[u].shelf[b]
      BY <3>1 DEF IInv, Covered
    <3>3. Promised(HoldsOf(u)', b) <= Promised(HoldsOf(u), b)
      BY <2>4, <3>1
    <3>4. Promised(HoldsOf(u)', b) \in Nat /\ Promised(HoldsOf(u), b) \in Nat /\ tx[u].shelf[b] \in Nat
      BY <2>2, <2>3, PromisedFinite DEF Transaction, Quantities
    <3> QED
      BY <3>2, <3>3, <3>4
  <2>6. OnlyLetGo(u)'
    <3>1. \A o \in Orders : orderLock[o] = u => held'[o] = held[o]
      BY <1>1 DEF HoldsOf
    <3> QED
      BY <2>1, <3>1 DEF IInv, OnlyLetGo
  <2>7. Placed(u)'
    <3>1. tx[u].pc \in {"hold", "take", "write"} =>
            tx[u].todo # << >> /\ LineBatch(u) \in Batches /\ batchLock'[LineBatch(u)] = u /\ job'[u].want[LineBatch(u)] > 0
      BY <1>1, <2>1, LineType DEF IInv, Placed
    <3>2. tx[u].pc = "write" => Promised(HoldsOf(u)', LineBatch(u)) <= tx[u].seen
      <4> HAVE tx[u].pc = "write"
      <4>1. /\ LineBatch(u) \in Batches /\ batchLock[LineBatch(u)] = u
            /\ Promised(HoldsOf(u), LineBatch(u)) <= tx[u].seen
        BY <2>1, <3>1 DEF IInv, Placed
      <4>2. Promised(HoldsOf(u)', LineBatch(u)) <= Promised(HoldsOf(u), LineBatch(u))
        BY <2>4, <4>1
      <4>3. /\ Promised(HoldsOf(u)', LineBatch(u)) \in Nat /\ Promised(HoldsOf(u), LineBatch(u)) \in Nat
            /\ tx[u].seen \in Nat
        BY <2>2, <2>3, <4>1, PromisedFinite DEF Transaction
      <4> QED
        BY <4>1, <4>2, <4>3
    <3>3. \A o \in tx[u].ready : orderLock'[o] = u
      BY <2>1, <2>2 DEF IInv, Placed, Transaction
    <3>4. tx[u].pc = "line" /\ Kind(u) = "dispatch" =>
            \A i \in 1..Len(tx[u].todo) : tx[u].todo[i][1] \in Orders /\ orderLock'[tx[u].todo[i][1]] = u
      BY <2>1 DEF IInv, Placed
    <3> HIDE DEF HoldsOf
    <3> QED
      BY <2>1, <3>1, <3>2, <3>3, <3>4 DEF IInv, Placed
  <2> QED
    BY <2>5, <2>6, <2>7
<1> QED
  BY <1>7, <1>8, <1>9, <1>10 DEF IInv
-----------------------------------------------------------------------------
(* The theorems *)

LEMMA InitIInv == Init => IInv
<1> SUFFICES ASSUME Init PROVE IInv
  OBVIOUS
<1>1. PICK s \in Openings : held = s.held /\ status = s.status /\ items = s.held
  BY DEF Init
<1>2. s.held \in Holdings /\ s.status \in [Orders -> OrderStatus] /\ \A b \in Batches : Promised(s.held, b) <= InitialStock[b]
  BY OpeningsAssumption DEF Opening
<1>3. \A t \in Requests : tx[t] = Blank("begin", 0)
  BY DEF Init
<1>4. 0 \in 0..MaxAttempts /\ 0 < MaxAttempts
  BY MaxAttemptsAssumption
<1>5. TypeOK
  <2>1. ledger \in [Batches -> Seq(Movement)]
    <3>1. \A b \in Batches : [quantity |-> InitialStock[b], balance |-> InitialStock[b]] \in Movement
      BY InitialStockAssumption DEF Movement, Quantities
    <3> QED
      BY <3>1 DEF Init
  <2>2. tx \in [Requests -> Transaction]
    BY <1>4, BlankType DEF Init
  <2> QED
    BY <1>1, <1>2, <2>1, <2>2, InitialStockAssumption DEF Init, TypeOK
<1>6. HeldWithinOnHand
  BY <1>1, <1>2 DEF Init, HeldWithinOnHand
<1>7. (\A b \in Batches : batchLock[b] = NoRequest) /\ (\A o \in Orders : orderLock[o] = NoRequest)
  BY DEF Init
<1>8. ASSUME NEW t \in Requests
      PROVE  Placed(t) /\ Covered(t) /\ OnlyLetGo(t)
  BY <1>3, <1>4, <1>7, RequestsAssumption DEF Placed, Covered, OnlyLetGo, Blank
<1> QED
  BY <1>5, <1>6, <1>8 DEF IInv

LEMMA NextIInv == IInv /\ [Next]_vars => IInv'
<1> SUFFICES ASSUME IInv, [Next]_vars PROVE IInv'
  OBVIOUS
<1>1. CASE UNCHANGED vars
  <2>1. TypeOK' /\ HeldWithinOnHand'
    BY <1>1 DEF IInv, vars, database, locks, TypeOK, HeldWithinOnHand
  <2>2. ASSUME NEW t \in Requests
        PROVE  Placed(t)' /\ Covered(t)' /\ OnlyLetGo(t)'
    <3>1. HoldsOf(t)' = HoldsOf(t) /\ LineBatch(t)' = LineBatch(t) /\ Kind(t)' = Kind(t)
      BY <1>1 DEF vars, database, locks, HoldsOf, LineBatch, Line, Kind
    <3>2. Placed(t)'
      BY <1>1, <3>1 DEF IInv, vars, database, locks, Placed
    <3> QED
      BY <1>1, <3>1, <3>2 DEF IInv, vars, database, locks, Covered, OnlyLetGo
  <2> QED
    BY <2>1, <2>2 DEF IInv
<1>2. ASSUME NEW t \in Requests, Statement(t)
      PROVE  IInv'
  <2>1. CASE Begin(t)
    BY <2>1, BeginKeeps
  <2>2. ASSUME NEW o \in Orders, PlaceOrder(t, o) \/ EditOrder(t, o)
        PROVE  IInv'
    BY <2>2, PlaceKeeps
  <2>3. ASSUME NEW o \in Orders, ConfirmOrder(t, o) \/ CancelOrder(t, o)
        PROVE  IInv'
    BY <2>3, ConfirmKeeps
  <2>4. ASSUME NEW o \in Orders, LockParcel(t, o)
        PROVE  IInv'
    BY <2>4, LockParcelKeeps
  <2>5. CASE LockBatch(t)
    BY <2>5, LockBatchKeeps
  <2>6. CASE HoldStock(t)
    BY <2>6, HoldStockKeeps
  <2>7. CASE StartTake(t)
    BY <2>7, StartTakeKeeps
  <2>8. CASE TakeFreeStock(t) \/ RestockStock(t)
    BY <2>8, ShelfKeeps
  <2>9. CASE DeductHeldStock(t)
    BY <2>9, DeductHeldKeeps
  <2>10. CASE Commit(t)
    BY <2>10, CommitKeeps
  <2> QED
    BY <1>2, <2>1, <2>2, <2>3, <2>4, <2>5, <2>6, <2>7, <2>8, <2>9, <2>10 DEF Statement
<1>3. ASSUME NEW t \in Requests, LoseConnection(t) \/ BreakDeadlock(t)
      PROVE  IInv'
  BY <1>3, LoseConnectionKeeps
<1>4. CASE AllAnswered
  BY <1>1, <1>4 DEF AllAnswered
<1> QED
  BY <1>1, <1>2, <1>3, <1>4 DEF Next

THEOREM Invariance == Spec => []IInv
BY InitIInv, NextIInv, PTL DEF Spec

\* Every quantity, hold, balance and lock keeps its type whatever the requests do; above all no
\* batch's quantity and no movement's balance ever falls below zero (stock-movement.js).
THEOREM TypeCorrect == Spec => []TypeOK
<1>1. IInv => TypeOK
  BY DEF IInv
<1> QED
  BY <1>1, Invariance, PTL

\* In every committed state the units promised to all orders are on hand, for any number of requests,
\* orders and batches and every interleaving of their statements (holdStock, deductFreeStock).
THEOREM NeverPromisedTwice == Spec => []HeldWithinOnHand
<1>1. IInv => HeldWithinOnHand
  BY DEF IInv
<1> QED
  BY <1>1, Invariance, PTL

\* A dispatch always finds on the batch what its order held there (deductHeldStock, dispatchOrder).
THEOREM DispatchFindsItsUnits == Spec => []DispatchNeverShort
<1>1. IInv => DispatchNeverShort
  <2> SUFFICES ASSUME IInv, NEW t \in Requests, AtLine(t, {"dispatch"})
               PROVE  ShelfOf(t)[LineBatch(t)] >= tx[t].mine[Line(t)[1]][LineBatch(t)]
    BY DEF DispatchNeverShort
  <2> DEFINE o == Line(t)[1]
             b == LineBatch(t)
  <2>1. tx[t].todo # << >> /\ tx[t].pc = "line" /\ Kind(t) = "dispatch"
    BY DEF AtLine
  <2>2. b \in Batches /\ Line(t) = tx[t].todo[1] /\ 1 \in 1..Len(tx[t].todo)
    BY <2>1, LineType DEF IInv
  <2>3. o \in Orders /\ orderLock[o] = t
    BY <2>1, <2>2 DEF IInv, Placed
  <2>4. HoldsOf(t) \in Holdings /\ ShelfOf(t) \in Quantities
    BY SeenTypes DEF IInv
  <2>5. HoldsOf(t)[o][b] = tx[t].mine[o][b]
    BY <2>3 DEF HoldsOf
  <2>6. HoldsOf(t)[o][b] \in Nat /\ Promised(HoldsOf(t), b) \in Nat /\ ShelfOf(t)[b] \in Nat
    BY <2>2, <2>3, <2>4, PromisedFinite DEF Holdings, Quantities
  <2>7. HoldsOf(t)[o][b] <= Promised(HoldsOf(t), b)
    BY <2>2, <2>3, <2>4, PromisedCovers
  <2>8. Promised(HoldsOf(t), b) <= ShelfOf(t)[b]
    BY <2>2, SeenCovered
  <2> HIDE DEF o, b
  <2>9. ShelfOf(t)[b] >= tx[t].mine[o][b]
    BY <2>5, <2>6, <2>7, <2>8
  <2> QED
    BY <2>9 DEF o, b
<1> QED
  BY <1>1, Invariance, PTL

-----------------------------------------------------------------------------
(* What the stock transactions leave behind: the movement ledger, the      *)
(* holds of open orders, deadlock, and the abstract ledger.                *)

\* A transaction past its orders, at work on its lines.
Working(t) == tx[t].pc \in {"line", "hold", "take", "write"}

\* The lines it has still to work through.
Left(t) == ToSet(tx[t].todo)

\* The statuses a request's guarded UPDATE accepts.
From(kind) ==
    CASE kind = "place" -> {"Draft"}
      [] kind \in {"edit", "confirm"} -> {"Pending"}
      [] kind = "cancel" -> {"Pending", "Confirmed"}
      [] kind = "dispatch" -> {"Confirmed"}

\* Before its lines a transaction has no batch locked, and before it claims an order no order either.
Idle(t) ==
    /\ ~Working(t) => tx[t].todo = << >> /\ \A b \in Batches : batchLock[b] # t
    /\ tx[t].pc \in {"begin", "done", "failed"} \/ (tx[t].pc = "order" /\ Kind(t) # "dispatch") =>
        tx[t].ready = {} /\ \A o \in Orders : orderLock[o] # t
    /\ tx[t].pc = "order" => ~OnShelf(Kind(t))

\* The orders it may change stand where it found them; those it only locked keep what they hold.
Claimed(t) ==
    /\ \A o \in tx[t].ready : status[o] \in From(Kind(t))
    /\ \A o \in Orders : orderLock[o] = t /\ (o \notin tx[t].ready \/ tx[t].pc = "order") => tx[t].mine[o] = held[o]
    /\ Working(t) /\ ~OnShelf(Kind(t)) /\ Kind(t) # "dispatch" => \E o \in Orders : tx[t].ready = {o}

\* Its lines are about its own orders, or no order's, and none comes twice.
Lined(t) ==
    /\ \A i, j \in 1..Len(tx[t].todo) : tx[t].todo[i] = tx[t].todo[j] => i = j
    /\ tx[t].todo # << >> => Kind(t) \notin {"confirm", "cancel"}
    /\ \A l \in Left(t) : IF OnShelf(Kind(t)) THEN l[1] = NoOrder ELSE l[1] \in tx[t].ready

\* What an order it may change holds between two lines.
Due(t, o, b) ==
    CASE Holds(Kind(t)) -> IF <<o, b>> \in Left(t) THEN 0 ELSE job[t].want[b]
      [] Kind(t) = "confirm" -> held[o][b]
      [] Kind(t) = "cancel" -> 0
      [] Kind(t) = "dispatch" -> IF <<o, b>> \in Left(t) THEN held[o][b] ELSE 0

Promising(t) == Working(t) => \A o \in tx[t].ready, b \in Batches : tx[t].mine[o][b] = Due(t, o, b)

\* The promises a hand-over has taken off the shelf, and what any transaction has moved.
Spent(t) ==
    [o \in Orders |-> [b \in Batches |->
        IF o \in tx[t].ready /\ <<o, b>> \notin Left(t) THEN held[o][b] ELSE 0]]

Moved(t, b) ==
    IF OnShelf(Kind(t)) THEN (IF <<NoOrder, b>> \in Left(t) THEN 0 ELSE job[t].want[b])
    ELSE IF Kind(t) = "dispatch" THEN Promised(Spent(t), b) ELSE 0

\* A batch it has locked has lost what it moved, and it moved nothing of any other.
Shelved(t) ==
    Working(t) => \A b \in Batches :
        IF batchLock[b] = t THEN tx[t].shelf[b] = onHand[b] - Moved(t, b) ELSE Moved(t, b) = 0

\* The rows of w lead from one balance to another.
Continues(w, from, to) ==
    /\ \A i \in 1..Len(w) : w[i].balance = (IF i = 1 THEN from ELSE w[i - 1].balance) + w[i].quantity
    /\ to = IF w = << >> THEN from ELSE w[Len(w)].balance

\* The movements it inserted lead from the committed quantity to its own.
Recorded(t) ==
    \A b \in Batches :
        IF batchLock[b] = t THEN Continues(tx[t].written[b], onHand[b], tx[t].shelf[b])
        ELSE tx[t].written[b] = << >>

\* A handler that sorts works upwards: what it has locked lies below what it has still to lock.
InOrder(t) ==
    Sorted(Kind(t)) =>
        /\ \A i, j \in 1..Len(tx[t].todo) : i < j => tx[t].todo[i][2] < tx[t].todo[j][2]
        /\ \A b \in Batches, i \in 1..Len(tx[t].todo) : batchLock[b] = t =>
            b < tx[t].todo[i][2] \/ (i = 1 /\ tx[t].pc # "line" /\ b = tx[t].todo[1][2])

Knows(t) == Idle(t) /\ Claimed(t) /\ Lined(t) /\ Promising(t) /\ Shelved(t) /\ Recorded(t) /\ InOrder(t)

\* What the committed state adds up to.
History == (\A b \in Batches : ledger[b] # << >>) /\ LedgerAddsUp /\ OpenOrdersHoldTheirLines

HInv == IInv /\ History /\ \A t \in Requests : Knows(t)

-----------------------------------------------------------------------------
(* Sequences of lines and of movements *)

\* A sequence of lines names every line of its set once.
LEMMA SequencesOnce ==
    ASSUME NEW kind, NEW S \in SUBSET Lines, NEW s \in Sequences(kind, S)
    PROVE  /\ s \in Seq(Lines)
           /\ \A i, j \in 1..Len(s) : s[i] = s[j] => i = j
           /\ ToSet(s) = S
<1> DEFINE n == Cardinality(S)
<1>1. IsFiniteSet(S) /\ n \in Nat
  BY LinesFinite, FS_Subset, FS_CardinalityType
<1>2. s \in [1..n -> S] /\ \A i, j \in 1..n : i # j => s[i] # s[j]
  BY DEF Sequences, SetToSeqs
<1>3. s \in Injection(1..n, S)
  BY <1>2 DEF Injection, IsInjective
<1>4. IsFiniteSet(1..n) /\ Cardinality(1..n) = n
  BY <1>1, FS_Interval
<1>5. s \in Surjection(1..n, S)
  BY <1>1, <1>3, <1>4, FS_Injection
<1> HIDE DEF n
<1>6. s \in Seq(Lines) /\ Len(s) = n /\ DOMAIN s = 1..n
  BY <1>1, <1>2
<1>7. ToSet(s) = S
  BY <1>5, <1>6 DEF ToSet, Surjection
<1> QED
  BY <1>2, <1>6, <1>7

\* The lines of one order, or of none, that a sorting handler works through rise with their batches.
LEMMA SequencesRise ==
    ASSUME NEW kind, Sorted(kind), NEW S \in SUBSET Lines, NEW s \in Sequences(kind, S),
           NEW x, S \subseteq {x} \X Batches,
           NEW i \in 1..Len(s), NEW j \in 1..Len(s), i < j
    PROVE  s[i][2] < s[j][2]
<1>1. s \in Seq(Lines) /\ ToSet(s) = S /\ s[i] # s[j]
  BY SequencesOnce
<1>2. DOMAIN s = 1..Len(s)
  BY <1>1
<1>3. s[i] \in {x} \X Batches /\ s[j] \in {x} \X Batches
  BY <1>1, <1>2 DEF ToSet
<1>4. s[i][1] = s[j][1] => s[i][2] <= s[j][2]
  BY <1>2 DEF Sequences
<1>5. PICK b \in Batches, c \in Batches : s[i] = <<x, b>> /\ s[j] = <<x, c>>
  BY <1>3
<1>6. b \in Nat /\ c \in Nat /\ b # c
  BY <1>1, <1>5, BatchesAssumption
<1> QED
  BY <1>4, <1>5, <1>6

\* The lines after the head are the lines but the head, in the order they were.
LEMMA TailLines ==
    ASSUME NEW s \in Seq(Lines), s # << >>,
           \A i, j \in 1..Len(s) : s[i] = s[j] => i = j
    PROVE  /\ ToSet(Tail(s)) = ToSet(s) \ {Head(s)}
           /\ Head(s) = s[1] /\ Head(s) \in ToSet(s) /\ 1 \in 1..Len(s)
           /\ \A i \in 1..Len(Tail(s)) : i + 1 \in 1..Len(s) /\ Tail(s)[i] = s[i + 1]
           /\ \A i, j \in 1..Len(Tail(s)) : Tail(s)[i] = Tail(s)[j] => i = j
<1>1. /\ Len(s) \in Nat /\ Len(s) > 0 /\ Head(s) = s[1]
      /\ Len(Tail(s)) = Len(s) - 1 /\ Tail(s) \in Seq(Lines)
      /\ \A i \in 1..Len(Tail(s)) : Tail(s)[i] = s[i + 1]
  OBVIOUS
<1>2. DOMAIN s = 1..Len(s) /\ DOMAIN Tail(s) = 1..Len(Tail(s))
  BY <1>1
<1>3. \A i \in 1..Len(Tail(s)) : i + 1 \in 1..Len(s) /\ Tail(s)[i] = s[i + 1]
  BY <1>1
<1>4. \A l \in ToSet(Tail(s)) : l \in ToSet(s) \ {Head(s)}
  <2> TAKE l \in ToSet(Tail(s))
  <2>1. PICK i \in 1..Len(Tail(s)) : l = Tail(s)[i]
    BY <1>2 DEF ToSet
  <2>2. l = s[i + 1] /\ i + 1 \in 1..Len(s) /\ i + 1 # 1 /\ 1 \in 1..Len(s)
    BY <1>1, <1>3, <2>1
  <2> QED
    BY <1>1, <1>2, <2>2 DEF ToSet
<1>5. \A l \in ToSet(s) \ {Head(s)} : l \in ToSet(Tail(s))
  <2> TAKE l \in ToSet(s) \ {Head(s)}
  <2>1. PICK i \in 1..Len(s) : l = s[i]
    BY <1>2 DEF ToSet
  <2>2. i - 1 \in 1..Len(Tail(s)) /\ (i - 1) + 1 = i
    BY <1>1, <2>1
  <2>3. Tail(s)[i - 1] = l
    BY <1>3, <2>1, <2>2
  <2> QED
    BY <1>2, <2>2, <2>3 DEF ToSet
<1>6. \A i, j \in 1..Len(Tail(s)) : Tail(s)[i] = Tail(s)[j] => i = j
  <2> TAKE i, j \in 1..Len(Tail(s))
  <2> HAVE Tail(s)[i] = Tail(s)[j]
  <2>1. i + 1 = j + 1
    BY <1>3
  <2> QED
    BY <2>1
<1>7. Head(s) \in ToSet(s) /\ 1 \in 1..Len(s)
  BY <1>1, <1>2 DEF ToSet
<1> QED
  BY <1>1, <1>3, <1>4, <1>5, <1>6, <1>7

\* A list that names no line is empty.
LEMMA NoLines ==
    ASSUME NEW s \in Seq(Lines), ToSet(s) = {}
    PROVE  s = << >>
<1>1. Len(s) \in Nat /\ DOMAIN s = 1..Len(s)
  OBVIOUS
<1>2. CASE Len(s) > 0
  <2>1. s[1] \in ToSet(s)
    BY <1>1, <1>2 DEF ToSet
  <2> QED
    BY <2>1
<1>3. CASE Len(s) = 0
  BY <1>3
<1> QED
  BY <1>1, <1>2, <1>3

\* A movement whose balance follows the last one goes on with the rows.
LEMMA ContinuesAppend ==
    ASSUME NEW w \in Seq(Movement), NEW from \in Nat, NEW n \in Nat, NEW q \in Int, n - q \in Nat,
           Continues(w, from, n)
    PROVE  Continues(Append(w, [quantity |-> -q, balance |-> n - q]), from, n - q)
<1> DEFINE m == [quantity |-> -q, balance |-> n - q]
           v == Append(w, m)
<1>1. m \in Movement /\ m.quantity = -q /\ m.balance = n - q
  BY DEF Movement
<1> HIDE DEF m
<1>2. /\ Len(w) \in Nat /\ Len(v) = Len(w) + 1 /\ v \in Seq(Movement)
      /\ v[Len(w) + 1] = m /\ \A i \in 1..Len(w) : v[i] = w[i]
  BY <1>1
<1> HIDE DEF v
<1>3. ASSUME NEW i \in 1..Len(v)
      PROVE  v[i].balance = (IF i = 1 THEN from ELSE v[i - 1].balance) + v[i].quantity
  <2>1. CASE i <= Len(w)
    <3>1. i \in 1..Len(w) /\ (i # 1 => i - 1 \in 1..Len(w))
      BY <1>2, <2>1
    <3>2. w[i].balance = (IF i = 1 THEN from ELSE w[i - 1].balance) + w[i].quantity
      BY <3>1 DEF Continues
    <3>3. v[i] = w[i] /\ (i # 1 => v[i - 1] = w[i - 1])
      BY <1>2, <3>1
    <3> QED
      BY <3>2, <3>3
  <2>2. CASE i = Len(w) + 1
    <3>1. n = IF i = 1 THEN from ELSE v[i - 1].balance
      <4>1. CASE i = 1
        BY <1>2, <2>2, <4>1 DEF Continues
      <4>2. CASE i # 1
        <5>1. Len(w) \in 1..Len(w) /\ w # << >> /\ i - 1 = Len(w)
          BY <1>2, <2>2, <4>2
        <5> QED
          BY <1>2, <4>2, <5>1 DEF Continues
      <4> QED
        BY <4>1, <4>2
    <3> QED
      BY <1>1, <1>2, <2>2, <3>1
  <2> QED
    BY <1>2, <2>1, <2>2
<1>4. v # << >> /\ v[Len(v)].balance = n - q
  BY <1>1, <1>2
<1> QED
  BY <1>3, <1>4 DEF Continues, v, m

\* A ledger that adds up, followed by rows that go on from its last balance, adds up.
LEMMA ContinuesConcat ==
    ASSUME NEW l \in Seq(Movement), l # << >>, NEW w \in Seq(Movement), NEW to,
           \A i \in 2..Len(l) : l[i].balance = l[i - 1].balance + l[i].quantity,
           Continues(w, l[Len(l)].balance, to)
    PROVE  /\ l \o w # << >>
           /\ \A i \in 2..Len(l \o w) : (l \o w)[i].balance = (l \o w)[i - 1].balance + (l \o w)[i].quantity
           /\ Last(l \o w).balance = to
<1> DEFINE v == l \o w
<1>1. /\ Len(l) \in Nat /\ Len(l) > 0 /\ Len(w) \in Nat /\ Len(v) = Len(l) + Len(w) /\ v \in Seq(Movement)
      /\ \A i \in 1..Len(l) : v[i] = l[i]
      /\ \A i \in 1..Len(w) : v[Len(l) + i] = w[i]
  OBVIOUS
<1> HIDE DEF v
<1>2. ASSUME NEW i \in 2..Len(v)
      PROVE  v[i].balance = v[i - 1].balance + v[i].quantity
  <2>1. CASE i <= Len(l)
    <3>1. i \in 2..Len(l) /\ i \in 1..Len(l) /\ i - 1 \in 1..Len(l)
      BY <1>1, <2>1
    <3>2. v[i] = l[i] /\ v[i - 1] = l[i - 1]
      BY <1>1, <3>1
    <3> QED
      BY <3>1, <3>2
  <2>2. CASE i > Len(l)
    <3> DEFINE j == i - Len(l)
    <3>1. j \in 1..Len(w) /\ i = Len(l) + j /\ (j # 1 => j - 1 \in 1..Len(w) /\ i - 1 = Len(l) + (j - 1))
      BY <1>1, <2>2
    <3>2. v[i] = w[j] /\ (j # 1 => v[i - 1] = w[j - 1])
      BY <1>1, <3>1
    <3>3. j = 1 => i - 1 = Len(l) /\ Len(l) \in 1..Len(l)
      BY <1>1
    <3>4. j = 1 => v[i - 1] = l[Len(l)]
      BY <1>1, <3>3
    <3>5. w[j].balance = (IF j = 1 THEN l[Len(l)].balance ELSE w[j - 1].balance) + w[j].quantity
      BY <3>1 DEF Continues
    <3> HIDE DEF j
    <3> QED
      BY <3>2, <3>4, <3>5
  <2> QED
    BY <1>1, <2>1, <2>2
<1>3. v[Len(v)].balance = to
  <2>1. CASE Len(w) = 0
    <3>1. w = << >> /\ Len(v) = Len(l) /\ Len(l) \in 1..Len(l)
      BY <1>1, <2>1
    <3> QED
      BY <1>1, <3>1 DEF Continues
  <2>2. CASE Len(w) > 0
    <3>1. w # << >> /\ Len(w) \in 1..Len(w)
      BY <1>1, <2>2
    <3> QED
      BY <1>1, <3>1 DEF Continues
  <2> QED
    BY <1>1, <2>1, <2>2
<1>4. v # << >>
  BY <1>1
<1> QED
  BY <1>2, <1>3, <1>4 DEF v, Last

-----------------------------------------------------------------------------
(* What a statement of one request leaves as it was *)

\* A request knows no less when the others touch neither its locks nor the rows it has locked.
LEMMA StillKnows ==
    ASSUME IInv, NEW u \in Requests, Knows(u), tx'[u] = tx[u], job' = job,
           \A b \in Batches : batchLock'[b] = u <=> batchLock[b] = u,
           \A o \in Orders : orderLock'[o] = u <=> orderLock[o] = u,
           \A b \in Batches : batchLock[b] = u => onHand'[b] = onHand[b],
           \A o \in Orders : orderLock[o] = u => held'[o] = held[o] /\ status'[o] = status[o]
    PROVE  Knows(u)'
<1>1. /\ Kind(u)' = Kind(u) /\ Left(u)' = Left(u) /\ (Working(u) <=> Working(u)')
  BY DEF Kind, Left, Working
<1>2. tx[u].ready \in SUBSET Orders /\ \A o \in tx[u].ready : orderLock[o] = u
  BY DEF IInv, TypeOK, Transaction, Placed
<1>3. \A o \in tx[u].ready : held'[o] = held[o] /\ status'[o] = status[o]
  BY <1>2
<1>4. Spent(u)' = Spent(u)
  BY <1>1, <1>3 DEF Spent
<1>5. \A b \in Batches : Moved(u, b)' = Moved(u, b)
  BY <1>1, <1>4 DEF Moved
<1>6. \A o \in tx[u].ready, b \in Batches : Due(u, o, b)' = Due(u, o, b)
  BY <1>1, <1>3 DEF Due
<1>7. Idle(u)' /\ Lined(u)' /\ InOrder(u)'
  BY <1>1 DEF Knows, Idle, Lined, InOrder
<1>8. Claimed(u)'
  BY <1>1, <1>3 DEF Knows, Claimed
<1>9. Promising(u)'
  BY <1>1, <1>6 DEF Knows, Promising
<1>10. Shelved(u)'
  BY <1>1, <1>5 DEF Knows, Shelved
<1>11. Recorded(u)'
  BY DEF Knows, Recorded
<1> QED
  BY <1>7, <1>8, <1>9, <1>10, <1>11 DEF Knows

\* So of a statement before COMMIT it is enough to show what its own request knows after it.
LEMMA OthersKnow ==
    ASSUME HInv, IInv', NEW t \in Requests, Frame(t), Knows(t)'
    PROVE  HInv'
<1>1. History'
  BY DEF HInv, Frame, database, History, LedgerAddsUp, OpenOrdersHoldTheirLines
<1>2. ASSUME NEW u \in Requests \ {t}
      PROVE  Knows(u)'
  BY StillKnows DEF HInv, Frame, database
<1> QED
  BY <1>1, <1>2 DEF HInv

-----------------------------------------------------------------------------
(* Each statement keeps what is known *)

\* After ROLLBACK a request has no lock and nothing to do.
LEMMA RollbackKnows ==
    ASSUME HInv, NEW t \in Requests, NEW pc \in {"begin", "failed"}, Rollback(t, pc), IInv'
    PROVE  HInv'
<1>1. /\ UNCHANGED <<database, job>>
      /\ tx' = [tx EXCEPT ![t] = Blank(pc, tx[t].attempts)]
      /\ batchLock' = [b \in Batches |-> IF batchLock[b] = t THEN NoRequest ELSE batchLock[b]]
      /\ orderLock' = [o \in Orders |-> IF orderLock[o] = t THEN NoRequest ELSE orderLock[o]]
  BY DEF Rollback, Unlock
<1>2. tx \in [Requests -> Transaction] /\ NoRequest \notin Requests
  BY RequestsAssumption DEF HInv, IInv, TypeOK
<1>3. tx'[t] = Blank(pc, tx[t].attempts) /\ \A u \in Requests \ {t} : tx'[u] = tx[u]
  BY <1>1, <1>2
<1>4. Frame(t)
  BY <1>1, <1>2, <1>3 DEF Frame
<1>5. (\A b \in Batches : batchLock'[b] # t) /\ (\A o \in Orders : orderLock'[o] # t)
  BY <1>1, <1>2
<1>6. /\ tx'[t].pc = pc /\ tx'[t].ready = {} /\ tx'[t].todo = << >>
      /\ \A b \in Batches : tx'[t].written[b] = << >>
  BY <1>3 DEF Blank
<1>7. Left(t)' = {} /\ ~Working(t)' /\ Len(tx'[t].todo) = 0
  BY <1>6 DEF Left, ToSet, Working
<1>8. Idle(t)' /\ Claimed(t)' /\ Lined(t)' /\ Promising(t)' /\ Shelved(t)' /\ Recorded(t)' /\ InOrder(t)'
  BY <1>5, <1>6, <1>7 DEF Idle, Claimed, Lined, Promising, Shelved, Recorded, InOrder
<1> QED
  BY <1>4, <1>8, OthersKnow DEF Knows

\* A transaction that fails knows nothing more, and what it counted is forgotten.
LEMMA FailKnows ==
    ASSUME HInv, NEW t \in Requests, Fail(t), IInv'
    PROVE  HInv'
BY RollbackKnows DEF Fail

\* A request about the shelf has its lines at once, in the order it works through them.
LEMMA BeginKnows ==
    ASSUME HInv, NEW t \in Requests, Begin(t), IInv'
    PROVE  HInv'
<1> DEFINE S == IF OnShelf(Kind(t)) THEN {<<NoOrder, b>> : b \in {c \in Batches : job[t].want[c] # 0}} ELSE {}
           pc == IF OnShelf(Kind(t)) THEN "line" ELSE "order"
<1>1. PICK s \in Sequences(Kind(t), S) :
        tx' = [tx EXCEPT ![t].pc = pc, ![t].attempts = @ + 1, ![t].unlocked = job[t].orders, ![t].todo = s]
  BY DEF Begin
<1>2. tx[t].pc = "begin" /\ UNCHANGED <<database, locks, job>>
  BY DEF Begin
<1>3. S \in SUBSET Lines /\ S \subseteq {NoOrder} \X Batches
  BY DEF Lines
<1>4. tx \in [Requests -> Transaction] /\ tx[t] \in Transaction /\ job[t] \in JobType
  BY JobsAssumption DEF HInv, IInv, TypeOK
<1>5. /\ OnShelf(Kind(t)) => \A b \in Batches : <<NoOrder, b>> \in S <=> job[t].want[b] # 0
      /\ \A l \in S : OnShelf(Kind(t)) /\ l[1] = NoOrder
  OBVIOUS
<1>6. (pc = "line" /\ OnShelf(Kind(t))) \/ (pc = "order" /\ ~OnShelf(Kind(t)) /\ S = {})
  OBVIOUS
<1> HIDE DEF S, pc
<1>7. /\ s \in Seq(Lines) /\ ToSet(s) = S
      /\ \A i, j \in 1..Len(s) : s[i] = s[j] => i = j
      /\ Sorted(Kind(t)) => \A i, j \in 1..Len(s) : i < j => s[i][2] < s[j][2]
  BY <1>3, SequencesOnce, SequencesRise
<1>8. S = {} => s = << >>
  BY <1>7, NoLines
<1>9. /\ tx'[t].pc = pc /\ tx'[t].todo = s /\ tx'[t].ready = tx[t].ready
      /\ tx'[t].mine = tx[t].mine /\ tx'[t].shelf = tx[t].shelf /\ tx'[t].written = tx[t].written
      /\ \A u \in Requests \ {t} : tx'[u] = tx[u]
  BY <1>1, <1>4 DEF Transaction
<1>10. Frame(t)
  BY <1>2, <1>9 DEF Frame, locks
<1>11. /\ tx[t].ready = {} /\ (\A b \in Batches : batchLock'[b] # t) /\ (\A o \in Orders : orderLock'[o] # t)
       /\ \A b \in Batches : tx[t].written[b] = << >>
  BY <1>2 DEF HInv, Knows, Idle, Recorded, Working, locks
<1>12. Kind(t)' = Kind(t) /\ Left(t)' = S /\ (Working(t)' <=> pc = "line") /\ job' = job
  BY <1>2, <1>6, <1>7, <1>9 DEF Kind, Left, Working
<1>13. Idle(t)'
  BY <1>6, <1>8, <1>9, <1>11, <1>12 DEF Idle
<1>14. Claimed(t)' /\ Promising(t)' /\ Recorded(t)'
  BY <1>6, <1>9, <1>11, <1>12 DEF Claimed, Promising, Recorded
<1>15. Lined(t)'
  BY <1>5, <1>6, <1>7, <1>8, <1>9, <1>12 DEF Lined, OnShelf
<1>16. Shelved(t)'
  <2>1. ASSUME NEW b \in Batches, OnShelf(Kind(t))
        PROVE  Moved(t, b)' = 0
    <3>1. <<NoOrder, b>> \notin S => job[t].want[b] = 0
      BY <1>5, <2>1
    <3> QED
      BY <1>12, <2>1, <3>1 DEF Moved
  <2> QED
    BY <1>6, <1>11, <1>12, <2>1 DEF Shelved
<1>17. InOrder(t)'
  BY <1>7, <1>9, <1>11, <1>12 DEF InOrder
<1> QED
  BY <1>10, <1>13, <1>14, <1>15, <1>16, <1>17, OthersKnow DEF Knows

\* An order claimed in the status the statement asks for; `own` is what is due to it before any line.
LEMMA ClaimKnows ==
    ASSUME HInv, NEW t \in Requests, NEW o \in Orders, NEW from, NEW own \in Quantities,
           NEW S \in SUBSET Lines, ClaimOrder(t, o, from, own, S),
           ~OnShelf(Kind(t)), Kind(t) # "dispatch",
           from = From(Kind(t)),
           S \subseteq {o} \X Batches,
           Kind(t) \in {"confirm", "cancel"} => S = {},
           \A b \in Batches : own[b] = IF Holds(Kind(t)) THEN (IF <<o, b>> \in S THEN 0 ELSE job[t].want[b])
                                       ELSE IF Kind(t) = "confirm" THEN held[o][b] ELSE 0,
           IInv'
    PROVE  HInv'
<1>1. CASE Fail(t)
  BY <1>1, FailKnows
<1>2. CASE ~Fail(t)
  <2>1. /\ tx[t].pc = "order" /\ orderLock[o] = NoRequest /\ status[o] \in from
        /\ orderLock' = [orderLock EXCEPT ![o] = t]
        /\ UNCHANGED <<database, batchLock, job>>
    BY <1>2 DEF ClaimOrder
  <2>2. PICK s \in Sequences(Kind(t), S) :
          tx' = [tx EXCEPT ![t].pc = "line", ![t].unlocked = {}, ![t].ready = {o},
                           ![t].mine[o] = own, ![t].todo = s]
    BY <1>2 DEF ClaimOrder
  <2>3. tx \in [Requests -> Transaction] /\ tx[t] \in Transaction /\ Kind(t) \in Kinds
    BY JobsAssumption DEF HInv, IInv, TypeOK, Kind, JobType
  <2>4. /\ tx'[t].pc = "line" /\ tx'[t].todo = s /\ tx'[t].ready = {o}
        /\ tx'[t].shelf = tx[t].shelf /\ tx'[t].written = tx[t].written
        /\ tx'[t].mine = [tx[t].mine EXCEPT ![o] = own]
        /\ \A u \in Requests \ {t} : tx'[u] = tx[u]
    BY <2>2, <2>3 DEF Transaction
  <2>5. tx'[t].mine[o] = own
    BY <2>3, <2>4 DEF Transaction, Holdings
  <2>6. Frame(t)
    BY <2>1, <2>4, RequestsAssumption DEF HInv, IInv, TypeOK, Frame
  <2>7. /\ s \in Seq(Lines) /\ ToSet(s) = S
        /\ \A i, j \in 1..Len(s) : s[i] = s[j] => i = j
        /\ Sorted(Kind(t)) => \A i, j \in 1..Len(s) : i < j => s[i][2] < s[j][2]
    <3>1. s \in Seq(Lines) /\ ToSet(s) = S /\ \A i, j \in 1..Len(s) : s[i] = s[j] => i = j
      BY SequencesOnce
    <3>2. ASSUME Sorted(Kind(t)), NEW i \in 1..Len(s), NEW j \in 1..Len(s), i < j
          PROVE  s[i][2] < s[j][2]
      BY <3>2, SequencesRise
    <3> QED
      BY <3>1, <3>2
  <2>8. S = {} => s = << >>
    BY <2>7, NoLines
  <2>9. /\ \A b \in Batches : batchLock'[b] # t /\ tx[t].written[b] = << >>
        /\ \A p \in Orders : orderLock[p] # t
    BY <2>1 DEF HInv, Knows, Idle, Recorded, Working
  <2>10. \A p \in Orders : orderLock'[p] = t => p = o
    BY <2>1, <2>9 DEF HInv, IInv, TypeOK
  <2>11. Kind(t)' = Kind(t) /\ Left(t)' = S /\ Working(t)' /\ held' = held /\ status' = status /\ job' = job
    BY <2>1, <2>4, <2>7 DEF Kind, Left, Working, database
  <2>12. Idle(t)'
    BY <2>4, <2>11 DEF Idle
  <2>13. Claimed(t)'
    BY <2>1, <2>4, <2>10, <2>11 DEF Claimed
  <2>14. Lined(t)'
    BY <2>4, <2>7, <2>8, <2>11 DEF Lined
  <2>15. Promising(t)'
    <3>1. \A b \in Batches : Due(t, o, b)' = own[b]
      BY <2>3, <2>11 DEF Due, Kinds, Holds, OnShelf
    <3> QED
      BY <2>4, <2>5, <3>1 DEF Promising
  <2>16. Shelved(t)' /\ Recorded(t)'
    BY <2>4, <2>9, <2>11 DEF Shelved, Moved, Recorded
  <2>17. InOrder(t)'
    BY <2>4, <2>7, <2>9, <2>11 DEF InOrder
  <2> QED
    BY <2>6, <2>12, <2>13, <2>14, <2>15, <2>16, <2>17, OthersKnow DEF Knows
<1> QED
  BY <1>1, <1>2

\* Placing and editing start from nothing held, with a line for every batch wanted.
LEMMA PlaceKnows ==
    ASSUME HInv, NEW t \in Requests, NEW o \in Orders, PlaceOrder(t, o) \/ EditOrder(t, o), IInv'
    PROVE  HInv'
<1>1. Kind(t) \in {"place", "edit"} /\ Holds(Kind(t)) /\ ~OnShelf(Kind(t))
  BY DEF PlaceOrder, EditOrder, OnShelf, Holds
<1>2. job[t].want \in Quantities
  BY <1>1, JobsAssumption DEF HInv, IInv, TypeOK, Kind
<1>3. WantedLines(t, o) \in SUBSET Lines /\ WantedLines(t, o) \subseteq {o} \X Batches
  BY DEF WantedLines, Lines, Named
<1>4. Nothing \in Quantities /\ \A b \in Batches : Nothing[b] = 0
  BY DEF Nothing, Quantities
<1>5. \A b \in Batches : <<o, b>> \notin WantedLines(t, o) => job[t].want[b] = 0
  BY <1>2 DEF WantedLines, Named, Quantities
<1>6. ClaimOrder(t, o, From(Kind(t)), Nothing, WantedLines(t, o))
  BY DEF PlaceOrder, EditOrder, From
<1>7. \A b \in Batches : Nothing[b] = IF Holds(Kind(t)) THEN (IF <<o, b>> \in WantedLines(t, o) THEN 0 ELSE job[t].want[b])
                                       ELSE IF Kind(t) = "confirm" THEN held[o][b] ELSE 0
  BY <1>1, <1>4, <1>5
<1> QED
  BY <1>1, <1>3, <1>4, <1>6, <1>7, ClaimKnows

\* Confirming keeps all an order holds, cancelling nothing.
LEMMA ConfirmKnows ==
    ASSUME HInv, NEW t \in Requests, NEW o \in Orders, ConfirmOrder(t, o) \/ CancelOrder(t, o), IInv'
    PROVE  HInv'
<1> DEFINE own == IF Kind(t) = "confirm" THEN held[o] ELSE Nothing
<1>1. Kind(t) \in {"confirm", "cancel"} /\ ~Holds(Kind(t)) /\ ~OnShelf(Kind(t))
  BY DEF ConfirmOrder, CancelOrder, OnShelf, Holds
<1>2. /\ own \in Quantities
      /\ \A b \in Batches : own[b] = IF Kind(t) = "confirm" THEN held[o][b] ELSE 0
  BY DEF Nothing, Quantities, HInv, IInv, TypeOK, Holdings
<1>3. ClaimOrder(t, o, From(Kind(t)), own, {})
  BY DEF ConfirmOrder, CancelOrder, From
<1> HIDE DEF own
<1>4. \A b \in Batches : own[b] = IF Holds(Kind(t)) THEN (IF <<o, b>> \in {} THEN 0 ELSE job[t].want[b])
                                  ELSE IF Kind(t) = "confirm" THEN held[o][b] ELSE 0
  BY <1>1, <1>2
<1>5. {} \in SUBSET Lines /\ {} \subseteq {o} \X Batches
  OBVIOUS
<1> QED
  BY <1>1, <1>2, <1>3, <1>4, <1>5, ClaimKnows

\* A hand-over keeps the holds of the orders it locks until, with the last of them, it has its lines.
LEMMA LockParcelKnows ==
    ASSUME HInv, NEW t \in Requests, NEW o \in Orders, LockParcel(t, o)
    PROVE  HInv'
<1> DEFINE ready == tx[t].ready \cup (IF status[o] = "Confirmed" THEN {o} ELSE {})
           last == tx[t].unlocked = {o}
           lines == UNION {{p} \X Named(held[p]) : p \in ready}
           S == IF last THEN lines ELSE {}
           pc == IF last THEN "line" ELSE "order"
<1>0. IInv'
  BY LockParcelKeeps DEF HInv
<1>1. CASE Fail(t)
  BY <1>0, <1>1, FailKnows
<1>2. CASE ~Fail(t)
  <2>1. /\ tx[t].pc = "order" /\ orderLock[o] = NoRequest /\ Kind(t) = "dispatch"
        /\ orderLock' = [orderLock EXCEPT ![o] = t]
        /\ UNCHANGED <<database, batchLock, job>>
    BY <1>2 DEF LockParcel
  <2>2. PICK s \in Sequences("dispatch", S) :
          tx' = [tx EXCEPT ![t].pc = pc, ![t].unlocked = @ \ {o}, ![t].ready = ready,
                           ![t].mine[o] = held[o], ![t].todo = s]
    BY <1>2 DEF LockParcel
  <2>3. tx \in [Requests -> Transaction] /\ tx[t] \in Transaction /\ tx[t].ready \in SUBSET Orders
    BY DEF HInv, IInv, TypeOK, Transaction
  <2>4. S \in SUBSET Lines /\ \A l \in S : l[1] \in ready
    BY <2>3 DEF Lines, Named
  <2>5. pc = "line" => \A p \in ready, b \in Batches : <<p, b>> \in S <=> held[p][b] > 0
    BY DEF Named
  <2>6. (pc = "line") \/ (pc = "order" /\ S = {})
    OBVIOUS
  <2>7. ready \in SUBSET Orders /\ \A p \in ready : status[p] = "Confirmed"
    BY <2>1, <2>3 DEF HInv, Knows, Claimed, From
  <2> HIDE DEF ready, S, last, pc
  <2>8. s \in Seq(Lines) /\ ToSet(s) = S /\ \A i, j \in 1..Len(s) : s[i] = s[j] => i = j
    BY <2>4, SequencesOnce
  <2>9. S = {} => s = << >>
    BY <2>8, NoLines
  <2>10. /\ tx'[t].pc = pc /\ tx'[t].todo = s /\ tx'[t].ready = ready
         /\ tx'[t].shelf = tx[t].shelf /\ tx'[t].written = tx[t].written
         /\ tx'[t].mine = [tx[t].mine EXCEPT ![o] = held[o]]
         /\ \A u \in Requests \ {t} : tx'[u] = tx[u]
    BY <2>2, <2>3 DEF Transaction
  <2>11. \A p \in Orders : tx'[t].mine[p] = IF p = o THEN held[o] ELSE tx[t].mine[p]
    BY <2>3, <2>10 DEF Transaction, Holdings
  <2>12. Frame(t)
    BY <2>1, <2>10, RequestsAssumption DEF HInv, IInv, TypeOK, Frame
  <2>13. \A b \in Batches : batchLock'[b] # t /\ tx[t].written[b] = << >>
    BY <2>1 DEF HInv, Knows, Idle, Recorded, Working
  <2>14. /\ Kind(t)' = "dispatch" /\ Left(t)' = S /\ (Working(t)' <=> pc = "line")
         /\ held' = held /\ status' = status /\ job' = job
    BY <2>1, <2>6, <2>8, <2>10 DEF Kind, Left, Working, database
  <2>15. \A p \in Orders : orderLock'[p] = t => tx'[t].mine[p] = held[p]
    BY <2>1, <2>11 DEF HInv, IInv, TypeOK, Knows, Claimed
  <2>16. \A p \in ready : orderLock'[p] = t
    BY <1>0, <2>10 DEF IInv, Placed
  <2>17. Idle(t)'
    BY <2>6, <2>9, <2>10, <2>13, <2>14 DEF Idle, OnShelf
  <2>18. Claimed(t)'
    BY <2>7, <2>10, <2>14, <2>15 DEF Claimed, From
  <2>19. Lined(t)'
    BY <2>4, <2>8, <2>10, <2>14 DEF Lined, OnShelf
  <2>20. pc = "line" => \A p \in ready, b \in Batches : <<p, b>> \notin S => held[p][b] = 0
    BY <2>5, <2>7 DEF HInv, IInv, TypeOK, Holdings, Quantities
  <2>21. Promising(t)'
    <3> SUFFICES ASSUME pc = "line", NEW p \in ready, NEW b \in Batches
                 PROVE  tx'[t].mine[p][b] = Due(t, p, b)'
      BY <2>10, <2>14 DEF Promising
    <3>1. tx'[t].mine[p] = held[p]
      BY <2>7, <2>15, <2>16
    <3>2. Due(t, p, b)' = IF <<p, b>> \in S THEN held[p][b] ELSE 0
      BY <2>14 DEF Due, Holds
    <3> QED
      BY <2>20, <3>1, <3>2
  <2>22. Shelved(t)'
    <3> SUFFICES ASSUME pc = "line", NEW b \in Batches
                 PROVE  Moved(t, b)' = 0
      BY <2>13, <2>14 DEF Shelved
    <3>1. Spent(t)' = [p \in Orders |-> [c \in Batches |-> 0]]
      BY <2>10, <2>14, <2>20 DEF Spent
    <3>2. [p \in Orders |-> [c \in Batches |-> 0]] \in Holdings
      BY DEF Holdings, Quantities
    <3>3. Promised([p \in Orders |-> [c \in Batches |-> 0]], b) = 0
      BY <3>2, PromisedNothing
    <3>4. Moved(t, b)' = Promised(Spent(t)', b)
      BY <2>14 DEF Moved, OnShelf
    <3> QED
      BY <3>1, <3>3, <3>4
  <2>23. Recorded(t)' /\ InOrder(t)'
    BY <2>10, <2>13, <2>14 DEF Recorded, InOrder, Sorted
  <2> QED
    BY <1>0, <2>12, <2>17, <2>18, <2>19, <2>21, <2>22, <2>23, OthersKnow DEF Knows
<1> QED
  BY <1>1, <1>2

\* Locking a batch shows what is committed on it, which nothing of this request has moved yet.
LEMMA LockBatchKnows ==
    ASSUME HInv, NEW t \in Requests, LockBatch(t), IInv'
    PROVE  HInv'
<1> DEFINE b == LineBatch(t)
           pc == IF Holds(Kind(t)) THEN "hold" ELSE "take"
<1>1. /\ AtLine(t, {"place", "edit", "sell", "adjust"})
      /\ Free(batchLock[b], t)
      /\ batchLock' = [batchLock EXCEPT ![b] = t]
      /\ UNCHANGED <<database, orderLock, job>>
      /\ tx' = [tx EXCEPT ![t].pc = pc, ![t].shelf[b] = ShelfOf(t)[b]]
  BY DEF LockBatch
<1>2. tx \in [Requests -> Transaction] /\ tx[t] \in Transaction
  BY DEF HInv, IInv, TypeOK
<1>3. b \in Batches /\ tx[t].todo # << >> /\ tx[t].pc = "line" /\ Line(t) = tx[t].todo[1]
  BY <1>1, LineType DEF HInv, IInv, AtLine
<1>4. pc \in {"hold", "take"} /\ b = tx[t].todo[1][2]
  BY <1>3 DEF LineBatch
<1> HIDE DEF pc, b
<1>5. /\ tx'[t].pc = pc /\ tx'[t].todo = tx[t].todo /\ tx'[t].ready = tx[t].ready
      /\ tx'[t].mine = tx[t].mine /\ tx'[t].written = tx[t].written
      /\ tx'[t].shelf = [tx[t].shelf EXCEPT ![b] = ShelfOf(t)[b]]
      /\ \A u \in Requests \ {t} : tx'[u] = tx[u]
  BY <1>1, <1>2 DEF Transaction
<1>6. Frame(t)
  BY <1>1, <1>3, <1>5, RequestsAssumption DEF HInv, IInv, TypeOK, Frame, Free
<1>7. /\ Kind(t)' = Kind(t) /\ Left(t)' = Left(t) /\ Working(t)' /\ Working(t)
      /\ held' = held /\ status' = status /\ job' = job /\ orderLock' = orderLock /\ onHand' = onHand
  BY <1>1, <1>3, <1>4, <1>5 DEF Kind, Left, Working, database
<1>8. \A c \in Batches : tx'[t].shelf[c] = IF c = b THEN ShelfOf(t)[b] ELSE tx[t].shelf[c]
  BY <1>2, <1>5 DEF Transaction, Quantities
<1>9. \A c \in Batches : batchLock'[c] = t <=> batchLock[c] = t \/ c = b
  BY <1>1 DEF HInv, IInv, TypeOK
<1>10. \A c \in Batches : batchLock'[c] = t => tx'[t].shelf[c] = ShelfOf(t)[c]
  BY <1>8, <1>9 DEF ShelfOf
<1>11. Idle(t)' /\ Lined(t)'
  BY <1>3, <1>4, <1>5, <1>7 DEF HInv, Knows, Idle, Lined, Working
<1>12. Claimed(t)'
  BY <1>3, <1>4, <1>5, <1>7 DEF HInv, Knows, Claimed
<1>13. Promising(t)'
  <2>1. \A o \in tx[t].ready, c \in Batches : Due(t, o, c)' = Due(t, o, c)
    BY <1>7 DEF Due
  <2> QED
    BY <1>5, <1>7, <2>1 DEF HInv, Knows, Promising
<1>14. Shelved(t)'
  <2>1. \A c \in Batches : Moved(t, c)' = Moved(t, c)
    BY <1>5, <1>7 DEF Moved, Spent
  <2>2. \A c \in Batches : onHand[c] - 0 = onHand[c]
    BY DEF HInv, IInv, TypeOK, Quantities
  <2>3. \A c \in Batches : ShelfOf(t)[c] = onHand[c] - Moved(t, c)
    BY <1>7, <2>2 DEF HInv, Knows, Shelved, ShelfOf
  <2> QED
    BY <1>7, <1>9, <1>10, <2>1, <2>3 DEF HInv, Knows, Shelved
<1>15. Recorded(t)'
  <2>1. \A c \in Batches : Continues(tx[t].written[c], onHand[c], ShelfOf(t)[c])
    <3> TAKE c \in Batches
    <3>1. CASE batchLock[c] = t
      BY <3>1 DEF HInv, Knows, Recorded, ShelfOf
    <3>2. CASE batchLock[c] # t
      <4>1. tx[t].written[c] = << >> /\ ShelfOf(t)[c] = onHand[c]
        BY <3>2 DEF HInv, Knows, Recorded, ShelfOf
      <4>2. Continues(<< >>, onHand[c], onHand[c])
        BY DEF Continues
      <4> QED
        BY <4>1, <4>2
    <3> QED
      BY <3>1, <3>2
  <2> QED
    BY <1>5, <1>7, <1>9, <1>10, <2>1 DEF HInv, Knows, Recorded
<1>16. InOrder(t)'
  <2> SUFFICES ASSUME Sorted(Kind(t)),
                      NEW c \in Batches, NEW i \in 1..Len(tx[t].todo), batchLock'[c] = t
               PROVE  c < tx[t].todo[i][2] \/ (i = 1 /\ pc # "line" /\ c = tx[t].todo[1][2])
    BY <1>5, <1>7 DEF HInv, Knows, InOrder
  <2>1. CASE c # b
    BY <1>3, <1>9, <2>1 DEF HInv, Knows, InOrder
  <2>2. CASE c = b /\ i = 1
    BY <1>4, <2>2
  <2>3. CASE c = b /\ i # 1
    <3>1. 1 \in 1..Len(tx[t].todo) /\ 1 < i
      BY <1>2, <2>3 DEF Transaction
    <3> QED
      BY <1>4, <2>3, <3>1 DEF HInv, Knows, InOrder
  <2> QED
    BY <2>1, <2>2, <2>3
<1> QED
  BY <1>6, <1>11, <1>12, <1>13, <1>14, <1>15, <1>16, OthersKnow DEF Knows

\* The line a transaction works on, and the lines that are left after it.
LEMMA NextLine ==
    ASSUME IInv, NEW t \in Requests, Lined(t), tx[t].todo # << >>
    PROVE  /\ LineBatch(t) \in Batches /\ Line(t) = <<Line(t)[1], LineBatch(t)>> /\ LineBatch(t) = tx[t].todo[1][2]
           /\ Line(t) \in Left(t) /\ ToSet(Tail(tx[t].todo)) = Left(t) \ {Line(t)}
           /\ \A i \in 1..Len(Tail(tx[t].todo)) :
                i + 1 \in 1..Len(tx[t].todo) /\ Tail(tx[t].todo)[i] = tx[t].todo[i + 1]
           /\ \A i, j \in 1..Len(Tail(tx[t].todo)) : Tail(tx[t].todo)[i] = Tail(tx[t].todo)[j] => i = j
<1>1. tx[t].todo \in Seq(Lines)
  BY DEF IInv, TypeOK, Transaction
<1>2. LineBatch(t) \in Batches /\ Line(t) \in Lines /\ Line(t) = Head(tx[t].todo)
  BY LineType DEF IInv, Line
<1>3. Line(t) = <<Line(t)[1], LineBatch(t)>>
  BY <1>2 DEF Lines, LineBatch
<1>4. \A i, j \in 1..Len(tx[t].todo) : tx[t].todo[i] = tx[t].todo[j] => i = j
  BY DEF Lined
<1>5. /\ ToSet(Tail(tx[t].todo)) = ToSet(tx[t].todo) \ {Head(tx[t].todo)}
      /\ Head(tx[t].todo) = tx[t].todo[1] /\ Head(tx[t].todo) \in ToSet(tx[t].todo)
      /\ \A i \in 1..Len(Tail(tx[t].todo)) :
           i + 1 \in 1..Len(tx[t].todo) /\ Tail(tx[t].todo)[i] = tx[t].todo[i + 1]
      /\ \A i, j \in 1..Len(Tail(tx[t].todo)) : Tail(tx[t].todo)[i] = Tail(tx[t].todo)[j] => i = j
  BY <1>1, <1>4, TailLines
<1> QED
  BY <1>2, <1>3, <1>5 DEF Left, LineBatch

\* When a line is done, what a sorting handler has locked lies below what it has still to lock.
LEMMA RisesOn ==
    ASSUME HInv, NEW t \in Requests, tx[t].todo # << >>,
           tx'[t].todo = Tail(tx[t].todo), tx'[t].pc = "line", job' = job,
           \A c \in Batches : Sorted(Kind(t)) /\ batchLock'[c] = t => batchLock[c] = t
    PROVE  InOrder(t)'
<1>1. Kind(t)' = Kind(t)
  BY DEF Kind
<1>2. \A i \in 1..Len(Tail(tx[t].todo)) :
        i + 1 \in 1..Len(tx[t].todo) /\ i + 1 # 1 /\ Tail(tx[t].todo)[i] = tx[t].todo[i + 1]
  BY NextLine DEF HInv, Knows
<1>3. ASSUME Sorted(Kind(t)), NEW i \in 1..Len(Tail(tx[t].todo)), NEW j \in 1..Len(Tail(tx[t].todo)), i < j
      PROVE  Tail(tx[t].todo)[i][2] < Tail(tx[t].todo)[j][2]
  <2>1. i + 1 < j + 1
    BY <1>3
  <2> QED
    BY <1>2, <1>3, <2>1 DEF HInv, Knows, InOrder
<1>4. ASSUME Sorted(Kind(t)), NEW c \in Batches, NEW i \in 1..Len(Tail(tx[t].todo)), batchLock'[c] = t
      PROVE  c < Tail(tx[t].todo)[i][2]
  BY <1>2, <1>4 DEF HInv, Knows, InOrder
<1> QED
  BY <1>1, <1>3, <1>4 DEF InOrder

\* A line held: its order now holds what was wanted of that batch.
LEMMA HoldStockKnows ==
    ASSUME HInv, NEW t \in Requests, HoldStock(t), IInv'
    PROVE  HInv'
<1> DEFINE o == Line(t)[1]
           b == LineBatch(t)
           q == job[t].want[b]
<1>1. CASE Fail(t)
  BY <1>1, FailKnows
<1>2. CASE ~Fail(t)
  <2>1. /\ tx[t].pc = "hold"
        /\ UNCHANGED <<database, locks, job>>
        /\ tx' = [tx EXCEPT ![t].pc = "line", ![t].todo = Tail(@), ![t].mine[o][b] = @ + q]
    BY <1>2 DEF HoldStock
  <2>2. tx \in [Requests -> Transaction] /\ tx[t] \in Transaction /\ tx[t].todo \in Seq(Lines)
    BY DEF HInv, IInv, TypeOK, Transaction
  <2>3. tx[t].todo # << >> /\ Holds(Kind(t)) /\ ~OnShelf(Kind(t)) /\ Kind(t) \in {"place", "edit"}
    BY <2>1 DEF HInv, IInv, Placed, Holds, OnShelf
  <2>4. b \in Batches /\ Line(t) = <<o, b>>
    BY <2>3, NextLine DEF HInv, Knows
  <2>6. /\ ToSet(Tail(tx[t].todo)) = Left(t) \ {<<o, b>>} /\ <<o, b>> \in Left(t)
        /\ \A i \in 1..Len(Tail(tx[t].todo)) : i + 1 \in 1..Len(tx[t].todo) /\ Tail(tx[t].todo)[i] = tx[t].todo[i + 1]
        /\ \A i, j \in 1..Len(Tail(tx[t].todo)) : Tail(tx[t].todo)[i] = Tail(tx[t].todo)[j] => i = j
    BY <2>3, NextLine DEF HInv, Knows
  <2>7. o \in tx[t].ready /\ tx[t].ready \in SUBSET Orders
    <3>1. <<o, b>>[1] \in tx[t].ready
      BY <2>3, <2>6 DEF HInv, Knows, Lined
    <3> QED
      BY <2>2, <3>1 DEF Transaction
  <2>8. q \in Nat
    <3>1. job[t].want \in Quantities
      BY <2>3, JobsAssumption DEF HInv, IInv, TypeOK, Kind
    <3> QED
      BY <2>4, <3>1 DEF Quantities
  <2>9. tx[t].mine \in Holdings /\ tx[t].mine[o] \in Quantities
    BY <2>2, <2>7 DEF Transaction, Holdings
  <2> DEFINE mine == [tx[t].mine EXCEPT ![o] = [tx[t].mine[o] EXCEPT ![b] = @ + q]]
  <2>10. /\ tx'[t].pc = "line" /\ tx'[t].todo = Tail(tx[t].todo) /\ tx'[t].ready = tx[t].ready
         /\ tx'[t].mine = mine /\ tx'[t].shelf = tx[t].shelf /\ tx'[t].written = tx[t].written
         /\ \A u \in Requests \ {t} : tx'[u] = tx[u]
    BY <2>1, <2>2 DEF Transaction
  <2>11. \A p \in Orders, c \in Batches :
           mine[p][c] = IF <<p, c>> = <<o, b>> THEN tx[t].mine[o][b] + q ELSE tx[t].mine[p][c]
    BY <2>4, <2>7, <2>9 DEF Holdings, Quantities
  <2>12. \A p \in Orders \ {o} : mine[p] = tx[t].mine[p]
    BY <2>9 DEF Holdings
  <2> HIDE DEF mine, o, b, q
  <2>13. Frame(t)
    BY <2>1, <2>10 DEF Frame, locks
  <2>14. /\ Kind(t)' = Kind(t) /\ Left(t)' = Left(t) \ {<<o, b>>} /\ Working(t)' /\ Working(t)
         /\ held' = held /\ status' = status /\ job' = job /\ onHand' = onHand
         /\ orderLock' = orderLock /\ batchLock' = batchLock
    BY <2>1, <2>6, <2>10 DEF Kind, Left, Working, database, locks
  <2>15. Idle(t)'
    BY <2>10, <2>14 DEF Idle
  <2>16. Claimed(t)'
    BY <2>1, <2>7, <2>10, <2>12, <2>14 DEF HInv, Knows, Claimed
  <2>17. Lined(t)'
    BY <2>3, <2>6, <2>10, <2>14 DEF HInv, Knows, Lined
  <2>18. Promising(t)'
    <3> SUFFICES ASSUME NEW p \in tx[t].ready, NEW c \in Batches
                 PROVE  mine[p][c] = Due(t, p, c)'
      BY <2>10, <2>14 DEF Promising
    <3>1. Due(t, p, c)' = IF <<p, c>> \in Left(t) \ {<<o, b>>} THEN 0 ELSE job[t].want[c]
      BY <2>3, <2>14 DEF Due
    <3>2. tx[t].mine[p][c] = IF <<p, c>> \in Left(t) THEN 0 ELSE job[t].want[c]
      BY <2>3, <2>14 DEF HInv, Knows, Promising, Due
    <3>3. CASE <<p, c>> = <<o, b>>
      <4>1. mine[p][c] = 0 + q /\ p = o /\ c = b
        BY <2>6, <2>7, <2>11, <3>2, <3>3
      <4> QED
        BY <2>8, <3>1, <3>3, <4>1 DEF q
    <3>4. CASE <<p, c>> # <<o, b>>
      BY <2>7, <2>11, <3>1, <3>2, <3>4
    <3> QED
      BY <3>3, <3>4
  <2>19. Shelved(t)' /\ Recorded(t)'
    <3>1. \A c \in Batches : Moved(t, c)' = Moved(t, c)
      BY <2>3, <2>14 DEF Moved
    <3> QED
      BY <2>10, <2>14, <3>1 DEF HInv, Knows, Shelved, Recorded
  <2>20. InOrder(t)'
    BY <2>3, <2>10, <2>14, RisesOn
  <2> QED
    BY <2>13, <2>15, <2>16, <2>17, <2>18, <2>19, <2>20, OthersKnow DEF Knows
<1> QED
  BY <1>1, <1>2

\* Counting the holds changes nothing else.
LEMMA StartTakeKnows ==
    ASSUME HInv, NEW t \in Requests, StartTake(t), IInv'
    PROVE  HInv'
<1>1. /\ tx[t].pc = "take" /\ UNCHANGED <<database, locks, job>>
      /\ tx' = [tx EXCEPT ![t].pc = "write", ![t].seen = Promised(HoldsOf(t), LineBatch(t))]
  BY DEF StartTake
<1>2. tx \in [Requests -> Transaction] /\ tx[t] \in Transaction
  BY DEF HInv, IInv, TypeOK
<1>3. /\ tx'[t].pc = "write" /\ tx'[t].todo = tx[t].todo /\ tx'[t].ready = tx[t].ready
      /\ tx'[t].mine = tx[t].mine /\ tx'[t].shelf = tx[t].shelf /\ tx'[t].written = tx[t].written
      /\ \A u \in Requests \ {t} : tx'[u] = tx[u]
  BY <1>1, <1>2 DEF Transaction
<1>4. Frame(t)
  BY <1>1, <1>3 DEF Frame, locks
<1>5. /\ Kind(t)' = Kind(t) /\ Left(t)' = Left(t) /\ Working(t)' /\ Working(t)
      /\ held' = held /\ status' = status /\ job' = job /\ onHand' = onHand
      /\ orderLock' = orderLock /\ batchLock' = batchLock
  BY <1>1, <1>3 DEF Kind, Left, Working, database, locks
<1>6. Idle(t)' /\ Lined(t)' /\ Recorded(t)'
  BY <1>3, <1>5 DEF HInv, Knows, Idle, Lined, Recorded
<1>7. Claimed(t)'
  BY <1>1, <1>3, <1>5 DEF HInv, Knows, Claimed
<1>8. Promising(t)'
  <2>1. \A o \in tx[t].ready, c \in Batches : Due(t, o, c)' = Due(t, o, c)
    BY <1>5 DEF Due
  <2> QED
    BY <1>3, <1>5, <2>1 DEF HInv, Knows, Promising
<1>9. Shelved(t)'
  <2>1. \A c \in Batches : Moved(t, c)' = Moved(t, c)
    BY <1>3, <1>5 DEF Moved, Spent
  <2> QED
    BY <1>3, <1>5, <2>1 DEF HInv, Knows, Shelved
<1>10. InOrder(t)'
  BY <1>1, <1>3, <1>5 DEF HInv, Knows, InOrder
<1> QED
  BY <1>4, <1>6, <1>7, <1>8, <1>9, <1>10, OthersKnow DEF Knows

\* What a dispatched order takes off the shelf is counted in whole units.
LEMMA SpentType ==
    ASSUME IInv, NEW t \in Requests
    PROVE  Spent(t) \in Holdings
<1>1. \A o \in Orders, b \in Batches : held[o][b] \in Nat /\ 0 \in Nat
  BY DEF IInv, TypeOK, Holdings, Quantities
<1> QED
  BY <1>1 DEF Spent, Holdings, Quantities

\* A hand-over that takes an order's units of a batch has spent that much more of that batch.
LEMMA SpentAfter ==
    ASSUME IInv, NEW t \in Requests, NEW o \in Orders, NEW b \in Batches,
           o \in tx[t].ready, <<o, b>> \in Left(t),
           tx'[t].ready = tx[t].ready, Left(t)' = Left(t) \ {<<o, b>>}, held' = held
    PROVE  \A c \in Batches :
             Promised(Spent(t)', c) = IF c = b THEN Promised(Spent(t), c) + held[o][b] ELSE Promised(Spent(t), c)
<1>1. Spent(t) \in Holdings /\ Spent(t)' \in Holdings
  <2>1. \A p \in Orders, c \in Batches : held[p][c] \in Nat /\ 0 \in Nat
    BY DEF IInv, TypeOK, Holdings, Quantities
  <2>2. Spent(t)' = [p \in Orders |-> [c \in Batches |->
          IF p \in tx[t].ready /\ <<p, c>> \notin Left(t) \ {<<o, b>>} THEN held[p][c] ELSE 0]]
    BY DEF Spent
  <2> QED
    BY <2>1, <2>2, SpentType DEF Holdings, Quantities
<1>2. \A p \in Orders, c \in Batches : Spent(t)[p][c] =
        IF p \in tx[t].ready /\ <<p, c>> \notin Left(t) THEN held[p][c] ELSE 0
  BY DEF Spent
<1>3. \A p \in Orders, c \in Batches : Spent(t)'[p][c] =
        IF p \in tx[t].ready /\ <<p, c>> \notin Left(t) \ {<<o, b>>} THEN held[p][c] ELSE 0
  BY DEF Spent
<1>4. Spent(t)[o][b] = 0 /\ Spent(t)'[o][b] = held[o][b]
  BY <1>2, <1>3
<1>5. \A p \in Orders, c \in Batches : p # o \/ c # b => Spent(t)'[p][c] = Spent(t)[p][c]
  <2> TAKE p \in Orders, c \in Batches
  <2> HAVE p # o \/ c # b
  <2>1. <<p, c>> \notin Left(t) \ {<<o, b>>} <=> <<p, c>> \notin Left(t)
    OBVIOUS
  <2> QED
    BY <1>2, <1>3, <2>1
<1>6. held[o][b] \in Nat
  BY DEF IInv, TypeOK, Holdings, Quantities
<1> QED
  BY <1>1, <1>4, <1>5, <1>6, PromisedOneMore

\* A line worked off: its batch is q units down, and a movement of q units says so.
LEMMA DeductedKnows ==
    ASSUME HInv, NEW t \in Requests, tx[t].todo # << >>, NEW q \in Int, NEW mine \in Holdings,
           Free(batchLock[LineBatch(t)], t),
           ShelfOf(t)[LineBatch(t)] - q \in Nat,
           batchLock' = [batchLock EXCEPT ![LineBatch(t)] = t],
           UNCHANGED <<database, orderLock, job>>,
           tx' = [tx EXCEPT ![t] = [Deducted(t, LineBatch(t), q) EXCEPT !.mine = mine]],
           Working(t),
           Kind(t) \in {"sell", "adjust", "dispatch"},
           Kind(t) = "sell" => batchLock[LineBatch(t)] = t,
           q = IF OnShelf(Kind(t)) THEN job[t].want[LineBatch(t)] ELSE held[Line(t)[1]][LineBatch(t)],
           \A p \in Orders \ tx[t].ready : mine[p] = tx[t].mine[p],
           \A p \in tx[t].ready, c \in Batches :
             mine[p][c] = IF <<p, c>> \in Left(t) \ {Line(t)} THEN held[p][c] ELSE 0,
           IInv'
    PROVE  HInv'
<1> DEFINE b == LineBatch(t)
           o == Line(t)[1]
           n == ShelfOf(t)[b]
<1>1. tx \in [Requests -> Transaction] /\ tx[t] \in Transaction
  BY DEF HInv, IInv, TypeOK
<1>2. /\ b \in Batches /\ Line(t) = <<o, b>>
      /\ <<o, b>> \in Left(t) /\ ToSet(Tail(tx[t].todo)) = Left(t) \ {<<o, b>>}
      /\ \A i, j \in 1..Len(Tail(tx[t].todo)) : Tail(tx[t].todo)[i] = Tail(tx[t].todo)[j] => i = j
  BY NextLine DEF HInv, Knows
<1>3. n \in Nat /\ n - q \in Nat
  BY <1>2, SeenTypes DEF HInv, IInv, Quantities
<1> HIDE DEF n
<1>4. /\ tx'[t].pc = "line" /\ tx'[t].todo = Tail(tx[t].todo) /\ tx'[t].ready = tx[t].ready
      /\ tx'[t].mine = mine
      /\ tx'[t].shelf = [tx[t].shelf EXCEPT ![b] = n - q]
      /\ tx'[t].written = [tx[t].written EXCEPT ![b] = Append(@, [quantity |-> -q, balance |-> n - q])]
      /\ \A u \in Requests \ {t} : tx'[u] = tx[u]
  BY <1>1 DEF Deducted, Transaction, n
<1>5. \A c \in Batches : tx'[t].shelf[c] = IF c = b THEN n - q ELSE tx[t].shelf[c]
  BY <1>1, <1>4 DEF Transaction, Quantities
<1>6. \A c \in Batches : tx'[t].written[c] =
        IF c = b THEN Append(tx[t].written[b], [quantity |-> -q, balance |-> n - q]) ELSE tx[t].written[c]
  <2> DEFINE w == Append(tx[t].written[b], [quantity |-> -q, balance |-> n - q])
  <2>1. tx[t].written \in [Batches -> Seq(Movement)] /\ tx'[t].written = [tx[t].written EXCEPT ![b] = w]
    BY <1>1, <1>4 DEF Transaction
  <2> HIDE DEF w
  <2>2. \A c \in Batches : tx'[t].written[c] = IF c = b THEN w ELSE tx[t].written[c]
    BY <2>1
  <2> QED
    BY <2>2 DEF w
<1> HIDE DEF b, o
<1>7. Frame(t)
  BY <1>2, <1>4, RequestsAssumption DEF HInv, IInv, TypeOK, Frame, Free, b
<1>8. \A c \in Batches : batchLock'[c] = t <=> batchLock[c] = t \/ c = b
  BY DEF HInv, IInv, TypeOK, b
<1>9. /\ Kind(t)' = Kind(t) /\ Left(t)' = Left(t) \ {<<o, b>>} /\ Working(t)'
      /\ held' = held /\ status' = status /\ job' = job /\ onHand' = onHand /\ orderLock' = orderLock
  BY <1>2, <1>4 DEF Kind, Left, Working, database
<1>10. tx[t].ready \in SUBSET Orders /\ (OnShelf(Kind(t)) => tx[t].ready = {})
  BY <1>1 DEF HInv, IInv, Placed, Transaction
<1>11. IF OnShelf(Kind(t)) THEN o = NoOrder ELSE o \in tx[t].ready /\ o \in Orders
  <2>1. IF OnShelf(Kind(t)) THEN <<o, b>>[1] = NoOrder ELSE <<o, b>>[1] \in tx[t].ready
    BY <1>2 DEF HInv, Knows, Lined
  <2> QED
    BY <1>10, <2>1
<1>12. Idle(t)'
  BY <1>9 DEF Idle, Working
<1>13. Claimed(t)'
  <2>1. \A p \in Orders : orderLock[p] = t /\ p \notin tx[t].ready => mine[p] = held[p]
    BY DEF HInv, Knows, Claimed
  <2> QED
    BY <1>4, <1>9, <2>1 DEF HInv, Knows, Claimed
<1>14. Lined(t)'
  BY <1>2, <1>4, <1>9 DEF HInv, Knows, Lined, Left
<1>15. Promising(t)'
  <2> SUFFICES ASSUME NEW p \in tx[t].ready, NEW c \in Batches
               PROVE  mine[p][c] = Due(t, p, c)'
    BY <1>4, <1>9 DEF Promising
  <2>1. Kind(t) = "dispatch"
    BY <1>10 DEF OnShelf
  <2>2. Due(t, p, c)' = IF <<p, c>> \in Left(t) \ {<<o, b>>} THEN held[p][c] ELSE 0
    BY <1>9, <2>1 DEF Due, Holds
  <2> QED
    BY <1>2, <2>2
<1>16. \A c \in Batches : n = onHand[b] - Moved(t, b) /\ (batchLock[c] = t => tx[t].shelf[c] = onHand[c] - Moved(t, c))
  <2>1. onHand[b] - 0 = onHand[b]
    BY <1>2 DEF HInv, IInv, TypeOK, Quantities
  <2> QED
    BY <1>2, <2>1 DEF HInv, Knows, Shelved, n, ShelfOf, b
<1>17. \A c \in Batches : Moved(t, c) \in Int /\ Moved(t, c)' = IF c = b THEN Moved(t, c) + q ELSE Moved(t, c)
  <2> TAKE c \in Batches
  <2>1. CASE OnShelf(Kind(t))
    <3>1. job[t].want[c] \in Int
      BY JobsAssumption DEF HInv, IInv, TypeOK, JobType
    <3>2. /\ Moved(t, c) = IF <<NoOrder, c>> \in Left(t) THEN 0 ELSE job[t].want[c]
          /\ Moved(t, c)' = IF <<NoOrder, c>> \in Left(t) \ {<<o, b>>} THEN 0 ELSE job[t].want[c]
      BY <1>9, <2>1 DEF Moved
    <3>3. o = NoOrder /\ q = job[t].want[b]
      BY <1>11, <2>1 DEF b
    <3> QED
      BY <1>2, <3>1, <3>2, <3>3
  <2>2. CASE ~OnShelf(Kind(t))
    <3>1. Kind(t) = "dispatch" /\ o \in tx[t].ready /\ o \in Orders /\ q = held[o][b]
      BY <1>11, <2>2 DEF OnShelf, o, b
    <3>2. Moved(t, c) = Promised(Spent(t), c) /\ Moved(t, c)' = Promised(Spent(t)', c)
      BY <1>9, <3>1, <2>2 DEF Moved
    <3>3. Promised(Spent(t)', c) = IF c = b THEN Promised(Spent(t), c) + q ELSE Promised(Spent(t), c)
      BY <1>2, <1>4, <1>9, <3>1, SpentAfter DEF HInv
    <3>4. Promised(Spent(t), c) \in Nat
      BY SpentType, PromisedFinite DEF HInv
    <3> QED
      BY <3>2, <3>3, <3>4
  <2> QED
    BY <2>1, <2>2
<1>18. Shelved(t)'
  <2> SUFFICES ASSUME NEW c \in Batches
               PROVE  IF batchLock'[c] = t THEN tx'[t].shelf[c] = onHand[c] - Moved(t, c)' ELSE Moved(t, c)' = 0
    BY <1>9 DEF Shelved
  <2>1. CASE c = b
    <3>1. onHand[c] \in Nat /\ Moved(t, c) \in Int /\ Moved(t, c)' = Moved(t, c) + q
      BY <1>17, <2>1 DEF HInv, IInv, TypeOK, Quantities
    <3>2. n = onHand[c] - Moved(t, c) /\ tx'[t].shelf[c] = n - q /\ batchLock'[c] = t
      BY <1>5, <1>8, <1>16, <2>1
    <3> QED
      BY <3>1, <3>2
  <2>2. CASE c # b
    BY <1>5, <1>8, <1>9, <1>16, <1>17, <2>2 DEF HInv, Knows, Shelved
  <2> QED
    BY <2>1, <2>2
<1>19. Recorded(t)'
  <2>1. Continues(tx[t].written[b], onHand[b], n)
    <3>1. CASE batchLock[b] = t
      BY <1>2, <3>1 DEF HInv, Knows, Recorded, ShelfOf, n
    <3>2. CASE batchLock[b] # t
      <4>1. tx[t].written[b] = << >> /\ n = onHand[b]
        BY <1>2, <3>2 DEF HInv, Knows, Recorded, ShelfOf, n
      <4>2. Continues(<< >>, onHand[b], onHand[b])
        BY DEF Continues
      <4> QED
        BY <4>1, <4>2
    <3> QED
      BY <3>1, <3>2
  <2>2. tx[t].written[b] \in Seq(Movement) /\ onHand[b] \in Nat
    BY <1>1, <1>2 DEF HInv, IInv, TypeOK, Transaction, Quantities
  <2>3. Continues(Append(tx[t].written[b], [quantity |-> -q, balance |-> n - q]), onHand[b], n - q)
    BY <1>3, <2>1, <2>2, ContinuesAppend
  <2> QED
    BY <1>5, <1>6, <1>8, <1>9, <2>3 DEF HInv, Knows, Recorded
<1>20. InOrder(t)'
  <2>1. \A c \in Batches : Sorted(Kind(t)) /\ batchLock'[c] = t => batchLock[c] = t
    BY <1>8 DEF Sorted, b
  <2> QED
    BY <1>4, <2>1, RisesOn
<1> QED
  BY <1>7, <1>12, <1>13, <1>14, <1>15, <1>18, <1>19, <1>20, OthersKnow DEF Knows

\* Statements of requests that move units of no order keep what every request knows.
LEMMA ShelfKnows ==
    ASSUME HInv, NEW t \in Requests, TakeFreeStock(t) \/ RestockStock(t), IInv'
    PROVE  HInv'
<1> DEFINE b == LineBatch(t)
           q == job[t].want[b]
<1>1. CASE Fail(t)
  BY <1>1, FailKnows
<1>2. CASE ~Fail(t)
  <2>1. /\ Free(batchLock[b], t) /\ batchLock' = [batchLock EXCEPT ![b] = t]
        /\ tx' = [tx EXCEPT ![t] = Deducted(t, b, q)]
        /\ UNCHANGED <<database, orderLock, job>>
        /\ Working(t)
    BY <1>2 DEF TakeFreeStock, RestockStock, AtLine, Working
  <2>2. tx[t] \in Transaction /\ job[t] \in JobType
    BY JobsAssumption DEF HInv, IInv, TypeOK
  <2>3. tx[t].todo # << >> /\ Kind(t) \in {"sell", "adjust"} /\ OnShelf(Kind(t)) /\ tx[t].ready = {}
    BY DEF HInv, IInv, Placed, TakeFreeStock, RestockStock, AtLine, OnShelf
  <2>4. b \in Batches
    BY <2>3, LineType DEF HInv, IInv
  <2>5. q \in Int /\ ShelfOf(t)[b] \in Nat
    BY <2>2, <2>4, SeenTypes DEF HInv, IInv, JobType, Quantities
  <2>6. ShelfOf(t)[b] - q \in Nat
    <3>1. CASE RestockStock(t)
      BY <2>5, <3>1 DEF RestockStock
    <3>2. CASE TakeFreeStock(t)
      <4>1. ShelfOf(t)[b] - tx[t].seen >= q /\ tx[t].seen \in Nat
        BY <1>2, <2>2, <3>2 DEF TakeFreeStock, FreeStockCovers, Transaction
      <4> QED
        BY <2>5, <4>1
    <3> QED
      BY <3>1, <3>2
  <2>7. Kind(t) = "sell" => batchLock[b] = t
    BY DEF HInv, IInv, Placed, TakeFreeStock, RestockStock, AtLine
  <2>8. tx[t].mine \in Holdings
    BY <2>2 DEF Transaction
  <2>9. tx' = [tx EXCEPT ![t] = [Deducted(t, b, q) EXCEPT !.mine = tx[t].mine]]
    BY <2>1, <2>2 DEF Deducted, Transaction
  <2>10. q = IF OnShelf(Kind(t)) THEN job[t].want[b] ELSE held[Line(t)[1]][b]
    BY <2>3
  <2> HIDE DEF q
  <2> QED
    BY <2>1, <2>3, <2>5, <2>6, <2>7, <2>8, <2>9, <2>10, DeductedKnows
<1> QED
  BY <1>1, <1>2

\* A hand-over takes all its order holds of the batch, which is what was committed.
LEMMA DeductHeldKnows ==
    ASSUME HInv, NEW t \in Requests, DeductHeldStock(t), IInv'
    PROVE  HInv'
<1> DEFINE o == Line(t)[1]
           b == LineBatch(t)
           q == tx[t].mine[o][b]
           mine == [tx[t].mine EXCEPT ![o] = [tx[t].mine[o] EXCEPT ![b] = 0]]
<1>1. CASE Fail(t)
  BY <1>1, FailKnows
<1>2. CASE ~Fail(t)
  <2>1. /\ AtLine(t, {"dispatch"}) /\ Free(batchLock[b], t)
        /\ ShelfOf(t)[b] >= q
        /\ batchLock' = [batchLock EXCEPT ![b] = t]
        /\ UNCHANGED <<database, orderLock, job>>
        /\ tx' = [tx EXCEPT ![t] = [Deducted(t, b, q) EXCEPT !.mine[o][b] = 0]]
    BY <1>2 DEF DeductHeldStock
  <2>2. tx[t] \in Transaction
    BY DEF HInv, IInv, TypeOK
  <2>3. tx[t].todo # << >> /\ Kind(t) = "dispatch" /\ ~OnShelf(Kind(t)) /\ Working(t)
    BY <2>1 DEF AtLine, OnShelf, Working
  <2>4. b \in Batches /\ Line(t) = <<o, b>> /\ <<o, b>> \in Left(t)
    BY <2>3, NextLine DEF HInv, Knows
  <2>5. o \in tx[t].ready /\ o \in Orders
    <3>1. <<o, b>>[1] \in tx[t].ready
      BY <2>3, <2>4 DEF HInv, Knows, Lined
    <3> QED
      BY <2>2, <3>1 DEF Transaction
  <2>6. \A p \in tx[t].ready, c \in Batches :
          tx[t].mine[p][c] = IF <<p, c>> \in Left(t) THEN held[p][c] ELSE 0
    BY <2>3 DEF HInv, Knows, Promising, Due, Holds
  <2>7. q = held[o][b] /\ q \in Nat
    BY <2>4, <2>5, <2>6 DEF HInv, IInv, TypeOK, Holdings, Quantities
  <2>8. tx[t].mine \in Holdings /\ tx[t].mine[o] \in Quantities
    BY <2>2, <2>5 DEF Transaction, Holdings
  <2>9. mine \in Holdings
    <3>1. [tx[t].mine[o] EXCEPT ![b] = 0] \in Quantities
      BY <2>4, <2>8, QuantityUpdate
    <3> QED
      BY <2>5, <2>8, <3>1 DEF Holdings
  <2>10. tx' = [tx EXCEPT ![t] = [Deducted(t, b, q) EXCEPT !.mine = mine]]
    <3>1. Deducted(t, b, q).mine = tx[t].mine
      BY <2>2 DEF Deducted, Transaction
    <3>2. [Deducted(t, b, q) EXCEPT !.mine[o][b] = 0] = [Deducted(t, b, q) EXCEPT !.mine = mine]
      BY <3>1
    <3> QED
      BY <2>1, <3>2
  <2>11. \A p \in Orders, c \in Batches : mine[p][c] = IF p = o /\ c = b THEN 0 ELSE tx[t].mine[p][c]
    BY <2>4, <2>5, <2>8 DEF Holdings, Quantities
  <2>12. \A p \in Orders \ tx[t].ready : mine[p] = tx[t].mine[p]
    BY <2>5, <2>8 DEF Holdings
  <2>13. ShelfOf(t)[b] - q \in Nat
    <3>1. ShelfOf(t)[b] \in Nat
      BY <2>4, SeenTypes DEF HInv, IInv, Quantities
    <3> QED
      BY <2>1, <2>7, <3>1
  <2>14. tx[t].ready \in SUBSET Orders
    BY <2>2 DEF Transaction
  <2> HIDE DEF mine, q, o, b
  <2>15. \A p \in tx[t].ready, c \in Batches : mine[p][c] = IF <<p, c>> \in Left(t) \ {Line(t)} THEN held[p][c] ELSE 0
    <3> TAKE p \in tx[t].ready, c \in Batches
    <3>1. mine[p][c] = IF p = o /\ c = b THEN 0 ELSE IF <<p, c>> \in Left(t) THEN held[p][c] ELSE 0
      BY <2>6, <2>11, <2>14
    <3>2. <<p, c>> \in Left(t) \ {Line(t)} <=> <<p, c>> \in Left(t) /\ ~(p = o /\ c = b)
      BY <2>4
    <3> QED
      BY <3>1, <3>2
  <2>16. q = IF OnShelf(Kind(t)) THEN job[t].want[b] ELSE held[Line(t)[1]][b]
    BY <2>3, <2>7 DEF o
  <2>17. q \in Int
    BY <2>7
  <2> QED
    BY <2>1, <2>3, <2>9, <2>10, <2>12, <2>13, <2>15, <2>16, <2>17, DeductedKnows DEF b
<1> QED
  BY <1>1, <1>2

\* COMMIT adds to each batch's ledger the rows that lead to its new quantity, and leaves each order it
\* changed with what its new status is due.
LEMMA CommitKnows ==
    ASSUME HInv, NEW t \in Requests, Commit(t), IInv'
    PROVE  HInv'
<1>1. /\ onHand' = ShelfOf(t) /\ held' = HoldsOf(t) /\ job' = job
      /\ status' = [o \in Orders |-> IF o \in tx[t].ready THEN StatusAfter(Kind(t)) ELSE status[o]]
      /\ items' = [o \in Orders |-> IF o \in tx[t].ready /\ Holds(Kind(t)) THEN job[t].want ELSE items[o]]
      /\ ledger' = [b \in Batches |-> ledger[b] \o tx[t].written[b]]
      /\ tx' = [tx EXCEPT ![t] = Blank("done", tx[t].attempts)]
      /\ batchLock' = [b \in Batches |-> IF batchLock[b] = t THEN NoRequest ELSE batchLock[b]]
      /\ orderLock' = [o \in Orders |-> IF orderLock[o] = t THEN NoRequest ELSE orderLock[o]]
      /\ tx[t].pc = "line" /\ tx[t].todo = << >>
  BY DEF Commit, Unlock
<1>2. tx \in [Requests -> Transaction] /\ tx[t] \in Transaction /\ NoRequest \notin Requests /\ Kind(t) \in Kinds
  BY RequestsAssumption, JobsAssumption DEF HInv, IInv, TypeOK, Kind, JobType
<1>3. tx'[t] = Blank("done", tx[t].attempts) /\ \A u \in Requests \ {t} : tx'[u] = tx[u]
  BY <1>1, <1>2
<1>4. Left(t) = {} /\ Working(t)
  BY <1>1 DEF Left, ToSet, Working
<1>5. Knows(t)'
  <2>1. (\A b \in Batches : batchLock'[b] # t) /\ (\A o \in Orders : orderLock'[o] # t)
    BY <1>1, <1>2
  <2>2. /\ tx'[t].pc = "done" /\ tx'[t].ready = {} /\ tx'[t].todo = << >>
        /\ \A b \in Batches : tx'[t].written[b] = << >>
    BY <1>3 DEF Blank
  <2>3. Left(t)' = {} /\ ~Working(t)' /\ Len(tx'[t].todo) = 0
    BY <2>2 DEF Left, ToSet, Working
  <2>4. Idle(t)' /\ Claimed(t)' /\ Lined(t)' /\ Promising(t)' /\ Shelved(t)' /\ Recorded(t)' /\ InOrder(t)'
    BY <2>1, <2>2, <2>3 DEF Idle, Claimed, Lined, Promising, Shelved, Recorded, InOrder
  <2> QED
    BY <2>4 DEF Knows
<1>6. ASSUME NEW u \in Requests \ {t}
      PROVE  Knows(u)'
  <2>1. /\ \A b \in Batches : batchLock'[b] = u <=> batchLock[b] = u
        /\ \A o \in Orders : orderLock'[o] = u <=> orderLock[o] = u
    BY <1>1, <1>2
  <2>2. \A b \in Batches : batchLock[b] = u => onHand'[b] = onHand[b]
    BY <1>1 DEF ShelfOf
  <2>3. \A o \in Orders : orderLock[o] = u => held'[o] = held[o] /\ status'[o] = status[o]
    <3> TAKE o \in Orders
    <3> HAVE orderLock[o] = u
    <3>1. orderLock[o] # t /\ o \notin tx[t].ready
      BY DEF HInv, IInv, Placed
    <3> QED
      BY <1>1, <3>1 DEF HoldsOf
  <2> QED
    BY <1>1, <1>3, <2>1, <2>2, <2>3, StillKnows DEF HInv
<1>7. ASSUME NEW b \in Batches
      PROVE  /\ ledger'[b] # << >>
             /\ \A i \in 2..Len(ledger'[b]) : ledger'[b][i].balance = ledger'[b][i - 1].balance + ledger'[b][i].quantity
             /\ Last(ledger'[b]).balance = onHand'[b]
  <2> DEFINE l == ledger[b]
             w == tx[t].written[b]
  <2>1. l \in Seq(Movement) /\ w \in Seq(Movement) /\ l # << >>
    BY <1>2 DEF HInv, History, IInv, TypeOK, Transaction
  <2>2. (\A i \in 2..Len(l) : l[i].balance = l[i - 1].balance + l[i].quantity) /\ l[Len(l)].balance = onHand[b]
    BY DEF HInv, History, LedgerAddsUp, Last
  <2>3. Continues(w, onHand[b], onHand'[b])
    <3>1. CASE batchLock[b] = t
      BY <1>1, <3>1 DEF HInv, Knows, Recorded, ShelfOf
    <3>2. CASE batchLock[b] # t
      BY <1>1, <3>2 DEF HInv, Knows, Recorded, ShelfOf, Continues
    <3> QED
      BY <3>1, <3>2
  <2>4. ledger'[b] = l \o w
    BY <1>1
  <2>5. /\ l \o w # << >>
        /\ \A i \in 2..Len(l \o w) : (l \o w)[i].balance = (l \o w)[i - 1].balance + (l \o w)[i].quantity
        /\ Last(l \o w).balance = onHand'[b]
    <3> HIDE DEF l, w
    <3>1. Continues(w, l[Len(l)].balance, onHand'[b])
      BY <2>2, <2>3
    <3> QED
      BY <2>1, <2>2, <3>1, ContinuesConcat
  <2> HIDE DEF l, w
  <2> QED
    BY <2>4, <2>5
<1>8. ASSUME NEW o \in Orders
      PROVE  held'[o] = IF Open(status'[o]) THEN items'[o] ELSE Nothing
  <2>1. held[o] = IF Open(status[o]) THEN items[o] ELSE Nothing
    BY DEF HInv, History, OpenOrdersHoldTheirLines
  <2>2. CASE o \notin tx[t].ready
    BY <1>1, <2>1, <2>2 DEF HInv, Knows, Claimed, HoldsOf
  <2>3. CASE o \in tx[t].ready
    <3>1. /\ held'[o] = tx[t].mine[o] /\ status'[o] = StatusAfter(Kind(t)) /\ status[o] \in From(Kind(t))
          /\ items'[o] = IF Holds(Kind(t)) THEN job[t].want ELSE items[o]
      <4>1. orderLock[o] = t /\ status[o] \in From(Kind(t))
        BY <2>3 DEF HInv, Knows, IInv, Placed, Claimed
      <4> QED
        BY <1>1, <2>3, <4>1 DEF HoldsOf
    <3>2. ~OnShelf(Kind(t)) /\ tx[t].mine[o] \in [Batches -> Nat] /\ held[o] \in [Batches -> Nat]
      BY <1>2, <2>3 DEF HInv, IInv, TypeOK, Placed, Transaction, Holdings, Quantities
    <3>3. \A b \in Batches : tx[t].mine[o][b] = Due(t, o, b)
      BY <1>4, <2>3 DEF HInv, Knows, Promising
    <3>4. CASE Holds(Kind(t))
      <4>1. job[t].want \in [Batches -> Nat]
        BY <3>4, JobsAssumption DEF HInv, IInv, TypeOK, Kind, Holds, Quantities
      <4>2. \A b \in Batches : tx[t].mine[o][b] = job[t].want[b]
        <5> TAKE b \in Batches
        <5>1. <<o, b>> \notin Left(t)
          BY <1>4
        <5>2. Due(t, o, b) = job[t].want[b]
          BY <3>4, <5>1 DEF Due, Holds
        <5> QED
          BY <3>3, <5>2
      <4>3. tx[t].mine[o] = job[t].want
        BY <3>2, <4>1, <4>2
      <4>4. Open(status'[o])
        BY <3>1, <3>4 DEF Holds, StatusAfter, Open
      <4> QED
        BY <3>1, <3>4, <4>3, <4>4
    <3>5. CASE Kind(t) = "confirm"
      <4>1. ~Holds(Kind(t)) /\ Open(status[o]) /\ Open(status'[o])
        BY <3>1, <3>5 DEF Holds, From, StatusAfter, Open
      <4>2. \A b \in Batches : tx[t].mine[o][b] = held[o][b]
        BY <3>3, <3>5, <4>1 DEF Due
      <4>3. tx[t].mine[o] = held[o]
        BY <3>2, <4>2
      <4> QED
        BY <2>1, <3>1, <4>1, <4>3
    <3>6. CASE Kind(t) \in {"cancel", "dispatch"}
      <4>1. ~Holds(Kind(t)) /\ ~Open(status'[o])
        BY <3>1, <3>6 DEF Holds, StatusAfter, Open
      <4>2. \A b \in Batches : tx[t].mine[o][b] = 0
        BY <1>4, <3>3, <3>6, <4>1 DEF Due
      <4>3. tx[t].mine[o] = Nothing
        BY <3>2, <4>2 DEF Nothing
      <4> QED
        BY <3>1, <4>1, <4>3
    <3> QED
      BY <1>2, <3>2, <3>4, <3>5, <3>6 DEF Kinds, Holds, OnShelf
  <2> QED
    BY <2>2, <2>3
<1>9. History'
  BY <1>7, <1>8 DEF History, LedgerAddsUp, OpenOrdersHoldTheirLines
<1> QED
  BY <1>5, <1>6, <1>9 DEF HInv

-----------------------------------------------------------------------------
(* The history *)

\* Nothing is promised, moved or known at first but what is on hand.
LEMMA InitHInv == Init => HInv
<1> SUFFICES ASSUME Init PROVE HInv
  OBVIOUS
<1>1. IInv
  BY InitIInv
<1>2. PICK s \in Openings : held = s.held /\ status = s.status /\ items = s.held
  BY DEF Init
<1>3. /\ \A b \in Batches : batchLock[b] = NoRequest
      /\ \A o \in Orders : orderLock[o] = NoRequest
      /\ \A t \in Requests : tx[t] = Blank("begin", 0)
  BY DEF Init
<1>4. History
  <2>1. OpenOrdersHoldTheirLines
    BY <1>2, OpeningsAssumption DEF OpenOrdersHoldTheirLines
  <2>2. ASSUME NEW b \in Batches
        PROVE  /\ ledger[b] # << >>
               /\ \A i \in 2..Len(ledger[b]) : ledger[b][i].balance = ledger[b][i - 1].balance + ledger[b][i].quantity
               /\ Last(ledger[b]).balance = onHand[b]
    <3>1. ledger[b] = << [quantity |-> InitialStock[b], balance |-> InitialStock[b]] >> /\ onHand = InitialStock
      BY DEF Init
    <3>2. Len(ledger[b]) = 1 /\ ledger[b][1].balance = onHand[b]
      BY <3>1
    <3> QED
      BY <3>1, <3>2 DEF Last
  <2> QED
    BY <2>1, <2>2 DEF History, LedgerAddsUp
<1>5. ASSUME NEW t \in Requests
      PROVE  Knows(t)
  <2>1. (\A b \in Batches : batchLock[b] # t) /\ (\A o \in Orders : orderLock[o] # t)
    BY <1>3, RequestsAssumption
  <2>2. /\ tx[t].pc = "begin" /\ tx[t].ready = {} /\ tx[t].todo = << >>
        /\ \A b \in Batches : tx[t].written[b] = << >>
    BY <1>3 DEF Blank
  <2>3. Left(t) = {} /\ ~Working(t) /\ Len(tx[t].todo) = 0
    BY <2>2 DEF Left, ToSet, Working
  <2>4. Idle(t) /\ Claimed(t) /\ Lined(t) /\ Promising(t) /\ Shelved(t) /\ Recorded(t) /\ InOrder(t)
    BY <2>1, <2>2, <2>3 DEF Idle, Claimed, Lined, Promising, Shelved, Recorded, InOrder
  <2> QED
    BY <2>4 DEF Knows
<1> QED
  BY <1>1, <1>4, <1>5 DEF HInv

\* Every statement keeps the invariant.
LEMMA NextHInv == HInv /\ [Next]_vars => HInv'
<1> SUFFICES ASSUME HInv, [Next]_vars PROVE HInv'
  OBVIOUS
<1>0. IInv'
  BY NextIInv DEF HInv
<1>1. CASE UNCHANGED vars
  <2>1. History'
    BY <1>1 DEF HInv, vars, database, History, LedgerAddsUp, OpenOrdersHoldTheirLines
  <2>2. ASSUME NEW u \in Requests
        PROVE  Knows(u)'
    BY <1>1, StillKnows DEF HInv, vars, database, locks
  <2> QED
    BY <1>0, <2>1, <2>2 DEF HInv
<1>2. ASSUME NEW t \in Requests, Statement(t)
      PROVE  HInv'
  <2>1. CASE Begin(t)
    BY <1>0, <2>1, BeginKnows
  <2>2. ASSUME NEW o \in Orders, PlaceOrder(t, o) \/ EditOrder(t, o)
        PROVE  HInv'
    BY <1>0, <2>2, PlaceKnows
  <2>3. ASSUME NEW o \in Orders, ConfirmOrder(t, o) \/ CancelOrder(t, o)
        PROVE  HInv'
    BY <1>0, <2>3, ConfirmKnows
  <2>4. ASSUME NEW o \in Orders, LockParcel(t, o)
        PROVE  HInv'
    BY <2>4, LockParcelKnows
  <2>5. CASE LockBatch(t)
    BY <1>0, <2>5, LockBatchKnows
  <2>6. CASE HoldStock(t)
    BY <1>0, <2>6, HoldStockKnows
  <2>7. CASE StartTake(t)
    BY <1>0, <2>7, StartTakeKnows
  <2>8. CASE TakeFreeStock(t) \/ RestockStock(t)
    BY <1>0, <2>8, ShelfKnows
  <2>9. CASE DeductHeldStock(t)
    BY <1>0, <2>9, DeductHeldKnows
  <2>10. CASE Commit(t)
    BY <1>0, <2>10, CommitKnows
  <2> QED
    BY <1>2, <2>1, <2>2, <2>3, <2>4, <2>5, <2>6, <2>7, <2>8, <2>9, <2>10 DEF Statement
<1>3. ASSUME NEW t \in Requests, LoseConnection(t) \/ BreakDeadlock(t)
      PROVE  HInv'
  <2> DEFINE pc == IF tx[t].attempts < MaxAttempts THEN "begin" ELSE "failed"
  <2>1. CASE Fail(t)
    BY <1>0, <2>1, FailKnows
  <2>2. CASE Rollback(t, pc)
    <3>1. pc \in {"begin", "failed"}
      OBVIOUS
    <3> HIDE DEF pc
    <3> QED
      BY <1>0, <2>2, <3>1, RollbackKnows
  <2> QED
    BY <1>3, <2>1, <2>2 DEF LoseConnection, BreakDeadlock
<1>4. CASE AllAnswered
  BY <1>1, <1>4 DEF AllAnswered
<1> QED
  BY <1>1, <1>2, <1>3, <1>4 DEF Next

\* The movements of every batch add up to its quantity at every row, and a failed or repeated request
\* leaves none behind (stock-movement.js recordMovement).
THEOREM MovementsAddUp == Spec => []LedgerAddsUp
<1>1. HInv => LedgerAddsUp
  BY DEF HInv, History
<1> QED
  BY <1>1, InitHInv, NextHInv, PTL DEF Spec

\* However many requests place, edit, confirm, cancel and hand over orders, an order waiting to leave
\* holds exactly its lines and every other holds nothing (stock-movement.js releaseHolds, holdStock).
THEOREM OrdersHoldTheirLines == Spec => []OpenOrdersHoldTheirLines
<1>1. HInv => OpenOrdersHoldTheirLines
  BY DEF HInv, History
<1> QED
  BY <1>1, InitHInv, NextHInv, PTL DEF Spec

-----------------------------------------------------------------------------
(* Handlers that sort wait in a circle over figures only *)

\* Of finitely many numbers one is the largest.
LEMMA LargestExists ==
    ASSUME NEW F \in SUBSET Nat, IsFiniteSet(F), F # {}
    PROVE  \E m \in F : \A n \in F : n <= m
<1> DEFINE Above(x) == {y \in F : x < y}
           T == {Above(x) : x \in F}
<1>1. IsWellFoundedOn(StrictSubsetOrdering(F), FiniteSubsetsOf(F))
  BY FS_StrictSubsetOrderingWellFounded
<1>2. T \subseteq FiniteSubsetsOf(F)
  BY FS_FiniteSubsetsOfFinite
<1>3. T # {}
  OBVIOUS
<1>4. PICK A \in T : \A B \in T : ~(<<B, A>> \in StrictSubsetOrdering(F))
  <2> HIDE DEF T
  <2> QED
    BY <1>1, <1>2, <1>3, WFMin
<1>5. PICK m \in F : A = Above(m)
  BY <1>4
<1>6. ASSUME NEW n \in F, ~(n <= m)
      PROVE  FALSE
  <2>1. n \in Above(m) /\ n \notin Above(n) /\ Above(n) \subseteq Above(m)
    <3>1. m < n /\ ~(n < n) /\ \A y \in F : n < y => m < y
      <4>1. m \in Nat /\ n \in Nat /\ \A y \in F : y \in Nat
        BY <1>5, <1>6
      <4> HIDE DEF T
      <4> QED
        BY <1>6, <4>1
    <3> QED
      BY <3>1
  <2>2. <<Above(n), Above(m)>> \in StrictSubsetOrdering(F)
    BY <2>1 DEF StrictSubsetOrdering
  <2>3. Above(n) \in T
    OBVIOUS
  <2> QED
    BY <1>4, <1>5, <2>2, <2>3
<1> QED
  BY <1>6

\* A request that waits for figures has the batch they are for locked, and the one that has the figures has
\* another batch of that product.
LEMMA WaitsForFigures ==
    ASSUME HInv, NEW t \in Requests, NEW u \in Requests, u # t,
           WantsFigures(t), HasFigures(u, LineBatch(t))
    PROVE  /\ batchLock[LineBatch(t)] = t
           /\ \E c \in Batches \ {LineBatch(t)} : batchLock[c] = u /\ ProductOf[c] = ProductOf[LineBatch(t)]
<1>1. Placed(t) /\ Recorded(u)
  BY DEF HInv, Knows, IInv
<1>2. batchLock[LineBatch(t)] = t
  BY <1>1 DEF Placed, WantsFigures
<1>3. PICK c \in Batches : tx[u].written[c] # << >> /\ ProductOf[c] = ProductOf[LineBatch(t)]
  BY DEF HasFigures
<1>4. batchLock[c] = u
  BY <1>1, <1>3 DEF Recorded
<1>5. c # LineBatch(t)
  BY <1>2, <1>4
<1> QED
  BY <1>2, <1>3, <1>4, <1>5

\* In a circle of waits without a hand-over or an adjustment, and with nobody waiting for figures, every
\* request is about to lock the batch of its next line: before its order is claimed it has locked nothing
\* for another to wait for.
LEMMA WaitsForItsBatch ==
    ASSUME HInv, NEW S \in SUBSET Requests, Deadlocked(S),
           \A s \in S : Kind(s) \notin {"dispatch", "adjust"},
           \A s, r \in S : s # r => ~(WantsFigures(s) /\ HasFigures(r, LineBatch(s))),
           NEW t \in S
    PROVE  /\ Sorted(Kind(t)) /\ tx[t].pc = "line" /\ tx[t].todo # << >>
           /\ \E u \in S : batchLock[LineBatch(t)] = u
<1>1. PICK v \in S : WaitsFor(t, v)
  BY DEF Deadlocked
<1>2. PICK u \in S : WaitsFor(u, t)
  BY DEF Deadlocked
<1>3. Knows(t) /\ Lined(u) /\ Placed(t) /\ tx[u].unlocked \in SUBSET Orders /\ Kind(t) \in Kinds
  BY JobsAssumption DEF HInv, Knows, IInv, TypeOK, Transaction, Kind, JobType
<1>4. (\E o \in Orders : orderLock[o] = t) \/ \E b \in Batches : batchLock[b] = t
  <2>1. CASE \E o \in tx[u].unlocked : orderLock[o] = t
    BY <1>3, <2>1
  <2>2. CASE tx[u].todo # << >> /\ batchLock[LineBatch(u)] = t
    <3>1. LineBatch(u) \in Batches
      BY <2>2, LineType DEF HInv, IInv
    <3> QED
      BY <2>2, <3>1
  <2> QED
    BY <1>2, <2>1, <2>2 DEF WaitsFor
<1>5. tx[t].pc # "order"
  BY <1>3, <1>4 DEF Knows, Idle, Working
<1>6. tx[t].pc \in {"line", "write"} /\ tx[t].todo # << >> /\ batchLock[LineBatch(t)] = v /\ v # t
  BY <1>1, <1>5 DEF WaitsFor
<1>7. tx[t].pc # "write"
  BY <1>3, <1>6 DEF Placed
<1>8. Sorted(Kind(t))
  BY <1>3, <1>6 DEF Knows, Lined, Kinds, Sorted
<1> QED
  BY <1>6, <1>7, <1>8

\* So each waits for a batch below the one its neighbour waits for, all around the circle, and the
\* request that waits for the largest batch has nobody to wait for.
LEMMA SortedNeverCircle ==
    ASSUME HInv, NEW S \in SUBSET Requests, Deadlocked(S),
           \A s \in S : Kind(s) \notin {"dispatch", "adjust"},
           \A s, r \in S : s # r => ~(WantsFigures(s) /\ HasFigures(r, LineBatch(s)))
    PROVE  FALSE
<1> DEFINE F == {b \in Batches : \E t \in S : LineBatch(t) = b}
<1>1. ASSUME NEW t \in S
      PROVE  LineBatch(t) \in F
  <2>1. tx[t].todo # << >>
    BY WaitsForItsBatch
  <2>2. LineBatch(t) \in Batches
    BY <2>1, LineType DEF HInv, IInv
  <2> QED
    BY <2>2
<1>2. ASSUME NEW t \in S
      PROVE  \E u \in S : LineBatch(t) < LineBatch(u)
  <2>1. PICK u \in S : batchLock[LineBatch(t)] = u
    BY WaitsForItsBatch
  <2>2. Sorted(Kind(u)) /\ tx[u].pc = "line" /\ tx[u].todo # << >>
    BY WaitsForItsBatch
  <2>3. LineBatch(u) = tx[u].todo[1][2] /\ Len(tx[u].todo) \in Nat /\ Len(tx[u].todo) > 0
    BY <2>2, LineType DEF HInv, IInv, LineBatch
  <2>4. InOrder(u) /\ LineBatch(t) \in Batches /\ 1 \in 1..Len(tx[u].todo)
    BY <1>1, <2>3 DEF HInv, Knows
  <2>5. LineBatch(t) < tx[u].todo[1][2]
    BY <2>1, <2>2, <2>4 DEF InOrder
  <2> QED
    BY <2>3, <2>5
<1>3. F \in SUBSET Nat /\ IsFiniteSet(F)
  BY BatchesAssumption, FS_Subset
<1>4. F # {}
  BY <1>1 DEF Deadlocked
<1>5. PICK m \in F : \A n \in F : n <= m
  BY <1>3, <1>4, LargestExists
<1>6. PICK t \in S : LineBatch(t) = m
  BY <1>5
<1>7. PICK u \in S : LineBatch(t) < LineBatch(u)
  BY <1>2
<1>8. LineBatch(u) \in F /\ LineBatch(u) <= m /\ m \in Nat /\ LineBatch(u) \in Nat
  BY <1>1, <1>3, <1>5
<1> QED
  BY <1>6, <1>7, <1>8

\* If somebody waits for figures, that is the circle the property allows.
LEMMA SortedCircleAtFigures == HInv => SortedHandlersMeetOnFigures
<1> SUFFICES ASSUME HInv, NEW S \in SUBSET Requests, Deadlocked(S),
                    ~\E s \in S : Kind(s) \in {"dispatch", "adjust"}
             PROVE  \E t, u \in S :
                      /\ WantsFigures(t) /\ HasFigures(u, LineBatch(t))
                      /\ batchLock[LineBatch(t)] = t
                      /\ \E c \in Batches \ {LineBatch(t)} : batchLock[c] = u /\ ProductOf[c] = ProductOf[LineBatch(t)]
  BY Zenon DEF SortedHandlersMeetOnFigures
<1>1. \E t, u \in S : t # u /\ WantsFigures(t) /\ HasFigures(u, LineBatch(t))
  BY SortedNeverCircle, Zenon
<1>2. PICK t \in S, u \in S : t # u /\ WantsFigures(t) /\ HasFigures(u, LineBatch(t))
  BY <1>1
<1>3. t \in Requests /\ u \in Requests
  OBVIOUS
<1>4. /\ batchLock[LineBatch(t)] = t
      /\ \E c \in Batches \ {LineBatch(t)} : batchLock[c] = u /\ ProductOf[c] = ProductOf[LineBatch(t)]
  BY <1>2, <1>3, WaitsForFigures
<1> QED
  BY <1>2, <1>4

\* However many handlers that sort their batches run at once, they wait for each other in a circle only where
\* one has a batch locked and waits for its product's figures, and the other has those figures through another
\* batch of the same product; over orders and batches alone a circle needs a hand-over or an adjustment
\* (create-online-order.js, update-online-order.js, checkout-pos-sale.js, stock-movement.js
\* incrementProductStat).
THEOREM SortedHandlersDeadlockOnFiguresOnly == Spec => []SortedHandlersMeetOnFigures
BY SortedCircleAtFigures, InitHInv, NextHInv, PTL DEF Spec

-----------------------------------------------------------------------------
(* Every COMMIT is one step of the abstract ledger *)

\* The ledger counts what is promised as the transactions do.
LEMMA LedgerCounts ==
    /\ \A H, b : Ledger!Promised(H, b) = Promised(H, b)
    /\ Ledger!Quantities = Quantities /\ Ledger!Holdings = Holdings /\ Ledger!Nothing = Nothing
    /\ \A q : Ledger!Named(q) = Named(q)
    /\ Ledger!OrderStatus = OrderStatus
BY DEF Ledger!Cardinality, Cardinality, Ledger!Promised, Promised, Ledger!PromisedUnits, PromisedUnits, Ledger!Quantities, Quantities,
       Ledger!Holdings, Holdings, Ledger!Nothing, Nothing, Ledger!Named, Named, Ledger!OrderStatus, OrderStatus

\* What a COMMIT publishes, by what the transaction moved and what its orders are due.
LEMMA CommitEffect ==
    ASSUME HInv, NEW t \in Requests, Commit(t)
    PROVE  /\ onHand' = [b \in Batches |-> onHand[b] - Moved(t, b)]
           /\ held' = [o \in Orders |-> IF o \in tx[t].ready THEN [b \in Batches |-> Due(t, o, b)] ELSE held[o]]
           /\ status' = [o \in Orders |-> IF o \in tx[t].ready THEN StatusAfter(Kind(t)) ELSE status[o]]
           /\ Left(t) = {} /\ tx[t].ready \in SUBSET Orders
           /\ \A o \in tx[t].ready : status[o] \in From(Kind(t))
<1>1. /\ onHand' = ShelfOf(t) /\ held' = HoldsOf(t)
      /\ status' = [o \in Orders |-> IF o \in tx[t].ready THEN StatusAfter(Kind(t)) ELSE status[o]]
      /\ tx[t].pc = "line" /\ tx[t].todo = << >>
  BY DEF Commit
<1>2. Working(t) /\ Left(t) = {}
  BY <1>1 DEF Working, Left, ToSet
<1>3. TypeOK /\ Placed(t) /\ Claimed(t) /\ Promising(t) /\ Shelved(t)
  BY DEF HInv, IInv, Knows
<1>4. tx[t] \in Transaction /\ tx[t].ready \in SUBSET Orders /\ tx[t].mine \in Holdings
  BY <1>3 DEF TypeOK, Transaction
<1>5. ASSUME NEW b \in Batches
      PROVE  ShelfOf(t)[b] = onHand[b] - Moved(t, b)
  <2>1. onHand[b] \in Nat
    BY <1>3 DEF TypeOK, Quantities
  <2>2. CASE batchLock[b] = t
    BY <1>2, <1>3, <2>2 DEF Shelved, ShelfOf
  <2>3. CASE batchLock[b] # t
    BY <1>2, <1>3, <2>1, <2>3 DEF Shelved, ShelfOf
  <2> QED
    BY <2>2, <2>3
<1>6. ASSUME NEW o \in Orders
      PROVE  HoldsOf(t)[o] = IF o \in tx[t].ready THEN [b \in Batches |-> Due(t, o, b)] ELSE held[o]
  <2>1. CASE o \in tx[t].ready
    <3>1. HoldsOf(t)[o] = tx[t].mine[o]
      BY <1>3, <2>1 DEF Placed, HoldsOf
    <3>2. tx[t].mine[o] \in [Batches -> Nat]
      BY <1>4 DEF Holdings, Quantities
    <3>3. \A b \in Batches : tx[t].mine[o][b] = Due(t, o, b)
      BY <1>2, <1>3, <2>1 DEF Promising
    <3>4. tx[t].mine[o] = [b \in Batches |-> tx[t].mine[o][b]]
      BY <3>2
    <3>5. tx[t].mine[o] = [b \in Batches |-> Due(t, o, b)]
      BY <3>3, <3>4
    <3> QED
      BY <2>1, <3>1, <3>5
  <2>2. CASE o \notin tx[t].ready
    BY <1>3, <2>2 DEF Claimed, HoldsOf
  <2> QED
    BY <2>1, <2>2
<1>7. ShelfOf(t) = [b \in Batches |-> onHand[b] - Moved(t, b)]
  BY <1>5 DEF ShelfOf
<1>8. HoldsOf(t) = [o \in Orders |-> IF o \in tx[t].ready THEN [b \in Batches |-> Due(t, o, b)] ELSE held[o]]
  BY <1>6 DEF HoldsOf
<1> QED
  BY <1>1, <1>2, <1>3, <1>4, <1>7, <1>8 DEF Claimed

\* A request that moves no stock of its own leaves the shelf as it was.
LEMMA ShelfUntouched ==
    ASSUME TypeOK, NEW t \in Requests, ~OnShelf(Kind(t)), Kind(t) # "dispatch"
    PROVE  [b \in Batches |-> onHand[b] - Moved(t, b)] = onHand
<1>1. \A b \in Batches : Moved(t, b) = 0 /\ onHand[b] \in Nat
  BY DEF Moved, TypeOK, Quantities
<1> QED
  BY <1>1 DEF TypeOK, Quantities

\* Placing and editing an order.
LEMMA CommitHolds ==
    ASSUME HInv, IInv', NEW t \in Requests, Commit(t), Holds(Kind(t))
    PROVE  Ledger!Next
<1> DEFINE q == job[t].want
<1>1. TypeOK /\ ~OnShelf(Kind(t)) /\ Kind(t) # "dispatch" /\ tx[t].pc = "line" /\ Claimed(t)
  BY DEF HInv, IInv, Knows, Holds, OnShelf, Commit
<1>2. PICK o \in Orders : tx[t].ready = {o}
  BY <1>1 DEF Claimed, Working
<1>3. q \in Quantities /\ q \in {j.want : j \in Jobs}
  BY <1>1, JobsAssumption DEF TypeOK, Kind, Holds
<1>4. [b \in Batches |-> Due(t, o, b)] = q
  <2>1. \A b \in Batches : Due(t, o, b) = q[b]
    <3>1. Left(t) = {}
      BY CommitEffect
    <3> HIDE DEF q
    <3> QED
      BY <3>1 DEF Due, q, Holds
  <2> QED
    BY <1>3, <2>1 DEF Quantities
<1>5. held' = [held EXCEPT ![o] = q] /\ onHand' = onHand
  BY <1>1, <1>2, <1>4, CommitEffect, ShelfUntouched DEF TypeOK, Holdings
<1>6. status' = [status EXCEPT ![o] = "Pending"] /\ status[o] = IF Kind(t) = "place" THEN "Draft" ELSE "Pending"
  BY <1>1, <1>2, CommitEffect DEF TypeOK, Holds, StatusAfter, From
<1>7. Ledger!Covers(onHand, held', q)
  BY <1>5, LedgerCounts DEF IInv, HeldWithinOnHand, Ledger!Covers, Named
<1> HIDE DEF q
<1>8. Ledger!Place(o, q) \/ Ledger!Edit(o, q)
  BY <1>5, <1>6, <1>7 DEF Ledger!Place, Ledger!Edit, Ledger!Hold
<1> QED
  BY <1>3, <1>8, LedgerCounts DEF Ledger!Next

\* Confirming and cancelling one.
LEMMA CommitDecides ==
    ASSUME HInv, NEW t \in Requests, Commit(t), Kind(t) \in {"confirm", "cancel"}
    PROVE  Ledger!Next
<1>1. TypeOK /\ ~OnShelf(Kind(t)) /\ Kind(t) # "dispatch" /\ ~Holds(Kind(t)) /\ tx[t].pc = "line" /\ Claimed(t)
  BY DEF HInv, IInv, Knows, Holds, OnShelf, Commit
<1>2. PICK o \in Orders : tx[t].ready = {o}
  BY <1>1 DEF Claimed, Working
<1>3. onHand' = onHand
  BY <1>1, CommitEffect, ShelfUntouched
<1>4. status' = [status EXCEPT ![o] = StatusAfter(Kind(t))] /\ status[o] \in From(Kind(t))
  BY <1>1, <1>2, CommitEffect DEF TypeOK
<1>5. held' = [held EXCEPT ![o] = [b \in Batches |-> Due(t, o, b)]]
  BY <1>1, <1>2, CommitEffect DEF TypeOK, Holdings
<1>6. CASE Kind(t) = "confirm"
  <2>1. \A b \in Batches : Due(t, o, b) = held[o][b]
    BY <1>1, <1>6 DEF Due
  <2>2. held' = held
    BY <1>1, <1>5, <2>1 DEF TypeOK, Holdings, Quantities
  <2>3. Ledger!Confirm(o)
    BY <1>3, <1>4, <1>6, <2>2 DEF Ledger!Confirm, StatusAfter, From
  <2> QED
    BY <2>3 DEF Ledger!Next
<1>7. CASE Kind(t) = "cancel"
  <2>1. \A b \in Batches : Due(t, o, b) = 0
    BY <1>1, <1>7 DEF Due
  <2>2. held' = [held EXCEPT ![o] = Nothing]
    BY <1>5, <2>1 DEF Nothing
  <2>3. Ledger!Cancel(o)
    BY <1>3, <1>4, <1>7, <2>2, LedgerCounts DEF Ledger!Cancel, StatusAfter, From
  <2> QED
    BY <2>3 DEF Ledger!Next
<1> QED
  BY <1>6, <1>7

\* A hand-over takes off the shelf what its orders were promised, and they keep no promise.
LEMMA CommitHandsOver ==
    ASSUME HInv, IInv', NEW t \in Requests, Commit(t), Kind(t) = "dispatch"
    PROVE  Ledger!Next
<1> DEFINE S == tx[t].ready
<1>1. TypeOK /\ held' \in Holdings /\ onHand' \in Quantities /\ S \in SUBSET Orders
  BY CommitEffect DEF HInv, IInv, TypeOK
<1>2. \A o \in S : status[o] = "Confirmed"
  BY CommitEffect DEF From
<1>3. status' = [o \in Orders |-> IF o \in S THEN "Dispatched" ELSE status[o]]
  BY CommitEffect DEF StatusAfter
<1>4. held' = [o \in Orders |-> IF o \in S THEN Nothing ELSE held[o]]
  <2>1. \A o \in Orders, b \in Batches : Due(t, o, b) = 0
    BY CommitEffect DEF Due, Holds
  <2>2. \A o \in Orders : [b \in Batches |-> Due(t, o, b)] = Nothing
    BY <2>1 DEF Nothing
  <2> QED
    BY <2>2, CommitEffect
<1>5. ASSUME NEW b \in Batches
      PROVE  onHand'[b] = onHand[b] - (Promised(held, b) - Promised(held', b))
  <2>1. onHand'[b] = onHand[b] - Promised(Spent(t), b)
    BY CommitEffect DEF Moved, OnShelf
  <2>2. \A o \in Orders : IF o \in S THEN Spent(t)[o][b] = held[o][b] /\ held'[o][b] = 0
                                     ELSE held'[o][b] = held[o][b] /\ Spent(t)[o][b] = 0
    BY <1>4, CommitEffect DEF Spent, Nothing
  <2>3. Spent(t) \in Holdings /\ held \in Holdings
    BY <1>1, SpentType DEF HInv, TypeOK
  <2> DEFINE D == Spent(t)
             G == held'
  <2>4. Promised(held, b) = Promised(held', b) + Promised(Spent(t), b)
    <3>1. D \in Holdings /\ G \in Holdings
      BY <1>1, <2>3
    <3>2. \A o \in Orders : \/ D[o][b] = held[o][b] /\ G[o][b] = 0
                            \/ G[o][b] = held[o][b] /\ D[o][b] = 0
      BY <2>2
    <3> HIDE DEF S, D, G
    <3>3. Promised(held, b) = Promised(G, b) + Promised(D, b)
      BY <2>3, <3>1, <3>2, PromisedSplit
    <3> QED
      BY <3>3 DEF D, G
  <2>5. Promised(held', b) \in Nat /\ Promised(Spent(t), b) \in Nat /\ onHand[b] \in Nat
    BY <1>1, <2>3, PromisedFinite DEF TypeOK, Quantities
  <2> QED
    BY <2>1, <2>4, <2>5
<1>6. onHand' = [b \in Batches |-> onHand[b] - (Promised(held, b) - Promised(held', b))]
  BY <1>1, <1>5 DEF Quantities
<1> HIDE DEF S
<1>7. Ledger!HandOver(S)
  BY <1>2, <1>3, <1>4, <1>6, LedgerCounts DEF Ledger!HandOver
<1> QED
  BY <1>1, <1>7 DEF Ledger!Next

\* A sale, a gift, a loss, a return or a corrected count.
LEMMA CommitMoves ==
    ASSUME HInv, IInv', NEW t \in Requests, Commit(t), OnShelf(Kind(t))
    PROVE  Ledger!Next
<1> DEFINE q == job[t].want
<1>1. TypeOK /\ tx[t].ready = {} /\ onHand' \in Quantities
  BY DEF HInv, IInv, TypeOK, Placed
<1>2. q \in [Batches -> Int] /\ q \in {j.want : j \in Jobs}
  BY <1>1, JobsAssumption DEF TypeOK, JobType
<1>3. \A b \in Batches : Moved(t, b) = q[b]
  BY CommitEffect DEF Moved
<1>4. onHand' = [b \in Batches |-> onHand[b] - q[b]]
  BY <1>3, CommitEffect
<1>5. held' = held /\ status' = status
  <2>1. held' = [o \in Orders |-> held[o]] /\ status' = [o \in Orders |-> status[o]]
    BY <1>1, CommitEffect
  <2> QED
    BY <1>1, <2>1 DEF TypeOK, Holdings
<1>6. \A b \in Batches : q[b] <= onHand[b]
  <2> TAKE b \in Batches
  <2>1. onHand'[b] \in Nat /\ onHand[b] \in Nat /\ q[b] \in Int /\ onHand'[b] = onHand[b] - q[b]
    BY <1>1, <1>2, <1>4 DEF TypeOK, Quantities
  <2> HIDE DEF q
  <2> QED
    BY <2>1
<1>7. Ledger!Covers(onHand', held, q)
  BY <1>5, LedgerCounts DEF IInv, HeldWithinOnHand, Ledger!Covers, Named
<1> HIDE DEF q
<1>8. Ledger!Move(q)
  BY <1>4, <1>5, <1>6, <1>7 DEF Ledger!Move
<1> QED
  BY <1>2, <1>8 DEF Ledger!Next

\* Every other statement leaves the committed quantities, holds and statuses alone.
LEMMA OthersStutter ==
    ASSUME [Next]_vars, ~\E t \in Requests : Commit(t)
    PROVE  UNCHANGED <<onHand, held, status>>
<1>1. \A t \in Requests : \A pc : Rollback(t, pc) => UNCHANGED <<onHand, held, status>>
  BY DEF Rollback, database
<1>2. \A t \in Requests : Fail(t) => UNCHANGED <<onHand, held, status>>
  BY <1>1 DEF Fail
<1>3. CASE UNCHANGED vars \/ AllAnswered
  BY <1>3 DEF vars, database, AllAnswered
<1>4. ASSUME NEW t \in Requests, LoseConnection(t) \/ BreakDeadlock(t)
      PROVE  UNCHANGED <<onHand, held, status>>
  BY <1>1, <1>2, <1>4 DEF LoseConnection, BreakDeadlock
<1>5. ASSUME NEW t \in Requests, Statement(t)
      PROVE  UNCHANGED <<onHand, held, status>>
  <2>1. \A o, from, own, S : ClaimOrder(t, o, from, own, S) => UNCHANGED <<onHand, held, status>>
    BY <1>2 DEF ClaimOrder, database
  <2>2. ASSUME NEW o \in Orders,
               PlaceOrder(t, o) \/ EditOrder(t, o) \/ ConfirmOrder(t, o) \/ CancelOrder(t, o) \/ LockParcel(t, o)
        PROVE  UNCHANGED <<onHand, held, status>>
    BY <1>2, <2>1, <2>2 DEF PlaceOrder, EditOrder, ConfirmOrder, CancelOrder, LockParcel, database
  <2>3. CASE Begin(t) \/ LockBatch(t) \/ HoldStock(t) \/ StartTake(t)
    BY <1>2, <2>3 DEF Begin, LockBatch, HoldStock, StartTake, database
  <2>4. CASE TakeFreeStock(t) \/ DeductHeldStock(t) \/ RestockStock(t)
    BY <1>2, <2>4 DEF TakeFreeStock, DeductHeldStock, RestockStock, database
  <2> QED
    BY <1>5, <2>2, <2>3, <2>4 DEF Statement
<1> QED
  BY <1>3, <1>4, <1>5 DEF Next

\* A statement is a step of the ledger when it commits, and changes nothing of it otherwise.
LEMMA StepOfLedger ==
    ASSUME HInv, HInv', [Next]_vars
    PROVE  [Ledger!Next]_(Ledger!vars)
<1>1. ASSUME NEW t \in Requests, Commit(t)
      PROVE  Ledger!Next
  <2>1. IInv' /\ Kind(t) \in Kinds
    BY JobsAssumption DEF HInv, IInv, TypeOK, Kind, JobType
  <2> QED
    BY <1>1, <2>1, CommitHolds, CommitDecides, CommitHandsOver, CommitMoves DEF Kinds, Holds, OnShelf
<1>2. CASE ~\E t \in Requests : Commit(t)
  BY <1>2, OthersStutter DEF Ledger!vars
<1> QED
  BY <1>1, <1>2

\* However the statements of the transactions interleave, fail and are run again, what is committed
\* behaves as if each request took effect at one instant, and found the units it needed then
\* (database.js execute_transaction, stock-movement.js).
THEOREM TransactionsImplementLedger == Spec => ImplementsLedger
<1>1. HInv => TypeOK /\ HeldWithinOnHand
  BY DEF HInv, IInv
<1>2. Init => Ledger!Init
  BY <1>1, InitHInv, LedgerCounts DEF TypeOK, HeldWithinOnHand, Ledger!Init, Ledger!TypeOK, Ledger!HeldWithinOnHand
<1>3. HInv /\ HInv' /\ [Next]_vars => [Ledger!Next]_(Ledger!vars)
  BY StepOfLedger
<1> QED
  BY <1>2, <1>3, InitHInv, NextHInv, PTL DEF Spec, ImplementsLedger, Ledger!Spec

-----------------------------------------------------------------------------
(* The abstract ledger never promises a unit twice *)

\* What the ledger keeps true, in the words of the transactions.
LedgerFits(stock, H, stands) ==
    /\ stock \in Quantities /\ H \in Holdings /\ stands \in [Orders -> OrderStatus]
    /\ \A b \in Batches : Promised(H, b) <= stock[b]

LEMMA CountType ==
    ASSUME NEW H \in Holdings, NEW b \in Batches
    PROVE  Promised(H, b) \in Nat
BY PromisedFinite

\* What is named by q is covered; on every other batch the promises did not grow nor the stock fall.
LEMMA CoveredAfter ==
    ASSUME NEW stock, NEW H, NEW q, Ledger!Covers(stock, H, q),
           \A b \in Batches : ~(q[b] > 0) => Promised(H, b) <= stock[b]
    PROVE  \A b \in Batches : Promised(H, b) <= stock[b]
BY LedgerCounts DEF Ledger!Covers, Named

LEMMA LedgerHoldKeeps ==
    ASSUME LedgerFits(onHand, held, status), NEW o \in Orders, NEW q \in Quantities, NEW from, NEW to \in OrderStatus,
           Ledger!Hold(o, q, from, to)
    PROVE  LedgerFits(onHand', held', status')
<1>1. held' \in Holdings /\ status' \in [Orders -> OrderStatus] /\ onHand' = onHand /\ Ledger!Covers(onHand, held', q)
      /\ held' = [held EXCEPT ![o] = q]
  BY DEF LedgerFits, Ledger!Hold, Holdings
<1>2. ASSUME NEW b \in Batches, ~(q[b] > 0)
      PROVE  Promised(held', b) <= onHand[b]
  <2>1. q[b] = 0
    BY <1>2 DEF Quantities
  <2>2. \A p \in Orders : held'[p][b] <= held[p][b]
    BY <1>1, <2>1 DEF LedgerFits, Holdings, Quantities
  <2>3. Promised(held', b) <= Promised(held, b)
    BY <1>1, <2>2, PromisedMono DEF LedgerFits
  <2> QED
    BY <1>1, <2>3, CountType DEF LedgerFits, Quantities
<1>3. \A b \in Batches : Promised(held', b) <= onHand[b]
  BY <1>1, <1>2, CoveredAfter
<1> QED
  BY <1>1, <1>3 DEF LedgerFits

LEMMA LedgerCancelKeeps ==
    ASSUME LedgerFits(onHand, held, status), NEW o \in Orders, Ledger!Cancel(o)
    PROVE  LedgerFits(onHand', held', status')
<1>1. Nothing \in Quantities
  BY DEF Nothing, Quantities
<1>2. /\ held' = [held EXCEPT ![o] = Nothing] /\ held' \in Holdings
      /\ status' \in [Orders -> OrderStatus] /\ onHand' = onHand
  BY <1>1, LedgerCounts DEF LedgerFits, Ledger!Cancel, Holdings, OrderStatus
<1>3. ASSUME NEW b \in Batches
      PROVE  Promised(held', b) <= onHand[b]
  <2>1. \A p \in Orders : held'[p][b] <= held[p][b]
    BY <1>2 DEF LedgerFits, Holdings, Quantities, Nothing
  <2>2. Promised(held', b) <= Promised(held, b)
    BY <1>2, <2>1, PromisedMono DEF LedgerFits
  <2> QED
    BY <1>2, <2>2, CountType DEF LedgerFits, Quantities
<1> QED
  BY <1>2, <1>3 DEF LedgerFits

LEMMA LedgerHandOverKeeps ==
    ASSUME LedgerFits(onHand, held, status), NEW S \in SUBSET Orders, Ledger!HandOver(S)
    PROVE  LedgerFits(onHand', held', status')
<1>1. Nothing \in Quantities
  BY DEF Nothing, Quantities
<1>2. /\ held' \in Holdings /\ status' \in [Orders -> OrderStatus]
      /\ onHand' = [b \in Batches |-> onHand[b] - (Promised(held, b) - Promised(held', b))]
  BY <1>1, LedgerCounts DEF LedgerFits, Ledger!HandOver, Holdings, OrderStatus
<1>3. ASSUME NEW b \in Batches
      PROVE  onHand'[b] \in Nat /\ Promised(held', b) <= onHand'[b]
  <2>1. Promised(held, b) \in Nat /\ Promised(held', b) \in Nat
    BY <1>2, CountType DEF LedgerFits
  <2>2. onHand[b] \in Nat /\ Promised(held, b) <= onHand[b]
    BY DEF LedgerFits, Quantities
  <2>3. onHand'[b] = onHand[b] - (Promised(held, b) - Promised(held', b))
    BY <1>2
  <2> QED
    BY <2>1, <2>2, <2>3
<1>4. onHand' \in Quantities
  BY <1>2, <1>3 DEF Quantities
<1> QED
  BY <1>2, <1>3, <1>4 DEF LedgerFits

LEMMA LedgerMoveKeeps ==
    ASSUME LedgerFits(onHand, held, status), NEW q \in [Batches -> Int], Ledger!Move(q)
    PROVE  LedgerFits(onHand', held', status')
<1>1. /\ onHand' = [b \in Batches |-> onHand[b] - q[b]] /\ onHand' \in Quantities
      /\ held' = held /\ status' = status /\ Ledger!Covers(onHand', held, q)
  BY DEF LedgerFits, Ledger!Move, Quantities
<1>2. ASSUME NEW b \in Batches, ~(q[b] > 0)
      PROVE  Promised(held, b) <= onHand'[b]
  <2>1. Promised(held, b) \in Nat /\ onHand[b] \in Nat /\ Promised(held, b) <= onHand[b]
    BY CountType DEF LedgerFits, Quantities
  <2>2. onHand'[b] = onHand[b] - q[b] /\ q[b] \in Int
    BY <1>1
  <2> QED
    BY <1>2, <2>1, <2>2
<1>3. \A b \in Batches : Promised(held, b) <= onHand'[b]
  BY <1>1, <1>2, CoveredAfter
<1> QED
  BY <1>1, <1>3 DEF LedgerFits

LEMMA LedgerNextKeeps ==
    ASSUME LedgerFits(onHand, held, status), [Ledger!Next]_(Ledger!vars)
    PROVE  LedgerFits(onHand', held', status')
<1>1. CASE \E o \in Orders : Ledger!Confirm(o)
  BY <1>1 DEF LedgerFits, Ledger!Confirm, OrderStatus
<1>2. CASE \E o \in Orders : Ledger!Cancel(o)
  BY <1>2, LedgerCancelKeeps
<1>3. CASE \E o \in Orders, q \in {j.want : j \in Jobs} \cap Quantities : Ledger!Place(o, q) \/ Ledger!Edit(o, q)
  BY <1>3, LedgerHoldKeeps DEF Ledger!Place, Ledger!Edit, OrderStatus
<1>4. CASE \E S \in SUBSET Orders : Ledger!HandOver(S)
  BY <1>4, LedgerHandOverKeeps
<1>5. CASE \E q \in {j.want : j \in Jobs} \cap [Batches -> Int] : Ledger!Move(q)
  BY <1>5, LedgerMoveKeeps
<1>6. CASE UNCHANGED Ledger!vars
  BY <1>6 DEF LedgerFits, Ledger!vars
<1> QED
  BY <1>1, <1>2, <1>3, <1>4, <1>5, <1>6, LedgerCounts DEF Ledger!Next

\* The promise of the stock helpers, and not only the code that keeps it, excludes a unit promised
\* twice or taken from an order that was promised it (stock-movement.js, its opening comment).
THEOREM LedgerNeverPromisesTwice == Ledger!Spec => []Ledger!HeldWithinOnHand
<1>1. Ledger!Init => LedgerFits(onHand, held, status)
  BY LedgerCounts DEF Ledger!Init, Ledger!TypeOK, Ledger!HeldWithinOnHand, LedgerFits
<1>2. LedgerFits(onHand, held, status) /\ [Ledger!Next]_(Ledger!vars) => LedgerFits(onHand', held', status')
  BY LedgerNextKeeps
<1>3. LedgerFits(onHand, held, status) => Ledger!HeldWithinOnHand
  BY LedgerCounts DEF Ledger!HeldWithinOnHand, LedgerFits
<1> DEFINE F == LedgerFits(onHand, held, status)
<1>4. F /\ [Ledger!Next]_(Ledger!vars) => F'
  BY <1>2 DEF LedgerFits
<1>5. (Ledger!Init => F) /\ (F => Ledger!HeldWithinOnHand)
  BY <1>1, <1>3
<1> HIDE DEF F
<1> QED
  BY <1>4, <1>5, PTL DEF Ledger!Spec
=============================================================================
