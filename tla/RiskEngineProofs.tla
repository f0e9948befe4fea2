--------------------------- MODULE RiskEngineProofs ---------------------------
(***************************************************************************)
(* Proofs about the books of risk.  The invariant follows an order from    *)
(* the exchange (LifeInv) over what the queue still owes risk (BookInv) to *)
(* the books: the position (PositionMatchesFills), the cost and the profit *)
(* (TradesAreAccounted), the counts (CountInv), the margin (MarginInv) and *)
(* the levels for self trades (LevelInv, KeyInv).                          *)
(* Between its two halves update_risk has booked the symbol and not the    *)
(* account: the account of the invariants is the one the second half will  *)
(* leave.                                                                  *)
(***************************************************************************)
EXTENDS RiskEngine, Lemmas, SequenceTheorems

Statuses == {"Unknown", "New", "Partial", "Filled", "Cancelled", "Deleted", "Replaced",
             "Expired", "CancelRequest"}
OrderRecs == [side : Sides, price : Int, quantity : Int, filled : Nat, remaining : Int, last_exec : Nat,
              replaced : Int, cancelled_count : Nat, new : BOOLEAN, status : Statuses]
ExRecs == [phase : {"idle", "asked", "sent", "refused", "live", "done", "gone"}, price : Nat, leaves : Nat,
           value : Nat, even : BOOLEAN]
SeenRecs == [side : Sides, price : Int, filled : Nat, remaining : Int, expired : BOOLEAN, new : BOOLEAN,
             value : Nat, at : SUBSET Int]
Updates == [o : Orders \cup {nullptr}, book : {"none", "account", "status"}, nominal : Int, notional : Int,
            replaced : Int]
Told == {"New", "Partial", "Replaced"}

\* The orders, at the store, at the exchange and as risk has seen them.
OrderType == /\ flow \in Flows
             /\ order \in [Orders -> OrderRecs]
             /\ ex \in [Orders -> ExRecs]
             /\ seen \in [Orders -> SeenRecs]
             /\ drift \subseteq Orders /\ again \subseteq Orders \X Told
QueueType == /\ strategy_to_risk_ \in Seq(Orders)
             /\ store_to_risk_ \in Seq(Orders \cup {nullptr})
             /\ Len(store_to_risk_) <= QueueCap
UpdateType == /\ updating \in Updates
              /\ updating.o = nullptr <=> updating.book = "none"
              /\ updating.book = "none" => updating = NoUpdate
              /\ updating.book = "status" => flow = "FIX"
              /\ stopped \in {"no", "divided by zero", "no free slot"}
BookType == /\ acc \in AccountRisk /\ sym \in SymbolRisk
            /\ market \in Nat \X Nat
            /\ flat.value \in Int /\ flat.realized \in Int
LevelType == /\ Range(orderrisks_) \subseteq Slots
             /\ orderrisk_pool_ \in [Slots -> OrderRisk]

\* An entry for self trades leads to an active slot of its own, and every
\* active slot has one.
SlotInv == /\ IsInjective(orderrisks_)
           /\ {s \in Slots : orderrisk_pool_[s].active} = Range(orderrisks_)

Waiting(o) == o \in Range(store_to_risk_)
Reached == {"live", "done", "gone"}

\* What holds of an order whatever became of the queue.
Lived(o) == /\ order[o].status = "Expired" => ex[o].phase = "done"
            /\ seen[o].expired => ex[o].phase = "done" /\ order[o].status \in {"Expired", "Unknown"}
            /\ order[o].new \/ seen[o].new => ex[o].phase \in Reached
            /\ ex[o].even => order[o].price = ex[o].price
            /\ ex[o].even /\ seen[o].new => seen[o].price = ex[o].price

\* An order the exchange has taken, and what it has of it.  A flush of FIX
\* meets only orders that risk has not booked: a booked one is Unknown.
Alive(r, e) ==
    /\ r.new /\ r.remaining = e.leaves
    /\ e.phase \in {"live", "gone"} => e.leaves > 0
    /\ e.phase \in {"live", "gone"} /\ r.cancelled_count = 0 /\ flow # "FIX" => r.quantity = r.filled + r.remaining
    /\ flow # "NASDAQ" /\ r.cancelled_count > 0 =>
          /\ e.phase \in {"done", "gone"}
          /\ r.status \in {"Cancelled", "Deleted", "Unknown"}
    /\ r.status = "New" => r.filled = 0
    /\ flow # "NASDAQ" /\ r.status \in {"New", "Partial"} => e.phase \in {"live", "gone"}
    /\ flow = "BIST" /\ e.phase = "live" => r.status \in {"New", "Partial", "Replaced", "CancelRequest"}

\* The order of the store is the order of the exchange.
Life(o) ==
    /\ ex[o].phase \notin Reached =>
          /\ ~order[o].new /\ order[o].filled = 0 /\ order[o].remaining = 0 /\ order[o].cancelled_count = 0
          /\ order[o].status = "Unknown" /\ ~Waiting(o) /\ updating.o # o
    /\ ex[o].phase \in {"asked", "sent"} => ex[o].leaves = order[o].quantity /\ ex[o].leaves > 0
    /\ ex[o].phase \in Reached => Alive(order[o], ex[o])
    /\ flow = "FIX" /\ order[o].status \in {"New", "Partial"} => Waiting(o) \/ updating.o = o

Trade(r) == r.status \in {"Partial", "Filled"}

\* What booking the order adds to what is left of it.
Delta(r) == CASE r.status = "New" -> r.quantity
              [] Trade(r) -> -r.last_exec
              [] OTHER -> r.replaced

\* The order r waits to be booked over s: what its status says is the
\* difference between the two.
Due(s, r, e) == /\ r.new /\ r.status \notin {"Unknown", "CancelRequest"}
                /\ s.new <=> r.status # "New"
                /\ s.new => s.side = r.side /\ s.remaining > 0
                /\ ~s.new => s.filled = 0 /\ s.remaining = 0 /\ s.value = 0
                /\ ~s.expired
                /\ r.filled = s.filled + (IF Trade(r) THEN r.last_exec ELSE 0)
                /\ e.value = s.value + (IF Trade(r) THEN r.price * r.last_exec ELSE 0)
                /\ e.even => r.remaining = s.remaining + Delta(r)
                /\ r.cancelled_count = 0 /\ r.status = "Partial" => r.remaining > 0
                /\ r.cancelled_count = 0 /\ r.status = "Filled" => r.remaining = 0
                /\ r.status \in {"Cancelled", "Deleted"} => r.cancelled_count > 0
                /\ r.status \in {"New", "Replaced"} => r.remaining > 0
                /\ r.status = "Expired" => r.remaining = 0

\* The order r waits to be booked over s although nothing was traded or taken
\* off: only a New of FIX brings another quantity.
Same(s, r, e) == /\ r.new /\ s.new /\ s.side = r.side /\ s.filled = r.filled /\ s.value = e.value
                 /\ s.remaining > 0 /\ r.remaining > 0 /\ ~s.expired
                 /\ r.status \in Told \cup {"CancelRequest"}
                 /\ r.status # "New" => r.remaining = s.remaining

\* Nothing of the order is left to book.
Done(s, r, e) == /\ s.new = r.new /\ s.filled = r.filled /\ s.remaining = r.remaining /\ s.value = e.value
                 /\ s.new => s.side = r.side
                 /\ ~s.new => s.filled = 0 /\ s.value = 0 /\ ~s.expired

Known(o, status) == status = "CancelRequest" \/ <<o, status>> \in again
Owed(o) == IF Waiting(o)
           THEN Due(seen[o], order[o], ex[o]) \/ (Same(seen[o], order[o], ex[o]) /\ Known(o, order[o].status))
           ELSE Done(seen[o], order[o], ex[o])

\* No update was overwritten or lost, and the thread is at work.
Clean == drift = {} /\ stopped = "no"

LivedInv == \A o \in Orders : Lived(o)
\* Without drift an order waits at most once, and not while it is booked.
OnceInv == drift = {} =>
    /\ \A i, j \in 1..Len(store_to_risk_) :
          store_to_risk_[i] = store_to_risk_[j] /\ store_to_risk_[i] # nullptr => i = j
    /\ updating.o # nullptr => ~Waiting(updating.o)
LifeInv == Clean => \A o \in Orders : Life(o)
BookInv == Clean => \A o \in Orders : Owed(o)

\* The account as the update under way will leave it.
Account == IF updating.book = "account" THEN AccountAfter(acc, order[updating.o], updating) ELSE acc

Expiries == {o \in Orders : seen[o].expired}
AllEven == \A o \in Orders : ex[o].even
OpenValue == Total([o \in Open |-> ex[o].price * seen[o].remaining])

CountInv == Faithful /\ stopped = "no" =>
                /\ Account.open_orders_count = Cardinality(Open)
                /\ sym.open_orders_count = Cardinality(Open) + Cardinality(Expiries)
MarginInv == Faithful /\ stopped = "no" /\ again = {} /\ AllEven => Account.used_margin = OpenValue

Level(p, side) == Key([price |-> p, side |-> side])
IsGuarded(o, p) == Level(p, seen[o].side) \in DOMAIN orderrisks_

\* While o is between the two books a level it is booked at for the first time
\* has no entry yet, and no level has lost its entry.
Guarded(o, p) ==
    IF updating.book = "account" /\ updating.o = o
    THEN IsGuarded(o, p) <=> p \in seen[o].at
    ELSE IsGuarded(o, p) <=> ~(seen[o].remaining = 0 /\ p = seen[o].price /\ p \in seen[o].at)

NoSecondCancel == \A o \in Orders : order[o].cancelled_count <= 1
LevelInv == Clean /\ NoSecondCancel =>
                \A o \in Orders : seen[o].new => \A p \in Levels(seen[o]) : Alone(o, p) => Guarded(o, p)
\* An entry is at a level that some order was booked at, and the order under
\* way at the price it still has.
KeyInv == Clean => /\ \A k \in DOMAIN orderrisks_ : \E o \in Orders :
                         seen[o].new /\ \E p \in Levels(seen[o]) : k = Level(p, seen[o].side)
                   /\ updating.book = "account" => seen[updating.o].price = order[updating.o].price

IInv == /\ OrderType /\ QueueType /\ UpdateType /\ BookType /\ LevelType
        /\ SlotInv /\ LivedInv /\ OnceInv /\ LifeInv /\ BookInv
        /\ TradesAreAccounted /\ PositionMatchesFills /\ CountInv /\ MarginInv /\ LevelInv /\ KeyInv

-----------------------------------------------------------------------------
(* Queues and initial states *)

LEMMA Constants == /\ QueueCap \in Nat /\ Balance \in Int /\ Lim.maker_fee_rate \in Int /\ CntMod \in Nat /\ CntMod > 0
                   /\ nullptr \notin Orders /\ nullptr \notin Slots
                   /\ IsFiniteSet(Orders) /\ IsFiniteSet(Slots)
<1>1. Cardinality(Orders) \in Nat BY DataAssumption, FS_CardinalityType
<1> QED BY <1>1, DataAssumption, CountAssumption

LEMMA FewOrders == Cardinality(Orders) \in Nat /\ Cardinality(Orders) < CntMod
  BY DataAssumption, CountAssumption, FS_CardinalityType

Data == /\ Prices \subseteq Nat /\ Quotes \subseteq Nat \X Nat
        /\ \A e \in Entries : e.side \in Sides /\ e.price \in Nat /\ e.quantity \in Nat /\ e.quantity > 0

LEMMA Inputs == Data BY DataAssumption DEF Data, Sides

LEMMA RangeAppend ==
  ASSUME NEW S, NEW q \in Seq(S), NEW x \in S, NEW y
  PROVE  y \in Range(Append(q, x)) <=> y \in Range(q) \/ y = x
<1>1. /\ Len(q) \in Nat /\ DOMAIN q = 1..Len(q)
      /\ Append(q, x) \in Seq(S) /\ Len(Append(q, x)) = Len(q) + 1
      /\ DOMAIN Append(q, x) = 1..Len(q) + 1
      /\ \A i \in 1..Len(q) : Append(q, x)[i] = q[i]
      /\ Append(q, x)[Len(q) + 1] = x
      OBVIOUS
<1>2. ASSUME y \in Range(q) PROVE y \in Range(Append(q, x))
  <2>1. PICK i \in 1..Len(q) : y = q[i] BY <1>1, <1>2 DEF Range
  <2>2. i \in 1..Len(q) + 1 BY <1>1
  <2> QED BY <1>1, <2>1, <2>2 DEF Range
<1>3. x \in Range(Append(q, x))
  <2>1. Len(q) + 1 \in 1..Len(q) + 1 BY <1>1
  <2> QED BY <1>1, <2>1 DEF Range
<1>4. ASSUME y \in Range(Append(q, x)) PROVE y \in Range(q) \/ y = x
  <2>1. PICK i \in 1..Len(q) + 1 : y = Append(q, x)[i] BY <1>1, <1>4 DEF Range
  <2>2. CASE i = Len(q) + 1 BY <1>1, <2>1, <2>2
  <2>3. CASE i \in 1..Len(q) BY <1>1, <2>1, <2>3 DEF Range
  <2> QED BY <1>1, <2>2, <2>3
<1> QED BY <1>2, <1>3, <1>4

LEMMA RangeTail ==
  ASSUME NEW S, NEW q \in Seq(S), q # <<>>
  PROVE  /\ Head(q) \in S /\ Tail(q) \in Seq(S) /\ Len(Tail(q)) = Len(q) - 1 /\ Len(q) \in Nat /\ Len(q) > 0
         /\ Head(q) = q[1] /\ \A i \in 1..Len(q) - 1 : Tail(q)[i] = q[i + 1]
         /\ \A y : y \in Range(q) <=> y = Head(q) \/ y \in Range(Tail(q))
<1>1. /\ Len(q) \in Nat /\ Len(q) > 0 /\ DOMAIN q = 1..Len(q)
      /\ Head(q) = q[1] /\ Head(q) \in S
      /\ Tail(q) \in Seq(S) /\ Len(Tail(q)) = Len(q) - 1
      /\ DOMAIN Tail(q) = 1..Len(q) - 1
      /\ \A i \in 1..Len(q) - 1 : Tail(q)[i] = q[i + 1]
      OBVIOUS
<1>2. ASSUME NEW y, y \in Range(q), y # Head(q) PROVE y \in Range(Tail(q))
  <2>1. PICK i \in 1..Len(q) : y = q[i] BY <1>1, <1>2 DEF Range
  <2>2. i - 1 \in 1..Len(q) - 1 /\ (i - 1) + 1 = i BY <1>1, <1>2, <2>1
  <2>3. Tail(q)[i - 1] = q[i] BY <1>1, <2>2
  <2> QED BY <1>1, <2>1, <2>2, <2>3 DEF Range
<1>3. ASSUME NEW y, y \in Range(Tail(q)) PROVE y \in Range(q)
  <2>1. PICK i \in 1..Len(q) - 1 : y = Tail(q)[i] BY <1>1, <1>3 DEF Range
  <2>2. i + 1 \in 1..Len(q) /\ y = q[i + 1] BY <1>1, <2>1
  <2> QED BY <1>1, <2>2 DEF Range
<1>4. Head(q) \in Range(q)
  <2>1. 1 \in 1..Len(q) BY <1>1
  <2> QED BY <1>1, <2>1 DEF Range
<1> QED BY <1>1, <1>2, <1>3, <1>4

LEMMA RangeEmpty == \A y : y \notin Range(<<>>)
  BY DEF Range

LEMMA InitInv == Init => IInv
<1> SUFFICES ASSUME Init PROVE IInv
    OBVIOUS
<1> USE Constants
<1>1. OrderType
  <2>1. NoOrder \in OrderRecs BY DEF NoOrder, OrderRecs, Statuses, Sides
  <2>2. NeverSeen \in SeenRecs BY DEF NeverSeen, SeenRecs, Sides
  <2>3. [phase |-> "idle", price |-> 0, leaves |-> 0, value |-> 0, even |-> TRUE] \in ExRecs BY DEF ExRecs
  <2> QED BY <2>1, <2>2, <2>3 DEF Init, OrderType
<1>2. QueueType BY DEF Init, QueueType
<1>3. UpdateType
  <2>1. NoUpdate \in Updates /\ NoUpdate.o = nullptr /\ NoUpdate.book = "none"
        BY DEF NoUpdate, Updates
  <2> QED BY <2>1 DEF Init, UpdateType
<1>4. BookType
  <2>1. acc \in AccountRisk
    <3>1. 0 \in 0..CntMod - 1 OBVIOUS
    <3> QED BY <3>1 DEF Init, AccountRisk
  <2>2. sym \in SymbolRisk BY DEF Init, SymbolRisk
  <2> QED BY <2>1, <2>2 DEF Init, BookType
<1>5. LevelType
  <2>1. [active |-> FALSE, remaining |-> 0] \in OrderRisk BY DEF OrderRisk
  <2> QED BY <2>1, RangeEmpty DEF Init, LevelType
<1>6. SlotInv
  <2>1. IsInjective(orderrisks_) BY DEF Init, IsInjective
  <2>2. Range(orderrisks_) = {} BY RangeEmpty DEF Init
  <2> QED BY <2>1, <2>2 DEF Init, SlotInv
<1>7. \A o \in Orders : seen[o] = NeverSeen /\ order[o] = NoOrder
      BY DEF Init
<1>e. \A o \in Orders : ex[o].phase = "idle" /\ ex[o].price = 0 /\ ex[o].value = 0 BY DEF Init
<1>8. /\ NoOrder.status = "Unknown" /\ NoOrder.new = FALSE /\ NoOrder.filled = 0 /\ NoOrder.remaining = 0
      /\ NoOrder.cancelled_count = 0 /\ NoOrder.price = 0
      BY DEF NoOrder
<1>9. /\ NeverSeen.new = FALSE /\ ~NeverSeen.expired /\ NeverSeen.filled = 0 /\ NeverSeen.value = 0
      /\ NeverSeen.remaining = 0 /\ NeverSeen.side = "Buy"
      BY DEF NeverSeen
<1>10. \A o \in Orders : ~Waiting(o) BY RangeEmpty DEF Init, Waiting
<1>11. LivedInv BY <1>7, <1>8, <1>9, <1>e DEF LivedInv, Lived
<1>12. OnceInv BY DEF OnceInv, Init, NoUpdate
<1>13. LifeInv
  <2> SUFFICES ASSUME NEW o \in Orders PROVE Life(o) BY DEF LifeInv
  <2>1. ex[o].phase = "idle" /\ updating.o # o BY <1>e DEF Init, NoUpdate
  <2> QED BY <1>7, <1>8, <1>10, <2>1 DEF Life, Reached
<1>14. BookInv BY <1>7, <1>8, <1>9, <1>10, <1>e DEF BookInv, Owed, Done
<1>15. PositionMatchesFills
  <2>1. ASSUME NEW side PROVE BookedFills(side) = 0
    <3> DEFINE f == [o \in {p \in Orders : seen[p].side = side} |-> seen[o].filled]
    <3>1. \A o \in DOMAIN f : f[o] = 0 BY <1>7, <1>9
    <3>2. Total(f) = 0 BY <3>1, TotalZero
    <3> QED BY <3>2 DEF BookedFills
  <2>2. BookedFills("Buy") = 0 /\ BookedFills("Sell") = 0 BY <2>1
  <2>3. sym.net_position = 0 BY DEF Init
  <2> QED BY <2>2, <2>3 DEF PositionMatchesFills
<1>16. TradesAreAccounted
  <2>1. ASSUME NEW side PROVE BookedValue(side) = 0
    <3> DEFINE f == [o \in {p \in Orders : seen[p].side = side} |-> seen[o].value]
    <3>1. \A o \in DOMAIN f : f[o] = 0 BY <1>7, <1>9
    <3>2. Total(f) = 0 BY <3>1, TotalZero
    <3> QED BY <3>2 DEF BookedValue
  <2>2. BookedValue("Buy") = 0 /\ BookedValue("Sell") = 0 BY <2>1
  <2>3. /\ sym.cost_basis = 0 /\ sym.realized_pnl = 0 /\ flat.realized = 0 /\ flat.value = 0
        /\ acc.total_unrealized_pnl = sym.unrealized_pnl /\ acc.daily_realized_pnl = sym.realized_pnl
        BY DEF Init
  <2> QED BY <2>2, <2>3 DEF TradesAreAccounted
<1>17. Open = {} /\ Expiries = {} BY <1>7, <1>9 DEF Open, Expiries
<1>18. Account = acc BY DEF Account, Init, NoUpdate
<1>19. CountInv
  <2>1. Cardinality(Open) = 0 /\ Cardinality(Expiries) = 0 BY <1>17, FS_EmptySet
  <2> QED BY <1>18, <2>1 DEF CountInv, Init
<1>20. MarginInv
  <2>1. OpenValue = 0 BY <1>17, TotalEmpty DEF OpenValue
  <2> QED BY <1>18, <2>1 DEF MarginInv, Init
<1>21. LevelInv BY <1>7, <1>9 DEF LevelInv
<1>22. KeyInv
  <2>1. DOMAIN orderrisks_ = {} BY DEF Init
  <2>2. updating.book = "none" BY DEF Init, NoUpdate
  <2> QED BY <2>1, <2>2 DEF KeyInv
<1> QED BY <1>1, <1>2, <1>3, <1>4, <1>5, <1>6, <1>11, <1>12, <1>13, <1>14, <1>15, <1>16, <1>19, <1>20, <1>21, <1>22 DEF IInv
-----------------------------------------------------------------------------
(* The store and the exchange *)

Orderly(r) == /\ r.cancelled_count <= 1
              /\ r.cancelled_count = 1 => r.status \in {"Cancelled", "Deleted", "Unknown"}

LEMMA FaithfulIs == Faithful <=> drift = {} /\ NotAgain("New") /\ \A o \in Orders : Orderly(order[o])
  BY DEF Faithful, Orderly

\* The books of a step that only concerns orders.
LEMMA BooksStay ==
  ASSUME IInv, UNCHANGED <<acc, sym, orderrisks_, orderrisk_pool_, updating, stopped, seen, flat>>,
         drift' = {} => drift = {}, again \subseteq again',
         Clean' /\ updating.o # nullptr => order'[updating.o] = order[updating.o],
         \A o \in Orders : ex'[o].even => ex[o].even,
         \A o \in Orders : ex'[o].even => ex'[o].price = ex[o].price \/ ~seen[o].new,
         Clean' /\ (\A o \in Orders : Orderly(order'[o])) => \A o \in Orders : Orderly(order[o]),
         drift' = {} => \A o \in Orders : order'[o].cancelled_count >= order[o].cancelled_count,
         \A o \in Orders : order[o].cancelled_count \in Nat /\ order'[o].cancelled_count \in Nat
  PROVE  /\ SlotInv' /\ TradesAreAccounted' /\ PositionMatchesFills'
         /\ CountInv' /\ MarginInv' /\ LevelInv' /\ KeyInv'
<1>1. SlotInv' BY DEF IInv, SlotInv
<1>a. \A status : NotAgain(status)' => NotAgain(status) BY DEF NotAgain
<1>2. PositionMatchesFills' BY <1>a DEF IInv, PositionMatchesFills, BookedFills
<1>t. TradesAreAccounted' BY <1>a DEF IInv, TradesAreAccounted, BookedValue
<1>3. Faithful' /\ stopped' = "no" => Faithful
  <2> SUFFICES ASSUME Faithful', stopped' = "no" PROVE Faithful
      OBVIOUS
  <2>1. Clean' /\ drift = {} /\ NotAgain("New") /\ \A o \in Orders : Orderly(order'[o])
        BY <1>a DEF Faithful, Clean, Orderly
  <2> QED BY <2>1, FaithfulIs
<1>4. AllEven' => AllEven BY DEF AllEven
<1>5. Open' = Open /\ Expiries' = Expiries BY DEF Open, Expiries
<1>6. Clean' => Account' = Account
  <2> SUFFICES ASSUME Clean' PROVE Account' = Account
      OBVIOUS
  <2>1. CASE updating.book = "account"
    <3>1. updating.o # nullptr BY <2>1 DEF IInv, UpdateType
    <3> QED BY <2>1, <3>1 DEF Account
  <2>2. CASE updating.book # "account" BY <2>2 DEF Account
  <2> QED BY <2>1, <2>2
<1>7. CountInv'
  <2> SUFFICES ASSUME Faithful', stopped' = "no"
               PROVE  /\ Account'.open_orders_count = Cardinality(Open')
                      /\ sym'.open_orders_count = Cardinality(Open') + Cardinality(Expiries')
      BY DEF CountInv
  <2>1. Faithful /\ stopped = "no" /\ Clean' BY <1>3 DEF Faithful, Clean
  <2> QED BY <1>5, <1>6, <2>1 DEF IInv, CountInv
<1>8. AllEven' => OpenValue' = OpenValue
  <2> SUFFICES ASSUME AllEven' PROVE OpenValue' = OpenValue
      OBVIOUS
  <2>1. \A o \in Open : ex'[o].price * seen[o].remaining = ex[o].price * seen[o].remaining
        BY DEF Open, AllEven
  <2>2. [o \in Open |-> ex'[o].price * seen[o].remaining] = [o \in Open |-> ex[o].price * seen[o].remaining]
        BY <2>1
  <2> QED BY <2>2, <1>5 DEF OpenValue
<1>9. MarginInv'
  <2> SUFFICES ASSUME Faithful', stopped' = "no", again' = {}, AllEven' PROVE Account'.used_margin = OpenValue'
      BY DEF MarginInv
  <2>1. Faithful /\ stopped = "no" /\ again = {} /\ AllEven /\ Clean' BY <1>3, <1>4 DEF Faithful, Clean
  <2> QED BY <1>6, <1>8, <2>1 DEF IInv, MarginInv
<1>10. LevelInv'
  <2> SUFFICES ASSUME Clean', NoSecondCancel', NEW o \in Orders, seen'[o].new,
                      NEW p \in Levels(seen'[o]), Alone(o, p)'
               PROVE  Guarded(o, p)'
      BY DEF LevelInv, Levels
  <2>1. NoSecondCancel
    <3> SUFFICES ASSUME NEW i \in Orders PROVE order[i].cancelled_count <= 1
        BY DEF NoSecondCancel
    <3>1. order'[i].cancelled_count <= 1 BY DEF NoSecondCancel
    <3>2. order'[i].cancelled_count >= order[i].cancelled_count BY DEF Clean
    <3> QED BY <3>1, <3>2
  <2>2. Alone(o, p) /\ Clean BY DEF Alone, Clean
  <2>3. Guarded(o, p) BY <2>1, <2>2 DEF IInv, LevelInv
  <2> QED BY <2>3 DEF Guarded, IsGuarded
<1>11. KeyInv' BY DEF IInv, KeyInv, Clean, UpdateType
<1> QED BY <1>1, <1>2, <1>t, <1>7, <1>9, <1>10, <1>11

\* The queue after a filler: without drift the order waits now and did not
\* wait before.
LEMMA FillQueue ==
  ASSUME OrderType, QueueType, OnceInv, updating' = updating, NEW o \in Orders, NEW r \in OrderRecs, Fill(o, r)
  PROVE  /\ order' \in [Orders -> OrderRecs] /\ order'[o] = r
         /\ \A p \in Orders : p # o => order'[p] = order[p]
         /\ drift' \subseteq Orders /\ (drift' = {} => drift = {} /\ ~Waiting(o) /\ updating.o # o)
         /\ store_to_risk_' \in Seq(Orders \cup {nullptr}) /\ Len(store_to_risk_') <= QueueCap
         /\ drift' = {} => \A p : Waiting(p)' <=> Waiting(p) \/ p = o
         /\ OnceInv'
         /\ drift' = {} => Len(store_to_risk_) < QueueCap
<1> DEFINE q == store_to_risk_
<1> USE Constants
<1>1. /\ order' \in [Orders -> OrderRecs] /\ order'[o] = r
      /\ \A p \in Orders : p # o => order'[p] = order[p]
      BY DEF OrderType, Fill
<1>d. drift' = drift \cup (IF Overruns(o) THEN {o} ELSE {}) BY DEF Fill, Slip
<1>2. drift' \subseteq Orders BY <1>d DEF OrderType
<1>3. q \in Seq(Orders \cup {nullptr}) /\ Len(q) \in Nat /\ Len(q) <= QueueCap
      BY DEF QueueType
<1>4. /\ Append(q, o) \in Seq(Orders \cup {nullptr}) /\ Len(Append(q, o)) = Len(q) + 1
      /\ \A i \in 1..Len(q) : Append(q, o)[i] = q[i]
      /\ Append(q, o)[Len(q) + 1] = o
      BY <1>3
<1>5. q' \in Seq(Orders \cup {nullptr}) /\ Len(q') <= QueueCap
  <2>1. CASE Len(q) < QueueCap
    <3>1. q' = Append(q, o) BY <2>1 DEF Fill, Push
    <3> QED BY <3>1, <2>1, <1>3, <1>4
  <2>2. CASE ~(Len(q) < QueueCap)
    <3>1. q' = q BY <2>2 DEF Fill, Push
    <3> QED BY <3>1, <1>3
  <2> QED BY <2>1, <2>2
<1>6. ASSUME drift' = {}
      PROVE  drift = {} /\ ~Waiting(o) /\ updating.o # o /\ q' = Append(q, o) /\ Len(q) < QueueCap
  <2>1. ~Overruns(o) /\ drift = {} BY <1>6, <1>d
  <2>2. Len(q) # QueueCap BY <2>1 DEF Overruns
  <2>3. Len(q) < QueueCap BY <1>3, <2>2
  <2> QED BY <2>1, <2>3 DEF Overruns, Unbooked, Waiting, Fill, Push
<1>7. ASSUME drift' = {}, NEW p PROVE Waiting(p)' <=> Waiting(p) \/ p = o
  <2>1. p \in Range(Append(q, o)) <=> p \in Range(q) \/ p = o BY <1>3, RangeAppend
  <2> QED BY <2>1, <1>6, <1>7 DEF Waiting
<1>8. OnceInv'
  <2> SUFFICES ASSUME drift' = {}
               PROVE  /\ \A i, j \in 1..Len(q') : q'[i] = q'[j] /\ q'[i] # nullptr => i = j
                      /\ updating.o # nullptr => ~Waiting(updating.o)'
      BY DEF OnceInv
  <2>1. drift = {} /\ ~Waiting(o) /\ updating.o # o /\ q' = Append(q, o) BY <1>6
  <2>2. \A i \in 1..Len(q) : q[i] # o BY <2>1, <1>3 DEF Waiting, Range
  <2>3. \A i, j \in 1..Len(q) : q[i] = q[j] /\ q[i] # nullptr => i = j BY <2>1 DEF OnceInv
  <2>4. ASSUME NEW i \in 1..Len(q'), NEW j \in 1..Len(q'), q'[i] = q'[j], q'[i] # nullptr PROVE i = j
    <3>1. i \in 1..Len(q) \/ i = Len(q) + 1 BY <1>3, <1>4, <2>1
    <3>2. j \in 1..Len(q) \/ j = Len(q) + 1 BY <1>3, <1>4, <2>1
    <3> QED BY <3>1, <3>2, <2>1, <2>2, <2>3, <2>4, <1>4
  <2>5. updating.o # nullptr => ~Waiting(updating.o) BY <2>1 DEF OnceInv
  <2>6. updating.o # nullptr => ~Waiting(updating.o)' BY <2>1, <2>5, <1>7
  <2> QED BY <2>4, <2>6
<1> QED BY <1>1, <1>2, <1>5, <1>6, <1>7, <1>8

\* A step of the exchange with order o, told to the store: what has to be
\* seen of the order for the invariant to go on.
LEMMA FillNext ==
  ASSUME IInv, NEW o \in Orders, NEW r \in OrderRecs, NEW e \in ExRecs,
         Fill(o, r), UNCHANGED OutsideVars, again \subseteq again', again' \subseteq Orders \X Told,
         ex' \in [Orders -> ExRecs], ex'[o] = e, \A p \in Orders : p # o => ex'[p] = ex[p],
         r.status = "Expired" => e.phase = "done", e.phase \in Reached, ex[o].phase # "done",
         e.even => r.price = e.price /\ ex[o].even /\ e.price = ex[o].price,
         r.cancelled_count >= order[o].cancelled_count,
         Clean /\ Life(o) /\ Orderly(r) => Orderly(order[o]),
         Clean /\ Life(o) => Alive(r, e),
         Clean /\ Len(store_to_risk_) < QueueCap /\ Life(o) /\ Done(seen[o], order[o], ex[o]) =>
            Due(seen[o], r, e) \/ (Same(seen[o], r, e) /\ Known(o, r.status)')
  PROVE  IInv'
<1> USE Constants
<1>u. /\ UNCHANGED <<flow, market, quotes, strategy_to_risk_, updating, acc, sym, orderrisks_, orderrisk_pool_,
                     stopped, seen, flat>>
      BY DEF OutsideVars, feed, books
<1>1. /\ order' \in [Orders -> OrderRecs] /\ order'[o] = r
      /\ \A p \in Orders : p # o => order'[p] = order[p]
      /\ drift' \subseteq Orders /\ (drift' = {} => drift = {} /\ ~Waiting(o) /\ updating.o # o)
      /\ store_to_risk_' \in Seq(Orders \cup {nullptr}) /\ Len(store_to_risk_') <= QueueCap
      /\ drift' = {} => \A p : Waiting(p)' <=> Waiting(p) \/ p = o
      /\ OnceInv'
      /\ drift' = {} => Len(store_to_risk_) < QueueCap
      BY <1>u, FillQueue DEF IInv
<1>2. /\ ex' \in [Orders -> ExRecs] /\ ex'[o] = e
      /\ \A p \in Orders : p # o => ex'[p] = ex[p]
      OBVIOUS
<1>c. Clean' => Clean /\ drift' = {} BY <1>u, <1>1 DEF Clean
<1>3. OrderType' BY <1>u, <1>1, <1>2 DEF IInv, OrderType
<1>4. QueueType' BY <1>u, <1>1 DEF IInv, QueueType
<1>5. UpdateType' /\ BookType' /\ LevelType' BY <1>u DEF IInv, UpdateType, BookType, LevelType
<1>6. LivedInv'
  <2> SUFFICES ASSUME NEW p \in Orders PROVE Lived(p)'
      BY DEF LivedInv
  <2>1. Lived(p) BY DEF IInv, LivedInv
  <2>2. CASE p # o
    <3>1. order'[p] = order[p] /\ ex'[p] = ex[p] /\ seen'[p] = seen[p] BY <1>u, <1>1, <1>2, <2>2
    <3> QED BY <2>1, <3>1 DEF Lived
  <2>3. CASE p = o
    <3>1. order'[p] = r /\ ex'[p] = e /\ seen'[p] = seen[p] BY <1>u, <1>1, <1>2, <2>3
    <3>2. ~seen[p].expired BY <2>1, <2>3 DEF Lived
    <3> QED BY <2>1, <2>3, <3>1, <3>2 DEF Lived
  <2> QED BY <2>2, <2>3
<1>7. ASSUME Clean', NEW p \in Orders PROVE Life(p)'
  <2>1. Life(p) /\ Life(o) BY <1>c, <1>7 DEF IInv, LifeInv
  <2>2. CASE p # o
    <3>1. order'[p] = order[p] /\ ex'[p] = ex[p] /\ updating' = updating /\ flow' = flow BY <1>u, <1>1, <1>2, <2>2
    <3>2. Waiting(p)' <=> Waiting(p) BY <1>1, <1>c, <1>7, <2>2
    <3> QED BY <2>1, <3>1, <3>2 DEF Life, Alive
  <2>3. CASE p = o
    <3>1. order'[p] = r /\ ex'[p] = e /\ flow' = flow BY <1>u, <1>1, <1>2, <2>3
    <3>2. Alive(r, e) BY <2>1, <1>c, <1>7
    <3>3. Waiting(p)' BY <1>1, <1>c, <1>7, <2>3
    <3> QED BY <3>1, <3>2, <3>3 DEF Life, Alive, Reached
  <2> QED BY <2>2, <2>3
<1>8. LifeInv' BY <1>7 DEF LifeInv
<1>9. ASSUME Clean', NEW p \in Orders PROVE Owed(p)'
  <2>1. Owed(p) /\ Life(p) /\ Clean BY <1>c, <1>9 DEF IInv, BookInv, LifeInv
  <2>2. CASE p # o
    <3>1. order'[p] = order[p] /\ seen'[p] = seen[p] /\ ex'[p] = ex[p] BY <1>u, <1>1, <1>2, <2>2
    <3>2. Waiting(p)' <=> Waiting(p) BY <1>1, <1>c, <1>9, <2>2
    <3> QED BY <2>1, <3>1, <3>2 DEF Owed, Known
  <2>3. CASE p = o
    <3>1. order'[o] = r /\ seen'[o] = seen[o] /\ ex'[o] = e BY <1>u, <1>1, <1>2
    <3>2. Waiting(o)' /\ ~Waiting(o) /\ Len(store_to_risk_) < QueueCap BY <1>1, <1>c, <1>9
    <3>3. Done(seen[o], order[o], ex[o]) BY <2>1, <2>3, <3>2 DEF Owed
    <3>4. Due(seen[o], r, e) \/ (Same(seen[o], r, e) /\ Known(o, r.status)') BY <2>1, <2>3, <3>2, <3>3
    <3> QED BY <2>3, <3>1, <3>2, <3>4 DEF Owed, Known
  <2> QED BY <2>2, <2>3
<1>10. BookInv' BY <1>9 DEF BookInv
<1>11. /\ SlotInv' /\ TradesAreAccounted' /\ PositionMatchesFills'
       /\ CountInv' /\ MarginInv' /\ LevelInv' /\ KeyInv'
  <2>1. \A p \in Orders : ex'[p].even => ex[p].even BY <1>2
  <2>2. \A p \in Orders : ex'[p].even => ex'[p].price = ex[p].price BY <1>2
  <2>3. Clean' /\ (\A p \in Orders : Orderly(order'[p])) => \A p \in Orders : Orderly(order[p])
    <3> SUFFICES ASSUME Clean', \A p \in Orders : Orderly(order'[p]), NEW p \in Orders PROVE Orderly(order[p])
        OBVIOUS
    <3>1. Clean /\ Life(o) BY <1>c DEF IInv, LifeInv
    <3> QED BY <1>1, <3>1
  <2>4. Clean' /\ updating.o # nullptr => order'[updating.o] = order[updating.o]
        BY <1>1 DEF IInv, UpdateType, Updates, Clean
  <2>5. \A p \in Orders : order[p].cancelled_count \in Nat /\ order'[p].cancelled_count \in Nat
        BY <1>1 DEF IInv, OrderType, OrderRecs
  <2>6. \A p \in Orders : order'[p].cancelled_count >= order[p].cancelled_count
        BY <1>1, <2>5
  <2> QED BY <1>u, <1>1, <2>1, <2>2, <2>3, <2>4, <2>5, <2>6, BooksStay
<1> QED BY <1>1, <1>3, <1>4, <1>5, <1>6, <1>8, <1>10, <1>11 DEF IInv

LEMMA OrderFacts ==
  ASSUME IInv, NEW o \in Orders
  PROVE  /\ order[o] \in OrderRecs /\ ex[o] \in ExRecs /\ seen[o] \in SeenRecs /\ Lived(o)
         /\ order[o].price \in Int /\ order[o].quantity \in Int /\ order[o].remaining \in Int
         /\ order[o].filled \in Nat /\ order[o].last_exec \in Nat /\ order[o].cancelled_count \in Nat
         /\ order[o].replaced \in Int
         /\ order[o].new \in BOOLEAN /\ order[o].side \in Sides /\ order[o].status \in Statuses
         /\ ex[o].leaves \in Nat /\ ex[o].price \in Nat /\ ex[o].value \in Nat /\ ex[o].even \in BOOLEAN
         /\ seen[o].filled \in Nat /\ seen[o].remaining \in Int /\ seen[o].new \in BOOLEAN /\ seen[o].value \in Nat
  BY DEF IInv, OrderType, LivedInv, OrderRecs, ExRecs, SeenRecs

\* A live order, for the steps of the exchange.
LEMMA LiveFacts ==
  ASSUME IInv, NEW o \in Orders, ex[o].phase = "live"
  PROVE  /\ ~seen[o].expired
         /\ Life(o) => /\ order[o].remaining = ex[o].leaves /\ ex[o].leaves > 0 /\ order[o].new
                       /\ order[o].cancelled_count = 0 /\ flow # "FIX" =>
                             order[o].quantity = order[o].filled + order[o].remaining
                       /\ flow # "NASDAQ" => order[o].cancelled_count = 0
                       /\ flow = "BIST" => order[o].status \in {"New", "Partial", "Replaced", "CancelRequest"}
                       /\ Done(seen[o], order[o], ex[o]) =>
                             /\ seen[o].new /\ seen[o].side = order[o].side /\ seen[o].filled = order[o].filled
                             /\ seen[o].remaining = order[o].remaining /\ seen[o].value = ex[o].value
<1>1. ~seen[o].expired BY OrderFacts DEF Lived
<1>2. Life(o) => Alive(order[o], ex[o]) BY DEF Life, Reached
<1>3. order[o].cancelled_count \in Nat BY OrderFacts
<1>4. ASSUME Life(o), flow # "NASDAQ" PROVE order[o].cancelled_count = 0 BY <1>2, <1>3, <1>4 DEF Alive
<1> QED BY <1>1, <1>2, <1>4 DEF Alive, Done

LEMMA AcceptedNext == ASSUME IInv, NEW o \in Orders, Accepted(o) PROVE IInv'
<1> DEFINE r == [order[o] EXCEPT !.remaining = order[o].quantity, !.status = "New", !.new = TRUE]
           e == ex'[o]
<1>0. Fill(o, r) /\ UNCHANGED OutsideVars /\ again' = again BY DEF Accepted
<1>a. again' \subseteq Orders \X Told BY <1>0 DEF IInv, OrderType
<1>1. r \in OrderRecs BY OrderFacts DEF OrderRecs, Statuses
<1>2. /\ r.status = "New" /\ r.remaining = order[o].quantity /\ r.new = TRUE
      /\ r.quantity = order[o].quantity /\ r.filled = order[o].filled /\ r.price = order[o].price
      /\ r.cancelled_count = order[o].cancelled_count /\ r.side = order[o].side
      BY OrderFacts DEF OrderRecs
<1>3. ex' \in [Orders -> ExRecs] /\ (\A p \in Orders : p # o => ex'[p] = ex[p])
      BY DEF Accepted, IInv, OrderType, ExRecs
<1>4. /\ e \in ExRecs /\ e.phase = "live" /\ e.price = ex[o].price /\ e.leaves = ex[o].leaves
      /\ e.even = ex[o].even /\ e.value = ex[o].value
      BY OrderFacts DEF Accepted, IInv, OrderType, ExRecs
<1>5. ex[o].phase = "sent" BY DEF Accepted
<1> HIDE DEF r, e
<1>l. Life(o) => /\ ex[o].leaves = order[o].quantity /\ ex[o].leaves > 0 /\ order[o].filled = 0 /\ order[o].remaining = 0
                 /\ order[o].cancelled_count = 0 /\ ~order[o].new
      BY <1>5 DEF Life, Reached
<1>6. ASSUME Life(o) PROVE Alive(r, e) BY <1>l, <1>6, <1>2, <1>4, OrderFacts DEF Alive
<1>7. ASSUME Life(o), Done(seen[o], order[o], ex[o]) PROVE Due(seen[o], r, e)
  <2>1. /\ ~seen[o].new /\ seen[o].filled = 0 /\ seen[o].remaining = 0 /\ seen[o].value = 0 /\ ~seen[o].expired
        /\ ex[o].value = 0
        BY <1>l, <1>7 DEF Done
  <2>2. Delta(r) = r.quantity /\ ~Trade(r) BY <1>2 DEF Delta, Trade
  <2> QED BY <1>l, <1>7, <1>2, <1>4, <2>1, <2>2, OrderFacts DEF Due
<1>8. e.even => r.price = e.price /\ ex[o].even BY <1>2, <1>4, OrderFacts DEF Lived
<1>9. Life(o) /\ Orderly(r) => Orderly(order[o]) BY <1>l DEF Orderly
<1>10. r.cancelled_count >= order[o].cancelled_count BY <1>2, OrderFacts
<1> QED BY <1>0, <1>a, <1>1, <1>2, <1>3, <1>4, <1>5, <1>6, <1>7, <1>8, <1>9, <1>10, FillNext DEF e, Reached

LEMMA ExecutedNext ==
  ASSUME IInv, NEW o \in Orders, NEW q \in 1..ex[o].leaves, NEW p \in Prices, Executed(o, q, p) PROVE IInv'
<1> DEFINE partly == IF flow = "FIX" THEN q < ex[o].leaves ELSE order[o].filled + q < order[o].quantity
           r == [order[o] EXCEPT !.price = p, !.filled = @ + q, !.last_exec = q, !.remaining = @ - q,
                                 !.status = IF partly THEN "Partial" ELSE "Filled"]
           e == ex'[o]
<1>n. q \in Nat /\ q > 0 /\ q <= ex[o].leaves /\ p \in Nat /\ p \in Int BY OrderFacts, Inputs DEF Data
<1>0. Fill(o, r) /\ UNCHANGED OutsideVars /\ again' = again BY DEF Executed
<1>a. again' \subseteq Orders \X Told BY <1>0 DEF IInv, OrderType
<1>1. r \in OrderRecs
  <2>1. order[o].filled + q \in Nat /\ order[o].remaining - q \in Int BY <1>n, OrderFacts
  <2>2. (IF partly THEN "Partial" ELSE "Filled") \in Statuses BY DEF Statuses
  <2>3. order[o] \in OrderRecs BY OrderFacts
  <2> HIDE DEF partly
  <2> QED BY <1>n, <2>1, <2>2, <2>3 DEF OrderRecs
<1>2. /\ r.status = (IF partly THEN "Partial" ELSE "Filled")
      /\ r.remaining = order[o].remaining - q /\ r.new = order[o].new
      /\ r.quantity = order[o].quantity /\ r.filled = order[o].filled + q /\ r.price = p /\ r.last_exec = q
      /\ r.cancelled_count = order[o].cancelled_count /\ r.side = order[o].side
  <2> HIDE DEF partly
  <2> QED BY OrderFacts DEF OrderRecs
<1>v. p * q \in Nat BY <1>n
<1>3. ex' \in [Orders -> ExRecs] /\ (\A i \in Orders : i # o => ex'[i] = ex[i])
  <2>1. ex[o].leaves - q \in Nat /\ ex[o].value + p * q \in Nat BY <1>n, <1>v, OrderFacts
  <2>2. (ex[o].even /\ p = ex[o].price) \in BOOLEAN OBVIOUS
  <2>3. ex \in [Orders -> ExRecs] /\ ex[o] \in ExRecs BY OrderFacts DEF IInv, OrderType
  <2>4. [ex[o] EXCEPT !.leaves = ex[o].leaves - q, !.value = ex[o].value + p * q,
                      !.phase = IF ex[o].leaves = q THEN "done" ELSE @,
                      !.even = ex[o].even /\ p = ex[o].price] \in ExRecs
        BY <2>1, <2>2, <2>3 DEF ExRecs
  <2> QED BY <2>3, <2>4 DEF Executed
<1>4. /\ e \in ExRecs /\ e.phase = (IF ex[o].leaves = q THEN "done" ELSE "live") /\ e.value = ex[o].value + p * q
      /\ e.price = ex[o].price /\ e.leaves = ex[o].leaves - q /\ (e.even <=> ex[o].even /\ p = ex[o].price)
      BY <1>n, <1>3, OrderFacts DEF Executed, IInv, OrderType, ExRecs
<1>5. ex[o].phase = "live" BY DEF Executed
<1>w. partly <=> IF flow = "FIX" THEN q < ex[o].leaves ELSE order[o].filled + q < order[o].quantity OBVIOUS
<1> HIDE DEF r, e, partly
<1>6. ASSUME Life(o) PROVE Alive(r, e)
  <2>1. /\ order[o].remaining = ex[o].leaves /\ ex[o].leaves > 0 /\ order[o].new
        /\ order[o].cancelled_count = 0 /\ flow # "FIX" => order[o].quantity = order[o].filled + order[o].remaining
        /\ flow # "NASDAQ" => order[o].cancelled_count = 0
        BY <1>5, <1>6, LiveFacts
  <2>2. flow # "NASDAQ" /\ partly => ex[o].leaves # q BY <1>n, <1>w, <2>1, OrderFacts
  <2>3. flow # "NASDAQ" /\ ex[o].leaves # q => partly BY <1>n, <1>w, <2>1, OrderFacts
  <2>4. r.status = "Partial" <=> partly BY <1>2
  <2>5. r.status \in {"Partial", "Filled"} BY <1>2
  <2>6. r.remaining = e.leaves /\ (e.phase \in {"live", "gone"} => e.leaves > 0) /\ r.new
    <3>1. e.phase = "live" \/ e.phase = "done" BY <1>4
    <3>2. e.phase = "live" => ex[o].leaves # q BY <1>4
    <3>4. ex[o].leaves \in Nat /\ e.leaves = ex[o].leaves - q BY <1>4, OrderFacts
    <3>3. ex[o].leaves # q => e.leaves > 0
      <4>1. PICK l \in Nat : l = ex[o].leaves BY <3>4
      <4>2. q \in Nat /\ q <= l BY <1>n, <4>1
      <4>3. l # q => l - q > 0 BY <4>2
      <4> QED BY <3>4, <4>1, <4>3
    <3> QED BY <1>2, <1>4, <2>1, <3>1, <3>2, <3>3
  <2>7. r.cancelled_count = 0 /\ flow # "FIX" => r.quantity = r.filled + r.remaining
        BY <1>n, <1>2, <2>1, OrderFacts
  <2>8. flow # "NASDAQ" => ~(r.cancelled_count > 0) BY <1>2, <2>1
  <2> QED BY <1>4, <2>2, <2>3, <2>4, <2>5, <2>6, <2>7, <2>8 DEF Alive
<1>7. ASSUME Life(o), Done(seen[o], order[o], ex[o]) PROVE Due(seen[o], r, e)
  <2>1. /\ order[o].remaining = ex[o].leaves /\ ex[o].leaves > 0 /\ order[o].new
        /\ order[o].cancelled_count = 0 /\ flow # "FIX" => order[o].quantity = order[o].filled + order[o].remaining
        /\ seen[o].new /\ seen[o].filled = order[o].filled /\ seen[o].remaining = order[o].remaining
        /\ seen[o].side = order[o].side /\ seen[o].value = ex[o].value /\ ~seen[o].expired
        BY <1>5, <1>7, LiveFacts
  <2>5. r.status \in {"Partial", "Filled"} /\ (r.status = "Partial" <=> partly) /\ Trade(r) BY <1>2 DEF Trade
  <2>3. Delta(r) = -q BY <1>2, <2>5 DEF Delta
  <2>6. r.cancelled_count = 0 /\ r.status = "Partial" => r.remaining > 0
        BY <1>n, <1>w, <1>2, <2>1, <2>5, OrderFacts
  <2>7. r.cancelled_count = 0 /\ r.status = "Filled" => r.remaining = 0
        BY <1>n, <1>w, <1>2, <2>1, <2>5, OrderFacts
  <2>8. r.remaining = seen[o].remaining + Delta(r) BY <1>n, <1>2, <2>1, <2>3, OrderFacts
  <2>9. e.value = seen[o].value + r.price * r.last_exec BY <1>2, <1>4, <2>1
  <2>10. /\ r.filled = seen[o].filled + r.last_exec /\ r.new /\ seen[o].side = r.side /\ seen[o].remaining > 0
         BY <1>2, <2>1
  <2> QED BY <2>1, <2>5, <2>6, <2>7, <2>8, <2>9, <2>10 DEF Due
<1>8. e.even => r.price = e.price /\ ex[o].even BY <1>2, <1>4
<1>9. Orderly(r) => Orderly(order[o])
  <2>1. r.status \in {"Partial", "Filled"} BY <1>2
  <2> QED BY <1>2, <2>1, OrderFacts DEF Orderly
<1>10. r.cancelled_count >= order[o].cancelled_count /\ r.status # "Expired" BY <1>2, OrderFacts
<1> QED BY <1>0, <1>a, <1>1, <1>2, <1>3, <1>4, <1>5, <1>6, <1>7, <1>8, <1>9, <1>10, FillNext DEF e, Reached

LEMMA CancelledNext ==
  ASSUME IInv, NEW o \in Orders, NEW q \in 1..ex[o].leaves, Cancelled(o, q) PROVE IInv'
<1> DEFINE r == [order[o] EXCEPT !.remaining = IF flow = "NASDAQ" THEN @ - q ELSE 0,
                                 !.replaced = IF flow = "NASDAQ" THEN -q ELSE -order[o].remaining,
                                 !.status = IF flow = "NASDAQ" THEN "Cancelled" ELSE "Deleted",
                                 !.cancelled_count = @ + 1]
           e == ex'[o]
<1>n. q \in Nat /\ q > 0 /\ q <= ex[o].leaves BY OrderFacts
<1>0. Fill(o, r) /\ UNCHANGED OutsideVars /\ again' = again BY DEF Cancelled
<1>a. again' \subseteq Orders \X Told BY <1>0 DEF IInv, OrderType
<1>1. r \in OrderRecs
  <2>1. (IF flow = "NASDAQ" THEN order[o].remaining - q ELSE 0) \in Int BY <1>n, OrderFacts
  <2>2. (IF flow = "NASDAQ" THEN -q ELSE -order[o].remaining) \in Int BY <1>n, OrderFacts
  <2>3. (IF flow = "NASDAQ" THEN "Cancelled" ELSE "Deleted") \in Statuses BY DEF Statuses
  <2>4. order[o].cancelled_count + 1 \in Nat /\ order[o] \in OrderRecs BY OrderFacts
  <2> QED BY <2>1, <2>2, <2>3, <2>4 DEF OrderRecs
<1>2. /\ r.status = (IF flow = "NASDAQ" THEN "Cancelled" ELSE "Deleted")
      /\ r.remaining = (IF flow = "NASDAQ" THEN order[o].remaining - q ELSE 0) /\ r.new = order[o].new
      /\ r.replaced = (IF flow = "NASDAQ" THEN -q ELSE -order[o].remaining)
      /\ r.quantity = order[o].quantity /\ r.filled = order[o].filled /\ r.price = order[o].price
      /\ r.cancelled_count = order[o].cancelled_count + 1 /\ r.side = order[o].side
      BY OrderFacts DEF OrderRecs
<1>3. ex' \in [Orders -> ExRecs] /\ (\A i \in Orders : i # o => ex'[i] = ex[i])
  <2>1. ex[o].leaves - q \in Nat BY <1>n, OrderFacts
  <2>3. ex \in [Orders -> ExRecs] /\ ex[o] \in ExRecs BY OrderFacts DEF IInv, OrderType
  <2>4. [ex[o] EXCEPT !.leaves = ex[o].leaves - q, !.phase = IF ex[o].leaves = q THEN "done" ELSE @] \in ExRecs
        BY <2>1, <2>3 DEF ExRecs
  <2> QED BY <2>3, <2>4 DEF Cancelled
<1>4. /\ e \in ExRecs /\ e.phase = (IF ex[o].leaves = q THEN "done" ELSE "live") /\ e.value = ex[o].value
      /\ e.price = ex[o].price /\ e.leaves = ex[o].leaves - q /\ e.even = ex[o].even
      BY <1>n, <1>3, OrderFacts DEF Cancelled, IInv, OrderType, ExRecs
<1>5. ex[o].phase = "live" /\ (flow # "NASDAQ" => q = ex[o].leaves) BY DEF Cancelled
<1> HIDE DEF r, e
<1>6. ASSUME Life(o) PROVE Alive(r, e)
  <2>1. order[o].remaining = ex[o].leaves /\ ex[o].leaves > 0 /\ order[o].new
        BY <1>5, <1>6, LiveFacts
  <2> QED BY <1>n, <1>2, <1>4, <1>5, <2>1, OrderFacts DEF Alive
<1>7. ASSUME Life(o), Done(seen[o], order[o], ex[o]) PROVE Due(seen[o], r, e)
  <2>1. /\ order[o].remaining = ex[o].leaves /\ ex[o].leaves > 0 /\ order[o].new
        /\ seen[o].new /\ seen[o].filled = order[o].filled /\ seen[o].remaining = order[o].remaining
        /\ seen[o].side = order[o].side /\ seen[o].value = ex[o].value /\ ~seen[o].expired
        BY <1>5, <1>7, LiveFacts
  <2>5. r.status \in {"Cancelled", "Deleted"} BY <1>2
  <2>3. Delta(r) = r.replaced /\ ~Trade(r) BY <2>5 DEF Delta, Trade
  <2>8. r.remaining = seen[o].remaining + Delta(r) BY <1>n, <1>2, <2>1, <2>3, OrderFacts
  <2> QED BY <1>n, <1>2, <1>4, <2>1, <2>3, <2>5, <2>8, OrderFacts DEF Due
<1>8. e.even => r.price = e.price /\ ex[o].even BY <1>2, <1>4, OrderFacts DEF Lived
<1>9. Orderly(r) => Orderly(order[o]) BY <1>2, OrderFacts DEF Orderly
<1>10. r.cancelled_count >= order[o].cancelled_count /\ r.status # "Expired" BY <1>2, OrderFacts
<1> QED BY <1>0, <1>a, <1>1, <1>2, <1>3, <1>4, <1>5, <1>6, <1>7, <1>8, <1>9, <1>10, FillNext DEF e, Reached

LEMMA ExpiredNext == ASSUME IInv, NEW o \in Orders, Expired(o) PROVE IInv'
<1> DEFINE r == [order[o] EXCEPT !.replaced = -order[o].remaining, !.remaining = 0, !.status = "Expired"]
           e == ex'[o]
<1>0. Fill(o, r) /\ UNCHANGED OutsideVars /\ again' = again BY DEF Expired
<1>a. again' \subseteq Orders \X Told BY <1>0 DEF IInv, OrderType
<1>1. r \in OrderRecs
  <2>1. -order[o].remaining \in Int BY OrderFacts
  <2>3. order[o] \in OrderRecs /\ "Expired" \in Statuses /\ 0 \in Int BY OrderFacts DEF Statuses
  <2>2. \A v, w \in Int, t \in Statuses :
           [order[o] EXCEPT !.replaced = v, !.remaining = w, !.status = t] \in OrderRecs
        BY <2>3 DEF OrderRecs
  <2> QED BY <2>1, <2>2, <2>3
<1>2. /\ r.status = "Expired" /\ r.remaining = 0 /\ r.new = order[o].new
      /\ r.replaced = -order[o].remaining
      /\ r.quantity = order[o].quantity /\ r.filled = order[o].filled /\ r.price = order[o].price
      /\ r.cancelled_count = order[o].cancelled_count /\ r.side = order[o].side
      BY OrderFacts DEF OrderRecs
<1>3. ex' \in [Orders -> ExRecs] /\ (\A i \in Orders : i # o => ex'[i] = ex[i])
      BY OrderFacts DEF Expired, IInv, OrderType, ExRecs
<1>4. /\ e \in ExRecs /\ e.phase = "done" /\ e.value = ex[o].value
      /\ e.price = ex[o].price /\ e.leaves = 0 /\ e.even = ex[o].even
      BY <1>3, OrderFacts DEF Expired, IInv, OrderType, ExRecs
<1>5. ex[o].phase = "live" /\ flow = "FIX" BY DEF Expired
<1> HIDE DEF r, e
<1>l. Life(o) => order[o].cancelled_count = 0 /\ order[o].new BY <1>5, LiveFacts
<1>6. ASSUME Life(o) PROVE Alive(r, e) BY <1>l, <1>2, <1>4, <1>5, <1>6 DEF Alive
<1>7. ASSUME Life(o), Done(seen[o], order[o], ex[o]) PROVE Due(seen[o], r, e)
  <2>1. /\ order[o].remaining = ex[o].leaves /\ ex[o].leaves > 0 /\ order[o].new
        /\ seen[o].new /\ seen[o].filled = order[o].filled /\ seen[o].remaining = order[o].remaining
        /\ seen[o].side = order[o].side /\ seen[o].value = ex[o].value /\ ~seen[o].expired
        BY <1>5, <1>7, LiveFacts
  <2>3. Delta(r) = r.replaced /\ ~Trade(r) BY <1>2 DEF Delta, Trade
  <2>8. r.remaining = seen[o].remaining + Delta(r) BY <1>2, <2>1, <2>3, OrderFacts
  <2> QED BY <1>2, <1>4, <2>1, <2>3, <2>8, OrderFacts DEF Due
<1>8. e.even => r.price = e.price /\ ex[o].even BY <1>2, <1>4, OrderFacts DEF Lived
<1>9. Orderly(r) => Orderly(order[o]) BY <1>2, OrderFacts DEF Orderly
<1>10. r.cancelled_count >= order[o].cancelled_count BY <1>2, OrderFacts
<1> QED BY <1>0, <1>a, <1>1, <1>2, <1>3, <1>4, <1>5, <1>6, <1>7, <1>8, <1>9, <1>10, FillNext DEF e, Reached

\* What a replace makes of the order, at price p and quantity k.
LEMMA ReplacedFill ==
  ASSUME IInv, NEW o \in Orders, NEW q \in 1..ex[o].leaves + 1, NEW p \in Int, NEW r \in OrderRecs,
         NEW e \in ExRecs,
         /\ r.status = "Replaced" /\ r.remaining = q /\ r.new = order[o].new /\ r.replaced = q - order[o].remaining
         /\ r.filled = order[o].filled /\ r.price = p
         /\ r.cancelled_count = order[o].cancelled_count /\ r.side = order[o].side,
         flow # "FIX" => r.quantity = order[o].quantity + (q - order[o].remaining),
         ex[o].phase = "live", Fill(o, r), UNCHANGED OutsideVars, again' = again,
         ex' \in [Orders -> ExRecs], ex'[o] = e, \A i \in Orders : i # o => ex'[i] = ex[i],
         e.phase = "live", e.leaves = q, e.value = ex[o].value,
         e.even => p = e.price /\ ex[o].even /\ e.price = ex[o].price
  PROVE  IInv'
<1>n. q \in Nat /\ q > 0 /\ q - order[o].remaining \in Int BY OrderFacts
<1>a. again' \subseteq Orders \X Told /\ again \subseteq again' BY DEF IInv, OrderType
<1>2. /\ r.status = "Replaced" /\ r.remaining = q /\ r.new = order[o].new /\ r.replaced = q - order[o].remaining
      /\ r.filled = order[o].filled /\ r.price = p
      /\ r.cancelled_count = order[o].cancelled_count /\ r.side = order[o].side
      OBVIOUS
<1>6. ASSUME Life(o) PROVE Alive(r, e)
  <2>1. /\ order[o].remaining = ex[o].leaves /\ ex[o].leaves > 0 /\ order[o].new
        /\ order[o].cancelled_count = 0 /\ flow # "FIX" => order[o].quantity = order[o].filled + order[o].remaining
        /\ flow # "NASDAQ" => order[o].cancelled_count = 0
        BY <1>6, LiveFacts
  <2>2. r.cancelled_count = 0 /\ flow # "FIX" => r.quantity = r.filled + r.remaining BY <1>n, <1>2, <2>1, OrderFacts
  <2> QED BY <1>n, <1>2, <2>1, <2>2, OrderFacts DEF Alive
<1>7. ASSUME Life(o), Done(seen[o], order[o], ex[o]) PROVE Due(seen[o], r, e)
  <2>1. /\ order[o].remaining = ex[o].leaves /\ ex[o].leaves > 0 /\ order[o].new
        /\ seen[o].new /\ seen[o].filled = order[o].filled /\ seen[o].remaining = order[o].remaining
        /\ seen[o].side = order[o].side /\ seen[o].value = ex[o].value /\ ~seen[o].expired
        BY <1>7, LiveFacts
  <2>3. Delta(r) = r.replaced /\ ~Trade(r) BY <1>2 DEF Delta, Trade
  <2>8. r.remaining = seen[o].remaining + Delta(r) BY <1>n, <1>2, <2>1, <2>3, OrderFacts
  <2> QED BY <1>n, <1>2, <2>1, <2>3, <2>8, OrderFacts DEF Due
<1>9. Orderly(r) => Orderly(order[o]) BY <1>2, OrderFacts DEF Orderly
<1>10. r.cancelled_count >= order[o].cancelled_count /\ r.status # "Expired" BY <1>2, OrderFacts
<1>8. e.even => r.price = e.price /\ ex[o].even /\ e.price = ex[o].price BY <1>2
<1>11. e.phase \in Reached /\ ex[o].phase # "done" BY DEF Reached
<1> QED BY <1>a, <1>6, <1>7, <1>8, <1>9, <1>10, <1>11, FillNext

LEMMA ReplacedNext ==
  ASSUME IInv, NEW o \in Orders, NEW q \in 1..ex[o].leaves + 1, NEW p \in Prices, Replaced(o, q, p) PROVE IInv'
<1>n. q \in Int /\ q \in Nat /\ p \in Nat /\ p \in Int /\ q - order[o].remaining \in Int
      BY OrderFacts, Inputs DEF Data
<1>k. PICK k \in Int : k = IF flow = "FIX" THEN order[o].filled + q ELSE order[o].quantity + (q - order[o].remaining)
      BY <1>n, OrderFacts
<1>s. PICK r : r = [order[o] EXCEPT !.price = p, !.replaced = q - order[o].remaining, !.remaining = q,
                                    !.quantity = k, !.status = "Replaced"]
      OBVIOUS
<1>0. /\ Fill(o, r) /\ UNCHANGED OutsideVars /\ again' = again /\ ex[o].phase = "live"
      /\ ex' = [ex EXCEPT ![o].leaves = q, ![o].price = p, ![o].even = ex[o].even /\ p = ex[o].price]
      BY <1>k, <1>s DEF Replaced
<1>1. r \in OrderRecs
  <2>1. \A w, x, y \in Int, t \in Statuses :
           [order[o] EXCEPT !.price = p, !.replaced = w, !.remaining = x, !.quantity = y, !.status = t] \in OrderRecs
        BY <1>n, OrderFacts DEF OrderRecs
  <2>2. "Replaced" \in Statuses BY DEF Statuses
  <2> QED BY <1>n, <1>s, <2>1, <2>2
<1>2. /\ r.status = "Replaced" /\ r.remaining = q /\ r.new = order[o].new /\ r.replaced = q - order[o].remaining
      /\ r.quantity = k /\ r.filled = order[o].filled /\ r.price = p
      /\ r.cancelled_count = order[o].cancelled_count /\ r.side = order[o].side
      BY <1>s, OrderFacts DEF OrderRecs
<1>3. (ex[o].even /\ p = ex[o].price) \in BOOLEAN OBVIOUS
<1>4. ex \in [Orders -> ExRecs] /\ ex[o] \in ExRecs BY OrderFacts DEF IInv, OrderType
<1>5. ex' \in [Orders -> ExRecs] /\ (\A i \in Orders : i # o => ex'[i] = ex[i])
      BY <1>n, <1>0, <1>3, <1>4 DEF ExRecs
<1>e. PICK e \in ExRecs : e = ex'[o] BY <1>5
<1>6. /\ e.phase = "live" /\ e.leaves = q /\ e.value = ex[o].value
      /\ e.price = p /\ (e.even <=> ex[o].even /\ p = ex[o].price)
      BY <1>e, <1>0, <1>4 DEF ExRecs
<1>7. e.even => p = e.price /\ ex[o].even /\ e.price = ex[o].price BY <1>6
<1>8. flow # "FIX" => r.quantity = order[o].quantity + (q - order[o].remaining) BY <1>k, <1>2
<1>9. Fill(o, r) /\ UNCHANGED OutsideVars /\ again' = again /\ ex[o].phase = "live" BY <1>0
<1> QED BY <1>n, <1>1, <1>2, <1>5, <1>e, <1>6, <1>7, <1>8, <1>9, ReplacedFill

LEMMA ModifiedNext ==
  ASSUME IInv, NEW o \in Orders, NEW q \in 1..ex[o].leaves + 1, Modified(o, q) PROVE IInv'
<1>n. q \in Int /\ q \in Nat /\ order[o].price \in Int /\ q - order[o].remaining \in Int BY OrderFacts
<1>k. PICK k \in Int : k = order[o].quantity + (q - order[o].remaining) BY <1>n, OrderFacts
<1>s. PICK r : r = [order[o] EXCEPT !.replaced = q - order[o].remaining, !.remaining = q,
                                    !.quantity = k, !.status = "Replaced"]
      OBVIOUS
<1>0. /\ Fill(o, r) /\ UNCHANGED OutsideVars /\ again' = again /\ flow = "NASDAQ" /\ ex[o].phase = "live"
      /\ ex' = [ex EXCEPT ![o].leaves = q]
      BY <1>k, <1>s DEF Modified
<1>1. r \in OrderRecs
  <2>1. \A w, x, y \in Int, t \in Statuses :
           [order[o] EXCEPT !.replaced = w, !.remaining = x, !.quantity = y, !.status = t] \in OrderRecs
        BY OrderFacts DEF OrderRecs
  <2>2. "Replaced" \in Statuses BY DEF Statuses
  <2> QED BY <1>n, <1>s, <2>1, <2>2
<1>p. PICK p \in Int : p = order[o].price BY <1>n
<1>2. /\ r.status = "Replaced" /\ r.remaining = q /\ r.new = order[o].new /\ r.replaced = q - order[o].remaining
      /\ r.quantity = k /\ r.filled = order[o].filled /\ r.price = p
      /\ r.cancelled_count = order[o].cancelled_count /\ r.side = order[o].side
      BY <1>s, <1>p, OrderFacts DEF OrderRecs
<1>4. ex \in [Orders -> ExRecs] /\ ex[o] \in ExRecs /\ Lived(o) BY OrderFacts DEF IInv, OrderType
<1>5. ex' \in [Orders -> ExRecs] /\ (\A i \in Orders : i # o => ex'[i] = ex[i])
      BY <1>n, <1>0, <1>4 DEF ExRecs
<1>e. PICK e \in ExRecs : e = ex'[o] BY <1>5
<1>6. /\ e.phase = "live" /\ e.leaves = q /\ e.value = ex[o].value
      /\ e.price = ex[o].price /\ e.even = ex[o].even
      BY <1>e, <1>0, <1>4 DEF ExRecs
<1>7. e.even => p = e.price /\ ex[o].even /\ e.price = ex[o].price BY <1>4, <1>6, <1>p DEF Lived
<1>8. flow # "FIX" => r.quantity = order[o].quantity + (q - order[o].remaining) BY <1>k, <1>2
<1>9. Fill(o, r) /\ UNCHANGED OutsideVars /\ again' = again /\ ex[o].phase = "live" BY <1>0
<1> QED BY <1>1, <1>2, <1>5, <1>e, <1>6, <1>7, <1>8, <1>9, ReplacedFill
\* Once an update is lost only the types, the slots and the agreement of
\* account and symbol are left to keep.
LEMMA DriftNext ==
  ASSUME IInv, UNCHANGED OutsideVars, OrderType', LivedInv', drift' # {},
         store_to_risk_' \in Seq(Orders \cup {nullptr}), Len(store_to_risk_') <= QueueCap
  PROVE  IInv'
<1>u. /\ UNCHANGED <<flow, market, quotes, strategy_to_risk_, updating, acc, sym, orderrisks_, orderrisk_pool_,
                     stopped, seen, flat>>
      BY DEF OutsideVars, feed, books
<1>1. QueueType' BY <1>u DEF IInv, QueueType
<1>2. UpdateType' /\ BookType' /\ LevelType' BY <1>u DEF IInv, UpdateType, BookType, LevelType
<1>3. SlotInv' /\ TradesAreAccounted' BY <1>u DEF IInv, SlotInv, TradesAreAccounted
<1>4. OnceInv' /\ LifeInv' /\ BookInv' BY DEF OnceInv, LifeInv, BookInv, Clean
<1>5. PositionMatchesFills' BY DEF PositionMatchesFills
<1>6. CountInv' /\ MarginInv' BY DEF CountInv, MarginInv, Faithful
<1>7. LevelInv' /\ KeyInv' BY DEF LevelInv, KeyInv, Clean
<1> QED BY <1>1, <1>2, <1>3, <1>4, <1>5, <1>6, <1>7 DEF IInv

LEMMA PushType ==
  ASSUME QueueType, NEW x \in Orders \cup {nullptr}
  PROVE  /\ Push(store_to_risk_, x) \in Seq(Orders \cup {nullptr})
         /\ Len(Push(store_to_risk_, x)) <= QueueCap
<1> USE Constants
<1>1. store_to_risk_ \in Seq(Orders \cup {nullptr}) /\ Len(store_to_risk_) \in Nat /\ Len(store_to_risk_) <= QueueCap
      BY DEF QueueType
<1>2. /\ Append(store_to_risk_, x) \in Seq(Orders \cup {nullptr})
      /\ Len(Append(store_to_risk_, x)) = Len(store_to_risk_) + 1
      BY <1>1
<1>3. CASE Len(store_to_risk_) < QueueCap
  <2>1. Push(store_to_risk_, x) = Append(store_to_risk_, x) BY <1>3 DEF Push
  <2> QED BY <1>1, <1>2, <1>3, <2>1
<1>4. CASE ~(Len(store_to_risk_) < QueueCap) BY <1>1, <1>4 DEF Push
<1> QED BY <1>3, <1>4

\* A quote waits in the queue and concerns no order.
LEMMA MarketMovesNext == ASSUME IInv, NEW q \in Quotes, MarketMoves(q) PROVE IInv'
<1> DEFINE s == store_to_risk_
<1> USE Constants
<1>u. /\ UNCHANGED <<flow, order, ex, drift, again, strategy_to_risk_, updating, acc, sym, orderrisks_,
                     orderrisk_pool_, stopped, seen, flat>>
      /\ market' = q /\ s' = Push(s, nullptr)
      BY DEF MarketMoves, books, slips
<1>1. OrderType' BY <1>u DEF IInv, OrderType
<1>2. s' \in Seq(Orders \cup {nullptr}) /\ Len(s') <= QueueCap BY <1>u, PushType DEF IInv
<1>3. QueueType' BY <1>u, <1>2 DEF IInv, QueueType
<1>4. q \in Nat \X Nat BY Inputs DEF Data
<1>5. UpdateType' /\ BookType' /\ LevelType' BY <1>u, <1>4 DEF IInv, UpdateType, BookType, LevelType
<1>6. LivedInv' BY <1>u DEF IInv, LivedInv, Lived
<1>7. s \in Seq(Orders \cup {nullptr}) /\ Len(s) \in Nat BY DEF IInv, QueueType
<1>8. s' = s \/ s' = Append(s, nullptr) BY <1>u DEF Push
<1>9. ASSUME NEW p \in Orders PROVE Waiting(p)' <=> Waiting(p)
  <2>1. p \in Range(Append(s, nullptr)) <=> p \in Range(s) \/ p = nullptr BY <1>7, RangeAppend
  <2> QED BY <1>8, <2>1 DEF Waiting
<1>10. OnceInv'
  <2> SUFFICES ASSUME drift' = {}
               PROVE  /\ \A i, j \in 1..Len(s') : s'[i] = s'[j] /\ s'[i] # nullptr => i = j
                      /\ updating.o # nullptr => ~Waiting(updating.o)'
      BY <1>u DEF OnceInv
  <2>1. \A i, j \in 1..Len(s) : s[i] = s[j] /\ s[i] # nullptr => i = j BY <1>u DEF IInv, OnceInv
  <2>2. ASSUME NEW i \in 1..Len(s'), NEW j \in 1..Len(s'), s'[i] = s'[j], s'[i] # nullptr PROVE i = j
    <3>1. CASE s' = s BY <2>1, <2>2, <3>1
    <3>2. CASE s' = Append(s, nullptr)
      <4>1. /\ Len(s') = Len(s) + 1 /\ s'[Len(s) + 1] = nullptr
            /\ \A k \in 1..Len(s) : s'[k] = s[k]
            BY <1>7, <3>2
      <4>2. i \in 1..Len(s) /\ j \in 1..Len(s) BY <1>7, <2>2, <4>1
      <4> QED BY <2>1, <2>2, <4>1, <4>2
    <3> QED BY <3>1, <3>2, <1>8
  <2>3. updating.o # nullptr => ~Waiting(updating.o) BY <1>u DEF IInv, OnceInv
  <2>4. updating.o # nullptr => updating.o \in Orders BY DEF IInv, UpdateType, Updates
  <2>5. ASSUME updating.o # nullptr PROVE ~Waiting(updating.o)'
    <3>1. updating.o \in Orders /\ updating.o \notin Range(s) BY <2>3, <2>4, <2>5 DEF Waiting
    <3>2. updating.o \notin Range(s') BY <3>1, <1>9 DEF Waiting
    <3> QED BY <3>2, <1>u DEF Waiting
  <2> QED BY <2>2, <2>5
<1>11. LifeInv'
  <2> SUFFICES ASSUME Clean', NEW p \in Orders PROVE Life(p)'
      BY DEF LifeInv
  <2>1. Life(p) BY <1>u DEF IInv, LifeInv, Clean
  <2>2. Waiting(p)' <=> Waiting(p) BY <1>9
  <2> QED BY <1>u, <2>1, <2>2 DEF Life, Alive
<1>12. BookInv'
  <2> SUFFICES ASSUME Clean', NEW p \in Orders PROVE Owed(p)'
      BY DEF BookInv
  <2>1. Owed(p) BY <1>u DEF IInv, BookInv, Clean
  <2>2. Waiting(p)' <=> Waiting(p) BY <1>9
  <2> QED BY <1>u, <2>1, <2>2 DEF Owed, Known
<1>13. /\ SlotInv' /\ TradesAreAccounted' /\ PositionMatchesFills'
       /\ CountInv' /\ MarginInv' /\ LevelInv' /\ KeyInv'
  <2>1. \A p \in Orders : order[p].cancelled_count \in Nat BY OrderFacts
  <2>2. \A p \in Orders : order'[p].cancelled_count >= order[p].cancelled_count BY <1>u, <2>1
  <2> QED BY <1>u, <2>1, <2>2, BooksStay
<1> QED BY <1>1, <1>3, <1>5, <1>6, <1>10, <1>11, <1>12, <1>13 DEF IInv

\* A step that leaves the queue to risk alone and changes one order, which
\* risk knows or not: EnterOrder, RequestCancel, check_risk and a replace off
\* the book that finds the queue full.
LEMMA OrderStepNext ==
  ASSUME IInv, UNCHANGED <<flow, store_to_risk_, market, updating, acc, sym, orderrisks_, orderrisk_pool_,
                           stopped, seen, flat, again>>,
         strategy_to_risk_' \in Seq(Orders), drift' \subseteq Orders, drift' = {} => drift = {},
         order' \in [Orders -> OrderRecs], ex' \in [Orders -> ExRecs],
         NEW o \in Orders, \A p \in Orders : p # o => order'[p] = order[p] /\ ex'[p] = ex[p],
         Lived(o)', Clean' => Life(o)',
         Clean' => order'[o] = order[o] \/ (~Waiting(o) /\ updating.o # o),
         drift' = {} /\ Done(seen[o], order[o], ex[o]) => Done(seen[o], order'[o], ex'[o]),
         ex'[o].even = ex[o].even, ex'[o].price = ex[o].price \/ ~seen[o].new, ex'[o].value = ex[o].value,
         order'[o].cancelled_count = order[o].cancelled_count,
         drift' = {} /\ Orderly(order'[o]) => Orderly(order[o])
  PROVE  IInv'
<1> USE Constants
<1>1. OrderType' BY DEF IInv, OrderType
<1>2. QueueType' /\ UpdateType' /\ BookType' /\ LevelType'
      BY DEF IInv, QueueType, UpdateType, BookType, LevelType
<1>3. LivedInv'
  <2> SUFFICES ASSUME NEW p \in Orders PROVE Lived(p)'
      BY DEF LivedInv
  <2>1. CASE p = o BY <2>1
  <2>2. CASE p # o
    <3>1. Lived(p) BY OrderFacts
    <3> QED BY <2>2, <3>1 DEF Lived
  <2> QED BY <2>1, <2>2
<1>4. \A p : Waiting(p)' <=> Waiting(p) BY DEF Waiting
<1>5. OnceInv' BY <1>4 DEF IInv, OnceInv, Waiting
<1>6. LifeInv'
  <2> SUFFICES ASSUME Clean', NEW p \in Orders PROVE Life(p)'
      BY DEF LifeInv
  <2>1. CASE p = o BY <2>1
  <2>2. CASE p # o
    <3>1. Life(p) BY DEF IInv, LifeInv, Clean
    <3>2. Waiting(p)' <=> Waiting(p) BY <1>4
    <3> QED BY <2>2, <3>1, <3>2 DEF Life, Alive
  <2> QED BY <2>1, <2>2
<1>7. BookInv'
  <2> SUFFICES ASSUME Clean', NEW p \in Orders PROVE Owed(p)'
      BY DEF BookInv
  <2>0. Owed(p) /\ drift' = {} BY DEF IInv, BookInv, Clean
  <2>3. Waiting(p)' <=> Waiting(p) BY <1>4
  <2>4. ex'[p].value = ex[p].value /\ ex'[p].even = ex[p].even OBVIOUS
  <2>1. CASE order'[p] = order[p] BY <2>0, <2>1, <2>3, <2>4 DEF Owed, Due, Same, Done, Known
  <2>2. CASE p = o /\ ~Waiting(o)
    <3>1. Done(seen[o], order[o], ex[o]) BY <2>0, <2>2 DEF Owed
    <3>2. Done(seen[o], order'[o], ex'[o]) BY <2>0, <3>1
    <3> QED BY <2>2, <2>3, <3>2 DEF Owed
  <2> QED BY <2>0, <2>1, <2>2
<1>8. ASSUME drift' = {}
      PROVE  /\ SlotInv' /\ TradesAreAccounted' /\ PositionMatchesFills'
             /\ CountInv' /\ MarginInv' /\ LevelInv' /\ KeyInv'
  <2>1. \A p \in Orders : ex'[p].even => ex[p].even OBVIOUS
  <2>2. \A p \in Orders : ex'[p].even => ex'[p].price = ex[p].price \/ ~seen[p].new BY <1>8
  <2>3. (\A p \in Orders : Orderly(order'[p])) => \A p \in Orders : Orderly(order[p])
        BY <1>8
  <2>4. Clean' /\ updating.o # nullptr => order'[updating.o] = order[updating.o]
        BY <1>8 DEF IInv, UpdateType, Updates
  <2>5. \A p \in Orders : order[p].cancelled_count \in Nat /\ order'[p].cancelled_count \in Nat
        BY DEF IInv, OrderType, OrderRecs
  <2>6. \A p \in Orders : order'[p].cancelled_count >= order[p].cancelled_count
        BY <2>5
  <2> QED BY <1>8, <2>1, <2>2, <2>3, <2>4, <2>5, <2>6, BooksStay
<1>9. ASSUME drift' # {}
      PROVE  /\ SlotInv' /\ TradesAreAccounted' /\ PositionMatchesFills'
             /\ CountInv' /\ MarginInv' /\ LevelInv' /\ KeyInv'
  <2>1. SlotInv' /\ TradesAreAccounted' BY <1>9 DEF IInv, SlotInv, TradesAreAccounted
  <2> QED BY <1>9, <2>1 DEF PositionMatchesFills, CountInv, MarginInv, Faithful, LevelInv, KeyInv, Clean
<1> QED BY <1>1, <1>2, <1>3, <1>5, <1>6, <1>7, <1>8, <1>9 DEF IInv

LEMMA EnterOrderNext == ASSUME IInv, NEW o \in Orders, NEW e \in Entries, EnterOrder(o, e) PROVE IInv'
<1> USE Constants
<1>e. e.side \in Sides /\ e.price \in Nat /\ e.quantity \in Nat /\ e.quantity > 0 /\ e.price \in Int /\ e.quantity \in Int
      BY Inputs DEF Data
<1>u. /\ UNCHANGED <<flow, store_to_risk_, market, updating, acc, sym, orderrisks_, orderrisk_pool_,
                     stopped, seen, flat, drift, again>>
      /\ ex[o].phase = "idle"
      BY DEF EnterOrder, feed, books, slips
<1>1. strategy_to_risk_' \in Seq(Orders) BY DEF EnterOrder, IInv, QueueType
<1>2. drift' \subseteq Orders /\ order \in [Orders -> OrderRecs] /\ ex \in [Orders -> ExRecs]
      /\ order[o] \in OrderRecs /\ ex[o] \in ExRecs
      BY <1>u, OrderFacts DEF IInv, OrderType
<1>3. order' \in [Orders -> OrderRecs] /\ ex' \in [Orders -> ExRecs]
      BY <1>e, <1>2 DEF EnterOrder, OrderRecs, ExRecs
<1>4. \A p \in Orders : p # o => order'[p] = order[p] /\ ex'[p] = ex[p] BY <1>2 DEF EnterOrder
<1>5. /\ order'[o].side = e.side /\ order'[o].price = e.price /\ order'[o].quantity = e.quantity
      /\ order'[o].filled = order[o].filled /\ order'[o].remaining = order[o].remaining
      /\ order'[o].new = order[o].new /\ order'[o].status = order[o].status
      /\ order'[o].cancelled_count = order[o].cancelled_count
      BY <1>2 DEF EnterOrder, OrderRecs
<1>6. /\ ex'[o].phase = "asked" /\ ex'[o].price = e.price /\ ex'[o].leaves = e.quantity
      /\ ex'[o].even = ex[o].even /\ ex'[o].value = ex[o].value
      BY <1>2 DEF EnterOrder, ExRecs
<1>7. Lived(o) /\ order[o].cancelled_count \in Nat BY OrderFacts
<1>8. ~seen[o].new /\ ~order[o].new /\ ~seen[o].expired /\ order[o].status # "Expired"
      BY <1>u, <1>7 DEF Lived, Reached
<1>9. Lived(o)' BY <1>u, <1>5, <1>6, <1>8 DEF Lived
<1>10. ASSUME Clean' PROVE Life(o)'
  <2>1. Life(o) BY <1>u, <1>10 DEF IInv, LifeInv, Clean
  <2>2. /\ order[o].filled = 0 /\ order[o].remaining = 0 /\ order[o].cancelled_count = 0
        /\ order[o].status = "Unknown" /\ ~Waiting(o) /\ updating.o # o
        BY <1>u, <2>1 DEF Life, Reached
  <2>3. ~Waiting(o)' BY <1>u, <2>2 DEF Waiting
  <2> QED BY <1>e, <1>u, <1>5, <1>6, <1>8, <2>2, <2>3 DEF Life, Reached
<1>13. ASSUME Clean' PROVE ~Waiting(o) /\ updating.o # o
  <2>1. Life(o) BY <1>u, <1>13 DEF IInv, LifeInv, Clean
  <2> QED BY <1>u, <2>1 DEF Life, Reached
<1>11. Done(seen[o], order[o], ex[o]) => Done(seen[o], order'[o], ex'[o]) BY <1>5, <1>6, <1>8 DEF Done
<1>12. Orderly(order'[o]) => Orderly(order[o]) BY <1>5 DEF Orderly
<1> QED BY <1>u, <1>1, <1>2, <1>3, <1>4, <1>5, <1>6, <1>8, <1>9, <1>10, <1>11, <1>12, <1>13, OrderStepNext

LEMMA RequestCancelNext == ASSUME IInv, NEW o \in Orders, RequestCancel(o) PROVE IInv'
<1> USE Constants
<1>u. /\ UNCHANGED <<flow, store_to_risk_, market, updating, acc, sym, orderrisks_, orderrisk_pool_,
                     stopped, seen, flat, again, ex>>
      /\ ex[o].phase = "live" /\ drift' = drift \cup (IF Unbooked(o) THEN {o} ELSE {})
      BY DEF RequestCancel, feed, books, Slip
<1>1. strategy_to_risk_' \in Seq(Orders) BY DEF RequestCancel, IInv, QueueType
<1>2. drift \subseteq Orders /\ order \in [Orders -> OrderRecs] /\ ex \in [Orders -> ExRecs]
      /\ order[o] \in OrderRecs /\ ex[o] \in ExRecs
      BY OrderFacts DEF IInv, OrderType
<1>3. order' \in [Orders -> OrderRecs] BY <1>2 DEF RequestCancel, OrderRecs, Statuses
<1>4. \A p \in Orders : p # o => order'[p] = order[p] BY <1>2 DEF RequestCancel
<1>5. /\ order'[o].side = order[o].side /\ order'[o].price = order[o].price /\ order'[o].quantity = order[o].quantity
      /\ order'[o].filled = order[o].filled /\ order'[o].remaining = order[o].remaining
      /\ order'[o].new = order[o].new /\ order'[o].status = "CancelRequest"
      /\ order'[o].cancelled_count = order[o].cancelled_count
      BY <1>2 DEF RequestCancel, OrderRecs
<1>6. Lived(o) /\ order[o].cancelled_count \in Nat BY OrderFacts
<1>7. Lived(o)' BY <1>u, <1>5, <1>6 DEF Lived
<1>8. ASSUME drift' = {} PROVE drift = {} /\ ~Waiting(o) /\ updating.o # o
      BY <1>u, <1>8 DEF Unbooked, Waiting
<1>12. ASSUME Clean' PROVE Life(o)'
  <2>1. drift = {} /\ ~Waiting(o) /\ updating.o # o BY <1>8, <1>12 DEF Clean
  <2>2. Life(o) BY <1>u, <1>12, <2>1 DEF IInv, LifeInv, Clean
  <2>3. ~Waiting(o)' BY <1>u, <2>1 DEF Waiting
  <2>4. flow # "NASDAQ" => ~(order[o].cancelled_count > 0) BY <1>u, <1>6, <2>2, LiveFacts
  <2>5. Alive(order[o], ex[o]) BY <1>u, <2>2 DEF Life, Reached
  <2>6. Alive(order'[o], ex[o]) BY <1>u, <1>5, <2>4, <2>5 DEF Alive
  <2> QED BY <1>u, <1>5, <2>6 DEF Life, Alive, Reached
<1>9. Done(seen[o], order[o], ex[o]) => Done(seen[o], order'[o], ex'[o]) BY <1>u, <1>5 DEF Done
<1>10. Orderly(order'[o]) => Orderly(order[o]) BY <1>5, <1>6 DEF Orderly
<1>11. drift' \subseteq Orders BY <1>u, <1>2
<1>13. Clean' => drift' = {} BY DEF Clean
<1> QED BY <1>u, <1>1, <1>2, <1>3, <1>4, <1>5, <1>7, <1>8, <1>9, <1>10, <1>11, <1>12, <1>13, OrderStepNext

LEMMA CheckRiskNext == ASSUME IInv, check_risk PROVE IInv'
<1> USE Constants
<1>u. /\ UNCHANGED <<flow, store_to_risk_, market, updating, acc, sym, orderrisks_, orderrisk_pool_,
                     stopped, seen, flat, drift, again, order>>
      BY DEF check_risk, feed, store, slips, Pass, Refuse, check_cancel_rate_limit
<1>1. Head(strategy_to_risk_) \in Orders /\ strategy_to_risk_' \in Seq(Orders)
  <2>1. strategy_to_risk_ \in Seq(Orders) /\ strategy_to_risk_ # <<>> /\ strategy_to_risk_' = Tail(strategy_to_risk_)
        BY DEF IInv, QueueType, check_risk
  <2> QED BY <2>1
<1>o. PICK o \in Orders : o = Head(strategy_to_risk_) BY <1>1
<1>2. \/ ex' = ex
      \/ ex' = [ex EXCEPT ![o].phase = IF @ = "asked" THEN "sent" ELSE @]
      \/ ex' = [ex EXCEPT ![o].phase = IF @ = "asked" THEN "refused" ELSE @]
      BY <1>o DEF check_risk, store, Pass, Refuse, check_cancel_rate_limit
<1>3. ex \in [Orders -> ExRecs] /\ ex[o] \in ExRecs /\ order \in [Orders -> OrderRecs] /\ drift \subseteq Orders
      BY <1>1, OrderFacts DEF IInv, OrderType
<1>4. ex' \in [Orders -> ExRecs] /\ \A p \in Orders : p # o => ex'[p] = ex[p]
  <2>1. CASE ex' = ex BY <1>3, <2>1
  <2>2. CASE ex' = [ex EXCEPT ![o].phase = IF @ = "asked" THEN "sent" ELSE @] BY <1>3, <2>2 DEF ExRecs
  <2>3. CASE ex' = [ex EXCEPT ![o].phase = IF @ = "asked" THEN "refused" ELSE @] BY <1>3, <2>3 DEF ExRecs
  <2> QED BY <1>2, <2>1, <2>2, <2>3
<1>5. /\ ex'[o].price = ex[o].price /\ ex'[o].leaves = ex[o].leaves /\ ex'[o].even = ex[o].even
      /\ ex'[o].value = ex[o].value
      /\ ex'[o].phase = ex[o].phase \/ (ex[o].phase = "asked" /\ ex'[o].phase \in {"sent", "refused"})
      BY <1>1, <1>2, <1>3 DEF ExRecs
<1>6. Lived(o)' BY <1>u, <1>1, <1>5, OrderFacts DEF Lived, Reached
<1>7. ASSUME Clean' PROVE Life(o)'
  <2>1. Life(o) BY <1>u, <1>1, <1>7 DEF IInv, LifeInv, Clean
  <2>2. Waiting(o)' <=> Waiting(o) BY <1>u DEF Waiting
  <2>3. CASE ex'[o].phase = ex[o].phase BY <1>u, <1>5, <2>1, <2>2, <2>3 DEF Life, Alive
  <2>4. CASE ex[o].phase = "asked" /\ ex'[o].phase \in {"sent", "refused"}
        BY <1>u, <1>5, <2>1, <2>2, <2>4 DEF Life, Alive, Reached
  <2> QED BY <1>5, <2>3, <2>4
<1>8. Done(seen[o], order[o], ex[o]) => Done(seen[o], order'[o], ex'[o]) BY <1>u, <1>5 DEF Done
<1> QED BY <1>u, <1>1, <1>3, <1>4, <1>5, <1>6, <1>7, <1>8, OrderStepNext

\* The order is pushed as it is: risk books its status a second time.
LEMMA ReplacedOffBookNext == ASSUME IInv, NEW o \in Orders, ReplacedOffBook(o) PROVE IInv'
<1> USE Constants
<1> DEFINE q == store_to_risk_
           e == ex'[o]
<1>r. PICK r \in OrderRecs : r = order[o] BY OrderFacts
<1>0. /\ flow = "BIST" /\ ex[o].phase = "live" /\ order' = order /\ q' = Push(q, o) /\ UNCHANGED OutsideVars
      /\ drift' = drift \cup (IF Unbooked(o) THEN {o} ELSE {})
      /\ (IF Unbooked(o) THEN {o} ELSE {}) \subseteq drift \/ <<amends', Cardinality(drift')>> \in Bounds[flow]
      /\ PushedAgain(o, r.status)
      /\ \E phase \in {"live", "gone"} : ex' = [ex EXCEPT ![o].phase = phase]
      BY <1>r DEF ReplacedOffBook, Slip
<1>u. UNCHANGED <<flow, market, updating, acc, sym, orderrisks_, orderrisk_pool_, stopped, seen, flat, strategy_to_risk_>>
      BY <1>0 DEF OutsideVars, feed, books
<1>1. ex \in [Orders -> ExRecs] /\ ex[o] \in ExRecs /\ order \in [Orders -> OrderRecs]
      /\ drift \subseteq Orders /\ Lived(o) /\ again \subseteq Orders \X Told
      BY OrderFacts DEF IInv, OrderType
<1>2. ex' \in [Orders -> ExRecs] /\ (\A p \in Orders : p # o => ex'[p] = ex[p])
      BY <1>0, <1>1 DEF ExRecs
<1>3. /\ e \in ExRecs /\ e.phase \in {"live", "gone"} /\ e.price = ex[o].price /\ e.leaves = ex[o].leaves
      /\ e.even = ex[o].even /\ e.value = ex[o].value
      BY <1>0, <1>1 DEF ExRecs
<1>4. Len(q) \in Nat /\ Len(q) <= QueueCap BY DEF IInv, QueueType
<1>5. ASSUME Life(o) PROVE Alive(r, e)
  <2>1. Alive(r, ex[o]) BY <1>r, <1>0, <1>5 DEF Life, Reached
  <2>2. flow # "NASDAQ" => ~(r.cancelled_count > 0) BY <1>r, <1>0, <1>1, <1>5, LiveFacts DEF OrderRecs
  <2> QED BY <1>0, <1>3, <2>1, <2>2 DEF Alive
<1>6. CASE Len(q) < QueueCap
  <2>1. Fill(o, r)
    <3>1. Overruns(o) <=> Unbooked(o) BY <1>4, <1>6 DEF Overruns
    <3>2. order' = [order EXCEPT ![o] = r] BY <1>r, <1>0, <1>1
    <3> QED BY <1>0, <3>1, <3>2 DEF Fill, Slip
  <2>2. again' = IF r.status \in Told THEN again \cup {<<o, r.status>>} ELSE again
        BY <1>0, <1>6 DEF PushedAgain, Told
  <2>3. again \subseteq again' /\ again' \subseteq Orders \X Told BY <1>1, <2>2
  <2>4. ASSUME Life(o), Done(seen[o], order[o], ex[o]) PROVE Same(seen[o], r, e) /\ Known(o, r.status)'
    <3>1. /\ r.remaining = ex[o].leaves /\ ex[o].leaves > 0 /\ r.new /\ ~seen[o].expired
          /\ r.status \in {"New", "Partial", "Replaced", "CancelRequest"}
          /\ seen[o].new /\ seen[o].side = r.side /\ seen[o].filled = r.filled
          /\ seen[o].remaining = r.remaining /\ seen[o].value = ex[o].value
          BY <1>r, <1>0, <2>4, LiveFacts
    <3>2. Same(seen[o], r, e) BY <1>3, <3>1 DEF Same, Told
    <3>3. r.status \in Told => <<o, r.status>> \in again' BY <2>2
    <3> QED BY <3>1, <3>2, <3>3 DEF Known, Told
  <2>5. e.even => r.price = e.price /\ ex[o].even /\ e.price = ex[o].price BY <1>r, <1>1, <1>3 DEF Lived
  <2>6. r.cancelled_count >= order[o].cancelled_count /\ r.status # "Expired"
        BY <1>r, <1>0, <1>1 DEF Lived, OrderRecs
  <2>7. e.phase \in Reached /\ ex'[o] = e /\ ex[o].phase # "done" BY <1>0, <1>3 DEF Reached
  <2>8. Orderly(r) => Orderly(order[o]) BY <1>r
  <2> HIDE DEF e
  <2> QED BY <1>0, <1>1, <1>2, <1>3, <1>5, <2>1, <2>3, <2>4, <2>5, <2>6, <2>7, <2>8, FillNext
<1>7. CASE ~(Len(q) < QueueCap)
  <2>1. q' = q /\ again' = again BY <1>0, <1>7 DEF Push, PushedAgain
  <2>2. Lived(o)' BY <1>r, <1>0, <1>u, <1>1, <1>3 DEF Lived, Reached
  <2>3. ASSUME Clean' PROVE Life(o)'
    <3>1. Life(o) BY <1>0, <1>u, <2>3 DEF IInv, LifeInv, Clean
    <3>2. Alive(r, e) BY <1>5, <3>1
    <3>3. Waiting(o)' <=> Waiting(o) BY <2>1 DEF Waiting
    <3> QED BY <1>r, <1>0, <1>u, <1>3, <3>1, <3>2, <3>3 DEF Life, Alive, Reached
  <2>4. Done(seen[o], order[o], ex[o]) => Done(seen[o], order'[o], ex'[o]) BY <1>0, <1>3 DEF Done
  <2>5. drift' \subseteq Orders /\ (drift' = {} => drift = {}) /\ strategy_to_risk_' \in Seq(Orders)
        BY <1>0, <1>u, <1>1 DEF IInv, QueueType
  <2>6. order' \in [Orders -> OrderRecs] /\ order'[o] = order[o] /\ \A p \in Orders : p # o => order'[p] = order[p]
        BY <1>0, <1>1
  <2> QED BY <1>u, <1>2, <1>3, <2>1, <2>2, <2>3, <2>4, <2>5, <2>6, OrderStepNext
<1> QED BY <1>6, <1>7

LEMMA ReplacedFixNext ==
  ASSUME IInv, NEW o \in Orders, NEW q \in 0..ex[o].leaves + 1, NEW p \in Prices, ReplacedFix(o, q, p) PROVE IInv'
<1> USE Constants
<1> DEFINE e == ex'[o]
<1>n. q \in Nat /\ p \in Nat /\ p \in Int BY OrderFacts, Inputs DEF Data
<1>0. /\ flow = "FIX" /\ ex[o].phase = "live" /\ UNCHANGED OutsideVars /\ (q = 0 => order[o].filled > 0)
      /\ ex' = [ex EXCEPT ![o].leaves = q, ![o].price = p, ![o].phase = IF q = 0 THEN "done" ELSE @,
                          ![o].even = ex[o].even /\ p = ex[o].price /\ order[o].filled = 0]
      BY DEF ReplacedFix
<1>1. ex \in [Orders -> ExRecs] /\ ex[o] \in ExRecs /\ order[o] \in OrderRecs /\ again \subseteq Orders \X Told
      /\ order[o].filled \in Nat /\ order[o].cancelled_count \in Nat
      BY OrderFacts DEF IInv, OrderType
<1>2. (ex[o].even /\ p = ex[o].price /\ order[o].filled = 0) \in BOOLEAN OBVIOUS
<1>3. ex' \in [Orders -> ExRecs] /\ (\A i \in Orders : i # o => ex'[i] = ex[i])
  <2>1. [ex[o] EXCEPT !.leaves = q, !.price = p, !.phase = IF q = 0 THEN "done" ELSE @,
                      !.even = ex[o].even /\ p = ex[o].price /\ order[o].filled = 0] \in ExRecs
        BY <1>n, <1>1, <1>2 DEF ExRecs
  <2> QED BY <1>0, <1>1, <2>1
<1>4. /\ e \in ExRecs /\ e.phase = (IF q = 0 THEN "done" ELSE "live") /\ e.leaves = q /\ e.value = ex[o].value
      /\ e.price = p /\ (e.even <=> ex[o].even /\ p = ex[o].price /\ order[o].filled = 0)
      BY <1>0, <1>1, <1>3 DEF ExRecs
<1>5. e.phase \in Reached /\ ex'[o] = e /\ ex[o].phase # "done" BY <1>0, <1>4 DEF Reached
<1>l. Life(o) => order[o].cancelled_count = 0 /\ order[o].new BY <1>0, LiveFacts
<1>d. ASSUME Life(o), Done(seen[o], order[o], ex[o])
      PROVE  /\ order[o].remaining = ex[o].leaves /\ ex[o].leaves > 0 /\ order[o].new /\ ~seen[o].expired
             /\ seen[o].new /\ seen[o].side = order[o].side /\ seen[o].filled = order[o].filled
             /\ seen[o].remaining = order[o].remaining /\ seen[o].value = ex[o].value
      BY <1>0, <1>d, LiveFacts
<1> HIDE DEF e
<1>6. CASE order[o].filled = 0
  <2>1. PICK r \in OrderRecs : r = [order[o] EXCEPT !.price = p, !.quantity = q, !.remaining = q, !.status = "New"]
    <3>1. \A v, w, x \in Int, s \in Statuses :
             [order[o] EXCEPT !.price = v, !.quantity = w, !.remaining = x, !.status = s] \in OrderRecs
          BY <1>1 DEF OrderRecs
    <3>2. q \in Int /\ "New" \in Statuses BY <1>n DEF Statuses
    <3> QED BY <1>n, <3>1, <3>2
  <2>0. Fill(o, r) /\ PushedAgain(o, "New") /\ q > 0 BY <1>n, <1>0, <1>6, <2>1 DEF ReplacedFix
  <2>2. /\ r.status = "New" /\ r.remaining = q /\ r.new = order[o].new
        /\ r.filled = order[o].filled /\ r.price = p
        /\ r.cancelled_count = order[o].cancelled_count /\ r.side = order[o].side
        BY <1>1, <2>1 DEF OrderRecs
  <2>3. again' = IF Len(store_to_risk_) < QueueCap THEN again \cup {<<o, "New">>} ELSE again
        BY <2>0 DEF PushedAgain
  <2>4. again \subseteq again' /\ again' \subseteq Orders \X Told BY <1>1, <2>3 DEF Told
  <2>5. ASSUME Life(o) PROVE Alive(r, e) BY <1>n, <1>0, <1>l, <1>4, <1>6, <2>0, <2>2, <2>5 DEF Alive
  <2>6. ASSUME Life(o), Done(seen[o], order[o], ex[o]), Len(store_to_risk_) < QueueCap
        PROVE  Same(seen[o], r, e) /\ Known(o, r.status)'
    <3>1. Same(seen[o], r, e) BY <1>d, <2>6, <1>4, <2>0, <2>2 DEF Same, Told
    <3> QED BY <2>2, <2>3, <2>6, <3>1 DEF Known
  <2>7. e.even => r.price = e.price /\ ex[o].even /\ e.price = ex[o].price BY <1>4, <2>2
  <2>8. r.cancelled_count >= order[o].cancelled_count /\ r.status # "Expired" BY <1>1, <2>2
  <2>9. Life(o) /\ Orderly(r) => Orderly(order[o]) BY <1>l DEF Orderly
  <2> QED BY <1>0, <1>3, <1>4, <1>5, <2>0, <2>1, <2>4, <2>5, <2>6, <2>7, <2>8, <2>9, FillNext
<1>7. CASE order[o].filled # 0
  <2>1. PICK r \in OrderRecs : r = [order[o] EXCEPT !.price = 0, !.last_exec = 0, !.remaining = q,
                                                    !.status = IF q = 0 THEN "Filled" ELSE "Partial"]
    <3>1. \A v, w \in Int, n \in Nat, s \in Statuses :
             [order[o] EXCEPT !.price = v, !.last_exec = n, !.remaining = w, !.status = s] \in OrderRecs
          BY <1>1 DEF OrderRecs
    <3>2. 0 \in Nat /\ 0 \in Int /\ q \in Int /\ (IF q = 0 THEN "Filled" ELSE "Partial") \in Statuses
          BY <1>n DEF Statuses
    <3> QED BY <3>1, <3>2
  <2>0. Fill(o, r) /\ again' = again BY <1>7, <2>1 DEF ReplacedFix
  <2>2. /\ r.status = (IF q = 0 THEN "Filled" ELSE "Partial") /\ r.remaining = q /\ r.new = order[o].new
        /\ r.filled = order[o].filled /\ r.price = 0 /\ r.last_exec = 0
        /\ r.cancelled_count = order[o].cancelled_count /\ r.side = order[o].side
        BY <1>1, <2>1 DEF OrderRecs
  <2>4. again \subseteq again' /\ again' \subseteq Orders \X Told BY <1>1, <2>0
  <2>5. ASSUME Life(o) PROVE Alive(r, e)
    <3>1. r.status \in {"Filled", "Partial"} /\ (r.status = "Partial" => q # 0) BY <2>2
    <3>2. q # 0 => q > 0 BY <1>n
    <3>3. r.cancelled_count = 0 /\ r.new /\ r.remaining = e.leaves BY <1>l, <1>4, <2>2, <2>5
    <3> QED BY <1>0, <1>4, <3>1, <3>2, <3>3 DEF Alive
  <2>6. ASSUME Life(o), Done(seen[o], order[o], ex[o]) PROVE Due(seen[o], r, e)
    <3>1. r.status \in {"Filled", "Partial"} /\ (r.status = "Partial" => q # 0) /\ (r.status = "Filled" => q = 0)
          BY <2>2
    <3>2. q # 0 => q > 0 BY <1>n
    <3>3. Trade(r) /\ r.price * r.last_exec = 0 /\ ~e.even BY <3>1, <1>4, <1>7, <2>2 DEF Trade
    <3>4. r.filled = seen[o].filled + r.last_exec /\ e.value = seen[o].value + r.price * r.last_exec
          BY <1>d, <2>6, <1>4, <2>2, <3>3, OrderFacts
    <3> QED BY <1>d, <2>6, <2>2, <3>1, <3>2, <3>3, <3>4 DEF Due
  <2>7. e.even => r.price = e.price /\ ex[o].even /\ e.price = ex[o].price BY <1>4, <1>7
  <2>8. r.cancelled_count >= order[o].cancelled_count /\ r.status # "Expired" BY <1>1, <2>2
  <2>9. Life(o) /\ Orderly(r) => Orderly(order[o]) BY <1>l DEF Orderly
  <2> QED BY <1>0, <1>3, <1>4, <1>5, <2>0, <2>1, <2>4, <2>5, <2>6, <2>7, <2>8, <2>9, FillNext
<1> QED BY <1>6, <1>7

\* The orders in some order: each once.
LEMMA SetSequence ==
  ASSUME NEW S \in SUBSET Orders, NEW s \in SetToSeqs(S)
  PROVE  /\ s \in Seq(Orders \cup {nullptr}) /\ Len(s) \in Nat
         /\ \A i \in 1..Len(s) : s[i] \in S
         /\ \A i, j \in 1..Len(s) : s[i] = s[j] => i = j
         /\ \A o : o \in Range(s) <=> o \in S
<1> USE Constants
<1> DEFINE n == Cardinality(S)
<1>1. IsFiniteSet(S) BY FS_Subset
<1>2. n \in Nat BY <1>1, FS_CardinalityType
<1>3. s \in [1..n -> S] /\ \A i, j \in 1..n : i # j => s[i] # s[j] BY DEF SetToSeqs
<1>4. IsFiniteSet(1..n) /\ Cardinality(1..n) = n
  <2>1. IsFiniteSet(1..n) /\ Cardinality(1..n) = IF 1 > n THEN 0 ELSE n - 1 + 1 BY <1>2, FS_Interval
  <2> HIDE DEF n
  <2> QED BY <1>2, <2>1
<1>5. s \in Injection(1..n, S) BY <1>3 DEF Injection, IsInjective
<1>6. s \in Surjection(1..n, S) BY <1>1, <1>4, <1>5, FS_Injection
<1> HIDE DEF n
<1>7. \A i \in 1..n : s[i] \in Orders \cup {nullptr} BY <1>3
<1>8. s \in Seq(Orders \cup {nullptr}) /\ Len(s) = n BY <1>2, <1>3, <1>7, SeqDef
<1>9. \A o : o \in Range(s) <=> o \in S BY <1>3, <1>6 DEF Range, Surjection
<1> QED BY <1>2, <1>3, <1>8, <1>9

LEMMA RangeConcat ==
  ASSUME NEW S, NEW q \in Seq(S), NEW s \in Seq(S), NEW y
  PROVE  y \in Range(q \o s) <=> y \in Range(q) \/ y \in Range(s)
<1>1. /\ Len(q) \in Nat /\ Len(s) \in Nat /\ DOMAIN q = 1..Len(q) /\ DOMAIN s = 1..Len(s)
      /\ q \o s \in Seq(S) /\ Len(q \o s) = Len(q) + Len(s) /\ DOMAIN (q \o s) = 1..Len(q) + Len(s)
      /\ \A i \in 1..Len(q) : (q \o s)[i] = q[i]
      /\ \A i \in 1..Len(s) : (q \o s)[Len(q) + i] = s[i]
      OBVIOUS
<1>2. ASSUME y \in Range(q) PROVE y \in Range(q \o s)
  <2>1. PICK i \in 1..Len(q) : y = q[i] BY <1>1, <1>2 DEF Range
  <2>2. i \in 1..Len(q) + Len(s) BY <1>1
  <2> QED BY <1>1, <2>1, <2>2 DEF Range
<1>3. ASSUME y \in Range(s) PROVE y \in Range(q \o s)
  <2>1. PICK i \in 1..Len(s) : y = s[i] BY <1>1, <1>3 DEF Range
  <2>2. Len(q) + i \in 1..Len(q) + Len(s) BY <1>1
  <2> QED BY <1>1, <2>1, <2>2 DEF Range
<1>4. ASSUME y \in Range(q \o s) PROVE y \in Range(q) \/ y \in Range(s)
  <2>1. PICK i \in 1..Len(q) + Len(s) : y = (q \o s)[i] BY <1>1, <1>4 DEF Range
  <2>2. CASE i \in 1..Len(q) BY <1>1, <2>1, <2>2 DEF Range
  <2>3. CASE i \notin 1..Len(q)
    <3>1. i - Len(q) \in 1..Len(s) /\ Len(q) + (i - Len(q)) = i BY <1>1, <2>3
    <3>2. y = s[i - Len(q)] BY <1>1, <2>1, <3>1
    <3> QED BY <1>1, <3>1, <3>2 DEF Range
  <2> QED BY <2>2, <2>3
<1> QED BY <1>2, <1>3, <1>4

LEMMA FlushNext == ASSUME IInv, handle_flush_status PROVE IInv'
<1> DEFINE flushed == {o \in Orders : order[o].status \in {"New", "Partial"}}
           filled(o) == IF order[o].status = "New" THEN 0 ELSE order[o].filled
           q == store_to_risk_
           room == QueueCap - Len(q)
<1> USE Constants
<1>1. /\ flow # "NASDAQ" /\ UNCHANGED OutsideVars /\ again' = again
      /\ order' = [o \in Orders |->
                     IF o \in flushed
                     THEN [order[o] EXCEPT !.status = "Cancelled", !.cancelled_count = @ + 1,
                                           !.remaining = order[o].quantity - filled(o)]
                     ELSE order[o]]
      /\ ex' = [o \in Orders |-> IF o \in flushed
                                 THEN [ex[o] EXCEPT !.phase = "gone", !.even = @ /\ order[o].replaced = 0]
                                 ELSE ex[o]]
      BY DEF handle_flush_status
<1>s. PICK s \in SetToSeqs(flushed) :
         /\ q' = PushAll(q, s)
         /\ drift' = drift \cup ({o \in flushed : Unbooked(o)} \cup {s[i] : i \in {j \in 1..Len(s) : j > room}})
      BY DEF handle_flush_status, Slip
<1>2. flushed \in SUBSET Orders OBVIOUS
<1>f. \A o \in Orders : o \in flushed <=> order[o].status \in {"New", "Partial"} OBVIOUS
<1> HIDE DEF flushed
<1>3. /\ s \in Seq(Orders \cup {nullptr}) /\ Len(s) \in Nat
      /\ \A i \in 1..Len(s) : s[i] \in flushed
      /\ \A i, j \in 1..Len(s) : s[i] = s[j] => i = j
      /\ \A o : o \in Range(s) <=> o \in flushed
      BY <1>2, <1>s, SetSequence
<1>q. q \in Seq(Orders \cup {nullptr}) /\ Len(q) \in Nat /\ Len(q) <= QueueCap /\ room \in Nat BY DEF IInv, QueueType
<1>d. drift' \subseteq Orders BY <1>s, <1>2, <1>3 DEF IInv, OrderType
<1>u. UNCHANGED <<flow, market, quotes, strategy_to_risk_, updating, acc, sym, orderrisks_, orderrisk_pool_,
                  stopped, seen, flat>>
      BY <1>1 DEF OutsideVars, feed, books
<1>4. ASSUME NEW o \in Orders
      PROVE  /\ order'[o] \in OrderRecs
             /\ o \notin flushed => order'[o] = order[o]
             /\ o \in flushed => /\ order'[o].status = "Cancelled" /\ order'[o].price = order[o].price
                                 /\ order'[o].new = order[o].new /\ order'[o].side = order[o].side
                                 /\ order'[o].quantity = order[o].quantity /\ order'[o].filled = order[o].filled
                                 /\ order'[o].replaced = order[o].replaced
                                 /\ order'[o].remaining = order[o].quantity - filled(o)
                                 /\ order'[o].cancelled_count = order[o].cancelled_count + 1
  <2>1. filled(o) \in Nat /\ order[o] \in OrderRecs /\ order[o].quantity \in Int /\ order[o].cancelled_count \in Nat
        BY OrderFacts
  <2> HIDE DEF filled
  <2>2. order[o].quantity - filled(o) \in Int /\ order[o].cancelled_count + 1 \in Nat BY <2>1
  <2>3. "Cancelled" \in Statuses BY DEF Statuses
  <2>4. CASE o \in flushed
    <3>1. order'[o] = [order[o] EXCEPT !.status = "Cancelled", !.cancelled_count = @ + 1,
                                       !.remaining = order[o].quantity - filled(o)]
          BY <1>1, <2>4
    <3>2. order'[o] \in OrderRecs BY <2>1, <2>2, <2>3, <3>1 DEF OrderRecs
    <3> QED BY <2>1, <2>4, <3>1, <3>2 DEF OrderRecs
  <2>5. CASE o \notin flushed BY <1>1, <2>1, <2>5
  <2> QED BY <2>4, <2>5
<1>5. ASSUME NEW o \in Orders
      PROVE  /\ ex'[o] \in ExRecs /\ ex'[o].price = ex[o].price /\ ex'[o].value = ex[o].value
             /\ ex'[o].leaves = ex[o].leaves /\ (ex'[o].even => ex[o].even)
             /\ o \notin flushed => ex'[o] = ex[o]
             /\ o \in flushed => ex'[o].phase = "gone" /\ (ex'[o].even => order[o].replaced = 0)
  <2>1. ex[o] \in ExRecs BY OrderFacts
  <2>2. (ex[o].even /\ order[o].replaced = 0) \in BOOLEAN OBVIOUS
  <2>3. CASE o \in flushed
    <3>1. ex'[o] = [ex[o] EXCEPT !.phase = "gone", !.even = ex[o].even /\ order[o].replaced = 0] BY <1>1, <2>3
    <3> QED BY <2>1, <2>2, <2>3, <3>1 DEF ExRecs
  <2>4. CASE o \notin flushed BY <1>1, <2>1, <2>4
  <2> QED BY <2>3, <2>4
<1>6. OrderType'
  <2>1. order' \in [Orders -> OrderRecs] BY <1>1, <1>4
  <2>2. ex' \in [Orders -> ExRecs] BY <1>1, <1>5
  <2> QED BY <1>1, <1>d, <1>u, <2>1, <2>2 DEF IInv, OrderType
<1>7. LivedInv'
  <2> SUFFICES ASSUME NEW o \in Orders PROVE Lived(o)'
      BY DEF LivedInv
  <2>1. Lived(o) BY OrderFacts
  <2>2. CASE o \notin flushed BY <1>u, <1>4, <1>5, <2>1, <2>2 DEF Lived
  <2>3. CASE o \in flushed
    <3>1. ~seen[o].expired BY <1>f, <2>1, <2>3 DEF Lived
    <3> QED BY <1>u, <1>4, <1>5, <2>1, <2>3, <3>1 DEF Lived, Reached
  <2> QED BY <2>2, <2>3
<1>8. q' \in Seq(Orders \cup {nullptr}) /\ Len(q') <= QueueCap
  <2>8. CASE Len(s) <= room
    <3>1. q' = q \o s BY <1>s, <2>8 DEF PushAll
    <3>2. q \o s \in Seq(Orders \cup {nullptr}) /\ Len(q \o s) = Len(q) + Len(s) BY <1>3, <1>q
    <3> QED BY <1>3, <1>q, <2>8, <3>1, <3>2
  <2>9. CASE ~(Len(s) <= room)
    <3>1. q' = q \o SubSeq(s, 1, room) BY <1>s, <2>9 DEF PushAll
    <3>2. SubSeq(s, 1, room) \in Seq(Orders \cup {nullptr}) /\ Len(SubSeq(s, 1, room)) = room
      <4>1. \A i \in 1..room : s[i] \in Orders \cup {nullptr} BY <1>3, <1>q, <2>9
      <4>2. 1 \in Int /\ room \in Int BY <1>q
      <4> HIDE DEF room
      <4>3. SubSeq(s, 1, room) \in Seq(Orders \cup {nullptr}) /\ Len(SubSeq(s, 1, room)) = IF 1 <= room THEN room - 1 + 1 ELSE 0
            BY <4>1, <4>2, SubSeqProperties
      <4> QED BY <4>3, <1>q
    <3>3. q \o SubSeq(s, 1, room) \in Seq(Orders \cup {nullptr})
          /\ Len(q \o SubSeq(s, 1, room)) = Len(q) + Len(SubSeq(s, 1, room))
          BY <1>q, <3>2
    <3> QED BY <1>q, <3>1, <3>2, <3>3
  <2> QED BY <2>8, <2>9
<1>9. CASE drift' # {} BY <1>1, <1>6, <1>7, <1>8, <1>9, DriftNext
<1>10. CASE drift' = {}
  <2>1. drift = {} /\ (\A o \in flushed : ~Waiting(o) /\ updating.o # o)
        BY <1>s, <1>10 DEF Unbooked, Waiting
  <2>2. q' = q \o s
    <3>1. \A i \in 1..Len(s) : ~(i > room) BY <1>s, <1>10
    <3>2. Len(s) <= room
      <4>1. SUFFICES ASSUME Len(s) > room PROVE FALSE BY <1>3, <1>q
      <4>2. Len(s) \in 1..Len(s) BY <1>3, <1>q, <4>1
      <4> QED BY <3>1, <4>1, <4>2
    <3> QED BY <1>s, <3>2 DEF PushAll
  <2>3. \A o : Waiting(o)' <=> Waiting(o) \/ o \in flushed
        BY <1>3, <1>q, <2>2, RangeConcat DEF Waiting
  <2>4. OnceInv'
    <3>1. ASSUME NEW i \in 1..Len(q'), NEW j \in 1..Len(q'), q'[i] = q'[j], q'[i] # nullptr PROVE i = j
      <4>1. /\ Len(q') = Len(q) + Len(s)
            /\ \A k \in 1..Len(q) : q'[k] = q[k]
            /\ \A k \in 1..Len(s) : q'[Len(q) + k] = s[k]
            BY <1>3, <1>q, <2>2
      <4>2. \A k \in 1..Len(q) : q[k] \notin flushed BY <1>q, <2>1 DEF Waiting, Range
      <4>3. \A k, l \in 1..Len(q) : q[k] = q[l] /\ q[k] # nullptr => k = l BY <2>1 DEF IInv, OnceInv
      <4>4. ASSUME NEW k \in 1..Len(q'), k \notin 1..Len(q)
            PROVE  k - Len(q) \in 1..Len(s) /\ q'[k] = s[k - Len(q)] /\ q'[k] \in flushed
        <5>1. k - Len(q) \in 1..Len(s) /\ Len(q) + (k - Len(q)) = k BY <1>3, <1>q, <4>1, <4>4
        <5> QED BY <1>3, <4>1, <5>1
      <4>5. CASE i \in 1..Len(q) /\ j \in 1..Len(q) BY <3>1, <4>1, <4>3, <4>5
      <4>6. CASE i \in 1..Len(q) /\ j \notin 1..Len(q) BY <3>1, <4>1, <4>2, <4>4, <4>6
      <4>7. CASE i \notin 1..Len(q) /\ j \in 1..Len(q) BY <3>1, <4>1, <4>2, <4>4, <4>7
      <4>8. CASE i \notin 1..Len(q) /\ j \notin 1..Len(q)
        <5>1. i - Len(q) = j - Len(q) BY <1>3, <3>1, <4>4, <4>8
        <5> QED BY <1>q, <4>1, <1>3, <5>1
      <4> QED BY <4>5, <4>6, <4>7, <4>8
    <3>3. updating.o # nullptr => ~Waiting(updating.o) /\ updating.o \notin flushed BY <2>1 DEF IInv, OnceInv
    <3>4. updating.o # nullptr => updating.o \notin Range(q') BY <2>3, <3>3 DEF Waiting
    <3>2. updating.o # nullptr => ~Waiting(updating.o)' BY <1>u, <3>4 DEF Waiting
    <3> QED BY <1>u, <3>1, <3>2 DEF OnceInv
  <2>5. ASSUME Clean', NEW o \in flushed
        PROVE  /\ Life(o) /\ Owed(o) /\ flow = "BIST" /\ order[o].cancelled_count = 0 /\ order[o].new
               /\ order'[o].remaining = order[o].remaining /\ order[o].remaining = ex[o].leaves /\ ex[o].leaves > 0
    <3>1. Clean /\ o \in Orders BY <1>u, <1>2, <2>1, <2>5 DEF Clean
    <3>2. Life(o) /\ Owed(o) BY <3>1 DEF IInv, LifeInv, BookInv
    <3>3. order[o].status \in {"New", "Partial"} BY <1>f, <3>1
    <3>4. flow = "BIST"
      <4>1. flow # "FIX" BY <2>1, <3>2, <3>3 DEF Life
      <4> QED BY <1>1, <4>1, FlowAssumption DEF IInv, OrderType
    <3>5. ex[o].phase \in Reached BY <3>2, <3>3 DEF Life
    <3>6. Alive(order[o], ex[o]) BY <3>2, <3>5 DEF Life
    <3>7. order[o].cancelled_count = 0
      <4>1. ~(order[o].cancelled_count > 0) BY <1>1, <3>3, <3>6 DEF Alive
      <4>2. order[o].cancelled_count \in Nat BY <3>1, OrderFacts
      <4> QED BY <4>1, <4>2
    <3>8. /\ order[o].quantity = order[o].filled + order[o].remaining /\ order[o].new
          /\ order[o].remaining = ex[o].leaves /\ ex[o].leaves > 0
          /\ order[o].status = "New" => order[o].filled = 0
          BY <1>1, <3>3, <3>4, <3>6, <3>7 DEF Alive
    <3>9. filled(o) = order[o].filled BY <3>8
    <3>10. order'[o].remaining = order[o].quantity - filled(o) BY <1>4, <2>5, <3>1
    <3>11. order'[o].remaining = order[o].remaining BY <3>1, <3>8, <3>9, <3>10, OrderFacts
    <3> QED BY <3>2, <3>4, <3>7, <3>8, <3>11
  <2>6. ASSUME Clean', NEW o \in Orders PROVE Life(o)' /\ Owed(o)'
    <3>1. Clean /\ Life(o) /\ Owed(o) BY <1>u, <2>1, <2>6 DEF IInv, LifeInv, BookInv, Clean
    <3>2. CASE o \notin flushed
      <4>1. order'[o] = order[o] /\ ex'[o] = ex[o] /\ (Waiting(o)' <=> Waiting(o)) BY <1>4, <1>5, <2>3, <3>2
      <4>2. Life(o)' BY <1>u, <3>1, <4>1 DEF Life, Alive
      <4>4. seen'[o] = seen[o] /\ again' = again BY <1>1, <1>u
      <4>5. Known(o, order[o].status)' <=> Known(o, order[o].status) BY <4>1, <4>4 DEF Known
      <4>3. Owed(o)' BY <3>1, <4>1, <4>4, <4>5 DEF Owed
      <4> QED BY <4>2, <4>3
    <3>3. CASE o \in flushed
      <4>1. /\ order[o].cancelled_count = 0 /\ order[o].new
            /\ order'[o].remaining = order[o].remaining /\ order[o].remaining = ex[o].leaves /\ ex[o].leaves > 0
            BY <2>5, <2>6, <3>3
      <4>2. /\ order'[o].status = "Cancelled" /\ order'[o].cancelled_count = 1 /\ order'[o].new
            /\ order'[o].side = order[o].side /\ order'[o].filled = order[o].filled
            /\ order'[o].replaced = order[o].replaced
            BY <1>4, <3>3, <4>1
      <4>3. ex'[o].phase = "gone" /\ ex'[o].leaves = ex[o].leaves BY <1>5, <3>3
      <4>4. Life(o)' BY <4>1, <4>2, <4>3 DEF Life, Alive, Reached
      <4>5. Waiting(o)' /\ ~Waiting(o) BY <2>1, <2>3, <3>3
      <4>6. Done(seen[o], order[o], ex[o]) BY <3>1, <4>5 DEF Owed
      <4>7. ~seen[o].expired BY <1>f, <3>3, OrderFacts DEF Lived
      <4>8. Delta(order'[o]) = order[o].replaced /\ ~Trade(order'[o]) BY <4>2 DEF Delta, Trade
      <4>9. ex'[o].even => order'[o].remaining = seen[o].remaining + Delta(order'[o])
            BY <1>5, <3>3, <4>1, <4>6, <4>8, OrderFacts DEF Done
      <4>10. Due(seen[o], order'[o], ex'[o])
             BY <1>5, <4>1, <4>2, <4>6, <4>7, <4>8, <4>9, OrderFacts DEF Due, Done
      <4>11. Owed(o)' BY <1>u, <4>5, <4>10 DEF Owed
      <4> QED BY <4>4, <4>11
    <3> QED BY <3>2, <3>3
  <2>7. LifeInv' /\ BookInv' BY <2>6 DEF LifeInv, BookInv
  <2>8. /\ SlotInv' /\ TradesAreAccounted' /\ PositionMatchesFills'
        /\ CountInv' /\ MarginInv' /\ LevelInv' /\ KeyInv'
    <3>1. Clean' /\ updating.o # nullptr => order'[updating.o] = order[updating.o]
      <4>1. updating.o # nullptr => updating.o \in Orders /\ updating.o \notin flushed
            BY <2>1 DEF IInv, UpdateType, Updates
      <4> QED BY <1>4, <4>1
    <3>2. \A o \in Orders : order[o].cancelled_count \in Nat /\ order'[o].cancelled_count \in Nat
          BY <1>4, OrderFacts DEF OrderRecs
    <3>3. \A o \in Orders : order'[o].cancelled_count >= order[o].cancelled_count BY <1>4, <3>2
    <3>4. ASSUME Clean', \A o \in Orders : Orderly(order'[o]), NEW o \in Orders PROVE Orderly(order[o])
      <4>1. CASE o \notin flushed BY <1>4, <3>4, <4>1
      <4>2. CASE o \in flushed BY <2>5, <3>4, <4>2 DEF Orderly
      <4> QED BY <4>1, <4>2
    <3>5. \A o \in Orders : ex'[o].even => ex[o].even BY <1>5
    <3>6. \A o \in Orders : ex'[o].even => ex'[o].price = ex[o].price \/ ~seen[o].new BY <1>5
    <3>7. UNCHANGED <<acc, sym, orderrisks_, orderrisk_pool_, updating, stopped, seen, flat>> /\ again \subseteq again'
          BY <1>u, <1>1
    <3> QED BY <2>1, <3>1, <3>2, <3>3, <3>4, <3>5, <3>6, <3>7, BooksStay
  <2>9. QueueType' /\ UpdateType' /\ BookType' /\ LevelType'
        BY <1>u, <1>8 DEF IInv, QueueType, UpdateType, BookType, LevelType
  <2> QED BY <1>6, <1>7, <2>4, <2>7, <2>8, <2>9 DEF IInv
<1> QED BY <1>9, <1>10

-----------------------------------------------------------------------------
(* The books *)

\* A SymbolRisk before the counts are kept from being negative.
SymInts == [pending_notional : Int, open_orders_count : Int, best_bid : Nat, best_ask : Nat, unrealized_pnl : Int,
            cost_basis : Int, realized_pnl : Int, net_position : Int, avg_entry_price : Int]

LEMMA SymbolIsInts == \A y \in SymbolRisk : y \in SymInts
  BY DEF SymbolRisk, SymInts

LEMMA MarkValue == ASSUME NEW y \in SymInts PROVE update_unrealized_pnl(y) \in Int
<1>1. /\ y.best_bid \in Int /\ y.best_ask \in Int /\ y.avg_entry_price \in Int /\ y.net_position \in Int
      BY DEF SymInts
<1>2. Abs(y.net_position) \in Int BY <1>1 DEF Abs
<1>3. /\ (y.best_bid - y.avg_entry_price) * y.net_position \in Int
      /\ (y.avg_entry_price - y.best_ask) * Abs(y.net_position) \in Int
      BY <1>1, <1>2
<1> QED BY <1>1, <1>3 DEF update_unrealized_pnl

\* The fields a mark leaves alone.
Unmarked(x, y) == /\ x.net_position = y.net_position /\ x.open_orders_count = y.open_orders_count
                  /\ x.cost_basis = y.cost_basis /\ x.realized_pnl = y.realized_pnl

LEMMA MarkedEffect ==
  ASSUME NEW y \in SymInts
  PROVE  /\ Marked(y) \in SymInts /\ Unmarked(Marked(y), y)
         /\ Marked(y).unrealized_pnl = IF Markable(y) THEN update_unrealized_pnl(y) ELSE y.unrealized_pnl
<1>1. update_unrealized_pnl(y) \in Int BY MarkValue
<1>2. [y EXCEPT !.unrealized_pnl = update_unrealized_pnl(y)] \in SymInts BY <1>1 DEF SymInts
<1>3. CASE Markable(y)
  <2>1. Marked(y) = [y EXCEPT !.unrealized_pnl = update_unrealized_pnl(y)] BY <1>3 DEF Marked
  <2> QED BY <1>2, <1>3, <2>1 DEF SymInts, Unmarked
<1>4. CASE ~Markable(y)
  <2>1. Marked(y) = y BY <1>4 DEF Marked
  <2> QED BY <1>4, <2>1 DEF Unmarked
<1> QED BY <1>3, <1>4

LEMMA ClampedEffect ==
  ASSUME NEW y \in SymInts
  PROVE  /\ Clamped(y) \in SymbolRisk
         /\ Clamped(y).net_position = y.net_position /\ Clamped(y).cost_basis = y.cost_basis
         /\ Clamped(y).realized_pnl = y.realized_pnl /\ Clamped(y).unrealized_pnl = y.unrealized_pnl
         /\ y.open_orders_count >= 0 => Clamped(y).open_orders_count = y.open_orders_count
<1>1. y.pending_notional \in Int /\ y.open_orders_count \in Int BY DEF SymInts
<1>2. /\ (IF y.pending_notional < 0 THEN 0 ELSE y.pending_notional) \in Nat
      /\ (IF y.open_orders_count < 0 THEN 0 ELSE y.open_orders_count) \in Nat
      BY <1>1
<1>3. Clamped(y) \in SymbolRisk BY <1>2 DEF Clamped, SymInts, SymbolRisk
<1> QED BY <1>1, <1>3 DEF Clamped, SymInts

\* The account follows the mark of the symbol.
LEMMA MarkedAccountEffect ==
  ASSUME NEW a \in AccountRisk, NEW y \in SymInts
  PROVE  /\ MarkedAccount(a, y) \in AccountRisk
         /\ MarkedAccount(a, y).open_orders_count = a.open_orders_count
         /\ MarkedAccount(a, y).used_margin = a.used_margin
         /\ MarkedAccount(a, y).daily_realized_pnl = a.daily_realized_pnl
         /\ a.total_unrealized_pnl = y.unrealized_pnl =>
               MarkedAccount(a, y).total_unrealized_pnl = Marked(y).unrealized_pnl
<1>1. /\ a.total_unrealized_pnl \in Int /\ y.unrealized_pnl \in Int /\ update_unrealized_pnl(y) \in Int
      BY MarkValue DEF AccountRisk, SymInts
<1>2. CASE Markable(y)
  <2>1. PICK v \in Int : v = (a.total_unrealized_pnl - y.unrealized_pnl) + update_unrealized_pnl(y) BY <1>1
  <2>2. MarkedAccount(a, y) = [a EXCEPT !.total_unrealized_pnl = v] BY <1>2, <2>1 DEF MarkedAccount
  <2>3. a.total_unrealized_pnl = y.unrealized_pnl => v = update_unrealized_pnl(y) BY <1>1, <2>1
  <2>4. Marked(y).unrealized_pnl = update_unrealized_pnl(y) BY <1>2, MarkedEffect
  <2>5. MarkedAccount(a, y) \in AccountRisk BY <2>2 DEF AccountRisk
  <2>6. /\ MarkedAccount(a, y).open_orders_count = a.open_orders_count
        /\ MarkedAccount(a, y).used_margin = a.used_margin
        /\ MarkedAccount(a, y).daily_realized_pnl = a.daily_realized_pnl
        /\ MarkedAccount(a, y).total_unrealized_pnl = v
        BY <2>2 DEF AccountRisk
  <2> QED BY <2>3, <2>4, <2>5, <2>6
<1>3. CASE ~Markable(y)
  <2>1. MarkedAccount(a, y) = a /\ Marked(y).unrealized_pnl = y.unrealized_pnl
        BY <1>3, MarkedEffect DEF MarkedAccount
  <2> QED BY <2>1
<1> QED BY <1>2, <1>3

\* The thread takes the front of the queue.
LEMMA QueueTail ==
  ASSUME IInv, store_to_risk_ # <<>>, store_to_risk_' = Tail(store_to_risk_)
  PROVE  /\ Head(store_to_risk_) \in Orders \cup {nullptr}
         /\ store_to_risk_' \in Seq(Orders \cup {nullptr}) /\ Len(store_to_risk_') <= QueueCap
         /\ \A p : p \in Range(store_to_risk_) <=> p = Head(store_to_risk_) \/ p \in Range(store_to_risk_')
         /\ drift = {} => \A i, j \in 1..Len(store_to_risk_') :
               store_to_risk_'[i] = store_to_risk_'[j] /\ store_to_risk_'[i] # nullptr => i = j
         /\ drift = {} /\ Head(store_to_risk_) # nullptr => Head(store_to_risk_) \notin Range(store_to_risk_')
<1> DEFINE q == store_to_risk_
           t == Tail(q)
<1> USE Constants
<1>1. q \in Seq(Orders \cup {nullptr}) /\ Len(q) <= QueueCap BY DEF IInv, QueueType
<1>2. /\ Head(q) \in Orders \cup {nullptr} /\ t \in Seq(Orders \cup {nullptr}) /\ Len(t) = Len(q) - 1
      /\ Len(q) \in Nat /\ Len(q) > 0
      /\ Head(q) = q[1] /\ \A i \in 1..Len(q) - 1 : t[i] = q[i + 1]
      /\ \A y : y \in Range(q) <=> y = Head(q) \/ y \in Range(t)
      BY <1>1, RangeTail
<1>3. Len(t) <= QueueCap BY <1>1, <1>2
<1>4. ASSUME drift = {} PROVE \A i, j \in 1..Len(q) : q[i] = q[j] /\ q[i] # nullptr => i = j
      BY <1>4 DEF IInv, OnceInv
<1> HIDE DEF q, t
<1>5. ASSUME drift = {}, NEW i \in 1..Len(t), NEW j \in 1..Len(t), t[i] = t[j], t[i] # nullptr PROVE i = j
  <2>1. i + 1 \in 1..Len(q) /\ j + 1 \in 1..Len(q) /\ i \in 1..Len(q) - 1 /\ j \in 1..Len(q) - 1 BY <1>2
  <2>2. t[i] = q[i + 1] /\ t[j] = q[j + 1] BY <1>2, <2>1
  <2>3. i + 1 = j + 1 BY <1>4, <1>5, <2>1, <2>2
  <2> QED BY <2>3
<1>6. ASSUME drift = {}, Head(q) # nullptr, Head(q) \in Range(t) PROVE FALSE
  <2>1. DOMAIN t = 1..Len(t) BY <1>2
  <2>2. PICK i \in 1..Len(t) : Head(q) = t[i] BY <1>6, <2>1 DEF Range
  <2>3. i + 1 \in 1..Len(q) /\ 1 \in 1..Len(q) /\ i \in 1..Len(q) - 1 BY <1>2
  <2>4. q[1] = q[i + 1] BY <1>2, <2>2, <2>3
  <2>5. 1 = i + 1 BY <1>2, <1>4, <1>6, <2>3, <2>4
  <2> QED BY <2>5
<1> QED BY <1>2, <1>3, <1>5, <1>6 DEF q, t

LEMMA UpdateMarketNext == ASSUME IInv, update_market PROVE IInv'
<1> DEFINE y == [sym EXCEPT !.best_bid = market[1], !.best_ask = market[2]]
<1> USE Constants
<1>u. /\ UNCHANGED <<flow, order, ex, drift, again, strategy_to_risk_, updating, market,
                     orderrisks_, orderrisk_pool_, stopped, seen, flat>>
      /\ updating = NoUpdate /\ store_to_risk_ # <<>> /\ Head(store_to_risk_) = nullptr
      /\ store_to_risk_' = Tail(store_to_risk_)
      /\ sym' = Clamped(Marked(y)) /\ acc' = MarkedAccount(acc, y)
      BY DEF update_market, feed, slips
<1>1. /\ store_to_risk_' \in Seq(Orders \cup {nullptr}) /\ Len(store_to_risk_') <= QueueCap
      /\ \A p : p \in Range(store_to_risk_) <=> p = nullptr \/ p \in Range(store_to_risk_')
      /\ drift = {} => \A i, j \in 1..Len(store_to_risk_') :
            store_to_risk_'[i] = store_to_risk_'[j] /\ store_to_risk_'[i] # nullptr => i = j
      BY <1>u, QueueTail
<1>2. sym \in SymbolRisk /\ acc \in AccountRisk /\ market \in Nat \X Nat BY DEF IInv, BookType
<1>3. market[1] \in Nat /\ market[2] \in Nat BY <1>2
<1>4. /\ y \in SymInts /\ Unmarked(y, sym) /\ y.unrealized_pnl = sym.unrealized_pnl
      /\ sym.open_orders_count >= 0
  <2>1. sym \in SymInts /\ sym.open_orders_count \in Nat BY <1>2, SymbolIsInts DEF SymbolRisk
  <2>2. y \in SymInts BY <1>3, <2>1 DEF SymInts
  <2>3. Unmarked(y, sym) /\ y.unrealized_pnl = sym.unrealized_pnl BY <2>1 DEF SymInts, Unmarked
  <2> QED BY <2>1, <2>2, <2>3
<1> HIDE DEF y
<1>5. /\ sym' \in SymbolRisk /\ Unmarked(sym', sym) /\ sym'.unrealized_pnl = Marked(y).unrealized_pnl
  <2>1. Marked(y) \in SymInts /\ Unmarked(Marked(y), sym) BY <1>4, MarkedEffect DEF Unmarked
  <2>2. PICK z \in SymInts : z = Marked(y) BY <2>1
  <2>3. sym' = Clamped(z) /\ Unmarked(z, sym) BY <1>u, <2>1, <2>2
  <2>4. z.open_orders_count >= 0 BY <1>4, <2>3 DEF Unmarked
  <2> QED BY <2>2, <2>3, <2>4, ClampedEffect DEF Unmarked
<1>6. /\ acc' \in AccountRisk /\ acc'.open_orders_count = acc.open_orders_count /\ acc'.used_margin = acc.used_margin
      /\ acc'.daily_realized_pnl = acc.daily_realized_pnl
      /\ acc.total_unrealized_pnl = sym.unrealized_pnl => acc'.total_unrealized_pnl = sym'.unrealized_pnl
      BY <1>u, <1>2, <1>4, <1>5, MarkedAccountEffect
<1>t. TradesAreAccounted'
      BY <1>u, <1>5, <1>6 DEF IInv, TradesAreAccounted, NotAgain, BookedValue, Unmarked
<1>7. \A p \in Orders : Waiting(p)' <=> Waiting(p) BY <1>1 DEF Waiting
<1>8. OrderType' /\ QueueType' /\ UpdateType' /\ BookType' /\ LevelType' /\ SlotInv' /\ LivedInv'
  <2>1. OrderType' /\ QueueType' BY <1>u, <1>1 DEF IInv, OrderType, QueueType
  <2>2. UpdateType' /\ BookType' BY <1>u, <1>2, <1>5, <1>6 DEF IInv, UpdateType, BookType
  <2>3. LevelType' /\ SlotInv' BY <1>u DEF IInv, LevelType, SlotInv
  <2>4. LivedInv' BY <1>u DEF IInv, LivedInv, Lived
  <2> QED BY <2>1, <2>2, <2>3, <2>4
<1>9. updating.o = nullptr /\ updating.book = "none" BY <1>u DEF NoUpdate
<1>10. OnceInv' BY <1>u, <1>1, <1>9 DEF OnceInv
<1>11. LifeInv'
  <2> SUFFICES ASSUME Clean', NEW p \in Orders PROVE Life(p)'
      BY DEF LifeInv
  <2>1. Life(p) BY <1>u DEF IInv, LifeInv, Clean
  <2>2. Waiting(p)' <=> Waiting(p) BY <1>7
  <2> QED BY <1>u, <2>1, <2>2 DEF Life, Alive
<1>12. BookInv'
  <2> SUFFICES ASSUME Clean', NEW p \in Orders PROVE Owed(p)'
      BY DEF BookInv
  <2>1. Owed(p) BY <1>u DEF IInv, BookInv, Clean
  <2>2. Waiting(p)' <=> Waiting(p) BY <1>7
  <2> QED BY <1>u, <2>1, <2>2 DEF Owed, Known
<1>13. PositionMatchesFills' BY <1>u, <1>5 DEF IInv, PositionMatchesFills, BookedFills, NotAgain, Unmarked
<1>14. Open' = Open /\ Expiries' = Expiries /\ (Faithful' <=> Faithful) /\ (AllEven' <=> AllEven)
       BY <1>u DEF Open, Expiries, Faithful, AllEven, NotAgain
<1>15. Account = acc /\ Account' = acc' BY <1>u, <1>9 DEF Account
<1>16. CountInv' BY <1>u, <1>5, <1>6, <1>14, <1>15 DEF IInv, CountInv, Unmarked
<1>17. MarginInv' BY <1>u, <1>6, <1>14, <1>15 DEF IInv, MarginInv, OpenValue
<1>18. LevelInv' BY <1>u DEF IInv, LevelInv, NoSecondCancel, Alone, Guarded, IsGuarded, Clean
<1>19. KeyInv' BY <1>u, <1>9 DEF IInv, KeyInv, Clean
<1> QED BY <1>t, <1>8, <1>10, <1>11, <1>12, <1>13, <1>16, <1>17, <1>18, <1>19 DEF IInv

LEMMA ClearStatusNext == ASSUME IInv, clear_status PROVE IInv'
<1> USE Constants
<1>u. /\ UNCHANGED <<flow, ex, drift, again, store_to_risk_, market, strategy_to_risk_, acc, sym, orderrisks_,
                     orderrisk_pool_, stopped, seen, flat>>
      /\ updating.book = "status" /\ updating' = NoUpdate
      BY DEF clear_status, feed, books, slips
<1>1. updating.o \in Orders /\ flow = "FIX" BY <1>u DEF IInv, UpdateType, Updates
<1>2. PICK o \in Orders : o = updating.o BY <1>1
<1>3. order' = [order EXCEPT ![o].status = "Unknown"] BY <1>2 DEF clear_status
<1>4. order \in [Orders -> OrderRecs] /\ order[o] \in OrderRecs BY OrderFacts DEF IInv, OrderType
<1>5. order' \in [Orders -> OrderRecs] /\ \A p \in Orders : p # o => order'[p] = order[p]
      BY <1>3, <1>4 DEF OrderRecs, Statuses
<1>6. /\ order'[o].side = order[o].side /\ order'[o].price = order[o].price /\ order'[o].quantity = order[o].quantity
      /\ order'[o].filled = order[o].filled /\ order'[o].remaining = order[o].remaining
      /\ order'[o].new = order[o].new /\ order'[o].status = "Unknown"
      /\ order'[o].cancelled_count = order[o].cancelled_count
      BY <1>3, <1>4 DEF OrderRecs
<1>7. \A p : Waiting(p)' <=> Waiting(p) BY <1>u DEF Waiting
<1>8. OrderType' /\ QueueType' /\ BookType' /\ LevelType' /\ SlotInv' /\ TradesAreAccounted'
  <2>1. OrderType' BY <1>u, <1>5 DEF IInv, OrderType
  <2>2. QueueType' /\ BookType' /\ LevelType' BY <1>u DEF IInv, QueueType, BookType, LevelType
  <2> QED BY <1>u, <2>1, <2>2 DEF IInv, SlotInv, TradesAreAccounted, NotAgain, BookedValue
<1>9. UpdateType'
  <2>1. NoUpdate \in Updates /\ NoUpdate.o = nullptr /\ NoUpdate.book = "none"
        BY DEF NoUpdate, Updates
  <2> QED BY <1>u, <2>1 DEF IInv, UpdateType
<1>10. LivedInv'
  <2> SUFFICES ASSUME NEW p \in Orders PROVE Lived(p)'
      BY DEF LivedInv
  <2>1. Lived(p) BY OrderFacts
  <2>2. CASE p = o BY <1>u, <1>6, <2>1, <2>2 DEF Lived
  <2>3. CASE p # o BY <1>u, <1>5, <2>1, <2>3 DEF Lived
  <2> QED BY <2>2, <2>3
<1>11. OnceInv' BY <1>u DEF IInv, OnceInv, NoUpdate
<1>12. ASSUME Clean, NEW p \in Orders PROVE Life(p)'
  <2>1. Life(p) BY <1>12 DEF IInv, LifeInv
  <2>2. updating'.o = nullptr /\ p # nullptr BY <1>u DEF NoUpdate
  <2>3. CASE p = o
    <3>1. ex[o].phase \in Reached BY <1>2, <2>1, <2>3 DEF Life
    <3>2. Alive(order[o], ex[o]) BY <2>1, <2>3, <3>1 DEF Life
    <3>3. Alive(order'[o], ex[o]) BY <1>1, <1>6, <3>2 DEF Alive
    <3> QED BY <1>u, <1>6, <2>3, <3>1, <3>3 DEF Life, Alive, Reached
  <2>4. CASE p # o
    <3>1. order'[p] = order[p] /\ ex'[p] = ex[p] /\ flow' = flow BY <1>u, <1>5, <2>4
    <3>2. Waiting(p)' <=> Waiting(p) BY <1>7
    <3>3. updating.o # p BY <1>2, <2>4
    <3> QED BY <3>1, <3>2, <3>3, <2>1, <2>2 DEF Life, Alive
  <2> QED BY <2>3, <2>4
<1>13. LifeInv' BY <1>u, <1>12 DEF LifeInv, Clean
<1>14. BookInv'
  <2> SUFFICES ASSUME Clean', NEW p \in Orders PROVE Owed(p)'
      BY DEF BookInv
  <2>1. Owed(p) /\ drift = {} BY <1>u DEF IInv, BookInv, Clean
  <2>4. Waiting(p)' <=> Waiting(p) BY <1>7
  <2>2. CASE p = o
    <3>1. ~Waiting(o) BY <1>u, <1>2, <2>1 DEF IInv, OnceInv
    <3>2. Done(seen[o], order[o], ex[o]) BY <2>1, <2>2, <3>1 DEF Owed
    <3>3. Done(seen'[o], order'[o], ex'[o]) BY <1>u, <1>6, <3>2 DEF Done
    <3> QED BY <2>4, <2>2, <3>1, <3>3 DEF Owed
  <2>3. CASE p # o
    <3>1. order'[p] = order[p] /\ ex'[p] = ex[p] /\ seen'[p] = seen[p] /\ again' = again BY <1>u, <1>5, <2>3
    <3> QED BY <2>1, <2>4, <3>1 DEF Owed, Known
  <2> QED BY <2>2, <2>3
<1>15. PositionMatchesFills' BY <1>u DEF IInv, PositionMatchesFills, BookedFills, NotAgain
<1>16. Faithful' /\ stopped' = "no" => Faithful
  <2> SUFFICES ASSUME Faithful', stopped' = "no", NEW p \in Orders PROVE Orderly(order[p])
      BY <1>u, FaithfulIs DEF Faithful, NotAgain
  <2>1. drift = {} /\ Orderly(order'[p]) BY <1>u DEF Faithful, Orderly
  <2>2. CASE p = o
    <3>1. Life(o) BY <1>u, <2>1 DEF IInv, LifeInv, Clean
    <3>2. ex[o].phase \in Reached BY <1>2, <3>1 DEF Life
    <3>3. order[o].cancelled_count \in Nat BY OrderFacts
    <3> QED BY <1>1, <1>6, <2>1, <2>2, <3>1, <3>2, <3>3 DEF Life, Alive, Orderly
  <2>3. CASE p # o BY <1>5, <2>1, <2>3
  <2> QED BY <2>2, <2>3
<1>17. Open' = Open /\ Expiries' = Expiries /\ (AllEven' <=> AllEven) /\ OpenValue' = OpenValue
       BY <1>u DEF Open, Expiries, AllEven, OpenValue
<1>18. Account = acc /\ Account' = acc' BY <1>u DEF Account, NoUpdate
<1>19. CountInv' BY <1>u, <1>16, <1>17, <1>18 DEF IInv, CountInv
<1>20. MarginInv' BY <1>u, <1>16, <1>17, <1>18 DEF IInv, MarginInv
<1>21. LevelInv'
  <2>1. \A p \in Orders : order'[p].cancelled_count = order[p].cancelled_count BY <1>5, <1>6
  <2>2. NoSecondCancel' <=> NoSecondCancel BY <2>1 DEF NoSecondCancel
  <2>3. \A p, l : Alone(p, l)' <=> Alone(p, l) BY <1>u DEF Alone
  <2>4. \A p, l : Guarded(p, l) => Guarded(p, l)' BY <1>u DEF Guarded, IsGuarded, NoUpdate
  <2> QED BY <1>u, <2>2, <2>3, <2>4 DEF IInv, LevelInv, Clean
<1>22. KeyInv' BY <1>u DEF IInv, KeyInv, Clean, NoUpdate
<1> QED BY <1>8, <1>9, <1>10, <1>11, <1>13, <1>14, <1>15, <1>19, <1>20, <1>21, <1>22 DEF IInv

\* What update_order_risk does to the levels.
LEMMA LevelEffect ==
  ASSUME IInv, NEW r \in OrderRecs, update_order_risk(r), stopped = "no"
  PROVE  /\ LevelType' /\ SlotInv'
         /\ stopped' \in {"no", "no free slot"}
         /\ \A k : k # Key(r) => (k \in DOMAIN orderrisks_' <=> k \in DOMAIN orderrisks_)
         /\ stopped' = "no" /\ r.cancelled_count <= 1 /\ (r.remaining # 0 \/ Key(r) \notin DOMAIN orderrisks_)
               => Key(r) \in DOMAIN orderrisks_'
         /\ stopped' = "no" /\ r.cancelled_count <= 1 /\ r.remaining = 0 /\ Key(r) \in DOMAIN orderrisks_
               => Key(r) \notin DOMAIN orderrisks_'
<1> DEFINE key == Key(r)
           f == orderrisks_
           pool == orderrisk_pool_
           active(s) == pool[s].active
<1>t. r.cancelled_count \in Nat /\ r.remaining \in Int BY DEF OrderRecs
<1>1. /\ \A k \in DOMAIN f : f[k] \in Slots
      /\ pool \in [Slots -> OrderRisk] /\ \A s \in Slots : pool[s] \in OrderRisk
      BY DEF IInv, LevelType, Range
<1>2. \A k, l \in DOMAIN f : f[k] = f[l] => k = l BY DEF IInv, SlotInv, IsInjective
<1>3. \A s \in Slots : pool[s].active <=> \E k \in DOMAIN f : s = f[k]
      BY DEF IInv, SlotInv, Range
<1> HIDE DEF key
<1>s. ASSUME \A k \in DOMAIN f' : f'[k] \in Slots, pool' \in [Slots -> OrderRisk],
             \A k, l \in DOMAIN f' : f'[k] = f'[l] => k = l,
             \A s \in Slots : pool'[s].active <=> \E k \in DOMAIN f' : s = f'[k]
      PROVE  LevelType' /\ SlotInv'
  <2>1. LevelType' BY <1>s DEF LevelType, Range
  <2>2. IsInjective(f') BY <1>s DEF IsInjective
  <2>3. {s \in Slots : pool'[s].active} = Range(f') BY <1>s DEF Range
  <2> QED BY <2>1, <2>2, <2>3 DEF SlotInv
<1>4. CASE UNCHANGED <<f, pool, stopped>> /\ r.cancelled_count > 1
  <2>1. LevelType' /\ SlotInv' BY <1>4 DEF IInv, LevelType, SlotInv
  <2> QED BY <1>4, <1>t, <2>1
<1>5. CASE /\ r.cancelled_count <= 1 /\ key \in DOMAIN f /\ r.remaining = 0
           /\ LevelDone(key, f[key]) /\ UNCHANGED stopped
  <2>1. f' = [k \in DOMAIN f \ {key} |-> f[k]] BY <1>5 DEF LevelDone, Restrict
  <2>2. pool' = [pool EXCEPT ![f[key]] = [active |-> FALSE, remaining |-> 0]] BY <1>5 DEF LevelDone
  <2>3. f[key] \in Slots BY <1>1, <1>5
  <2>4. [active |-> FALSE, remaining |-> 0] \in OrderRisk BY DEF OrderRisk
  <2>5. pool' \in [Slots -> OrderRisk] BY <1>1, <2>2, <2>4
  <2>6. \A s \in Slots : pool'[s].active <=> pool[s].active /\ s # f[key]
        BY <1>1, <2>2, <2>3
  <2>7. DOMAIN f' = DOMAIN f \ {key} /\ \A k \in DOMAIN f' : f'[k] = f[k] BY <2>1
  <2>8. \A k, l \in DOMAIN f' : f'[k] = f'[l] => k = l BY <1>2, <2>7
  <2>9. ASSUME NEW s \in Slots PROVE pool'[s].active <=> \E k \in DOMAIN f' : s = f'[k]
        BY <1>2, <1>3, <1>5, <2>6, <2>7
  <2>10. \A k \in DOMAIN f' : f'[k] \in Slots BY <1>1, <2>7
  <2>11. LevelType' /\ SlotInv' BY <1>s, <2>5, <2>8, <2>9, <2>10
  <2> QED BY <1>5, <2>7, <2>11 DEF key
<1>6. CASE /\ r.cancelled_count <= 1 /\ key \in DOMAIN f /\ r.remaining # 0
           /\ LevelStays(f[key], r.remaining) /\ UNCHANGED stopped
  <2>1. f[key] \in Slots BY <1>1, <1>6
  <2>5. f' = f /\ pool' = [pool EXCEPT ![f[key]].remaining = r.remaining] BY <1>6 DEF LevelStays
  <2>2. pool' \in [Slots -> OrderRisk] BY <1>t, <1>1, <2>1, <2>5 DEF OrderRisk
  <2>3. \A s \in Slots : pool'[s].active = pool[s].active BY <1>1, <2>1, <2>5 DEF OrderRisk
  <2>4. LevelType' /\ SlotInv' BY <1>s, <1>1, <1>2, <1>3, <2>2, <2>3, <2>5
  <2> QED BY <1>t, <1>6, <2>4, <2>5 DEF key
<1>7. CASE /\ r.cancelled_count <= 1 /\ key \notin DOMAIN f
           /\ \E s \in {x \in Slots : ~pool[x].active} :
                 /\ pool' = [pool EXCEPT ![s] = [active |-> TRUE, remaining |-> r.remaining]]
                 /\ f' = [k \in DOMAIN f \cup {key} |-> IF k = key THEN s ELSE f[k]]
           /\ UNCHANGED stopped
  <2>1. PICK s \in Slots :
                 /\ ~pool[s].active
                 /\ pool' = [pool EXCEPT ![s] = [active |-> TRUE, remaining |-> r.remaining]]
                 /\ f' = [k \in DOMAIN f \cup {key} |-> IF k = key THEN s ELSE f[k]]
        BY <1>7
  <2>2. [active |-> TRUE, remaining |-> r.remaining] \in OrderRisk BY <1>t DEF OrderRisk
  <2>3. pool' \in [Slots -> OrderRisk] BY <1>1, <2>1, <2>2
  <2>4. \A x \in Slots : pool'[x].active <=> pool[x].active \/ x = s BY <1>1, <2>1
  <2>5. /\ DOMAIN f' = DOMAIN f \cup {key} /\ f'[key] = s
        /\ \A k \in DOMAIN f : f'[k] = f[k]
        BY <1>7, <2>1
  <2>6. \A k \in DOMAIN f : f[k] # s BY <1>3, <2>1
  <2>7. \A k, l \in DOMAIN f' : f'[k] = f'[l] => k = l BY <1>2, <2>5, <2>6
  <2>8. ASSUME NEW x \in Slots PROVE pool'[x].active <=> \E k \in DOMAIN f' : x = f'[k]
        BY <1>3, <2>4, <2>5
  <2>9. \A k \in DOMAIN f' : f'[k] \in Slots BY <1>1, <2>1, <2>5
  <2>10. LevelType' /\ SlotInv' BY <1>s, <2>3, <2>7, <2>8, <2>9
  <2> QED BY <1>7, <2>5, <2>10 DEF key
<1>8. CASE stopped' = "no free slot" /\ UNCHANGED <<f, pool>>
  <2>1. LevelType' /\ SlotInv' BY <1>8 DEF IInv, LevelType, SlotInv
  <2> QED BY <1>8, <2>1
<1> QED BY <1>4, <1>5, <1>6, <1>7, <1>8 DEF update_order_risk, key

\* What the two ways of writing the account do to it.
LEMMA OrderedEffect ==
  ASSUME NEW a \in AccountRisk, NEW r \in OrderRecs, NEW v \in Int, NEW n \in Int
  PROVE  /\ Ordered(a, r, v, n) \in AccountRisk
         /\ Ordered(a, r, v, n).total_unrealized_pnl = a.total_unrealized_pnl
         /\ Ordered(a, r, v, n).daily_realized_pnl = a.daily_realized_pnl
         /\ Ordered(a, r, v, n).open_orders_count = n % CntMod
         /\ Ordered(a, r, v, n).used_margin = IF r.price > 0 THEN a.used_margin + v ELSE a.used_margin
<1> DEFINE x == IF r.price > 0 THEN a.current_exposure + v * Mult(r.side) ELSE a.current_exposure
           y == IF r.price > 0 THEN a.used_margin + v ELSE a.used_margin
           z == n % CntMod
<1>1. a.current_exposure \in Int /\ a.used_margin \in Int BY DEF AccountRisk
<1>2. v * Mult(r.side) \in Int
  <2>1. Mult(r.side) \in Int BY DEF Mult
  <2> QED BY <2>1
<1>3. x \in Int BY <1>1, <1>2
<1>6. y \in Int BY <1>1
<1>4. z \in 0..CntMod - 1
  <2>1. CntMod \in Nat \ {0} BY Constants
  <2> QED BY <2>1, ModDef
<1>5. /\ Ordered(a, r, v, n) = [a EXCEPT !.current_exposure = x, !.used_margin = y, !.open_orders_count = z]
      BY DEF Ordered
<1> HIDE DEF x, y, z
<1>7. [a EXCEPT !.current_exposure = x, !.used_margin = y, !.open_orders_count = z] \in AccountRisk
      BY <1>3, <1>4, <1>6 DEF AccountRisk
<1>8. Ordered(a, r, v, n) \in AccountRisk BY <1>5, <1>7
<1>9. /\ Ordered(a, r, v, n).total_unrealized_pnl = a.total_unrealized_pnl
      /\ Ordered(a, r, v, n).daily_realized_pnl = a.daily_realized_pnl
      /\ Ordered(a, r, v, n).open_orders_count = z
      /\ Ordered(a, r, v, n).used_margin = y
      BY <1>5 DEF AccountRisk
<1> QED BY <1>8, <1>9 DEF y, z

LEMMA TradedEffect ==
  ASSUME NEW a \in AccountRisk, NEW r \in OrderRecs, NEW v \in Int, NEW n \in Int
  PROVE  /\ Traded(a, r, v, n) \in AccountRisk
         /\ Traded(a, r, v, n).total_unrealized_pnl = a.total_unrealized_pnl
         /\ Traded(a, r, v, n).daily_realized_pnl = a.daily_realized_pnl
         /\ Traded(a, r, v, n).open_orders_count = n % CntMod
         /\ Traded(a, r, v, n).used_margin = a.used_margin - v
<1> DEFINE fee == Quot(Lim.maker_fee_rate * v, 1000000)
           x == a.balance - (v + fee)
           y == a.used_margin - v
           z == n % CntMod
           w == a.positional_exposure + v
<1>1. a.balance \in Int /\ a.used_margin \in Int /\ a.positional_exposure \in Int BY DEF AccountRisk
<1>2. fee \in Int
  <2>1. Lim.maker_fee_rate * v \in Int BY Constants
  <2>2. ASSUME NEW i \in Int PROVE Quot(i, 1000000) \in Int
    <3>1. Abs(1000000) = 1000000 /\ Abs(i) \in Int BY DEF Abs
    <3>2. Abs(i) \div 1000000 \in Int BY <3>1
    <3>3. -(Abs(i) \div 1000000) \in Int BY <3>2
    <3> QED BY <3>1, <3>2, <3>3 DEF Quot
  <2> QED BY <2>1, <2>2
<1>4. z \in 0..CntMod - 1
  <2>1. CntMod \in Nat \ {0} BY Constants
  <2> QED BY <2>1, ModDef
<1>5. Traded(a, r, v, n) = [a EXCEPT !.balance = x, !.positional_exposure = w, !.used_margin = y, !.open_orders_count = z]
      BY DEF Traded
<1> HIDE DEF fee
<1>3. x \in Int /\ y \in Int /\ w \in Int BY <1>1, <1>2
<1> HIDE DEF x, y, z, w
<1>7. [a EXCEPT !.balance = x, !.positional_exposure = w, !.used_margin = y, !.open_orders_count = z] \in AccountRisk
      BY <1>3, <1>4 DEF AccountRisk
<1>8. Traded(a, r, v, n) \in AccountRisk BY <1>5, <1>7
<1>9. /\ Traded(a, r, v, n).total_unrealized_pnl = a.total_unrealized_pnl
      /\ Traded(a, r, v, n).daily_realized_pnl = a.daily_realized_pnl
      /\ Traded(a, r, v, n).open_orders_count = z
      /\ Traded(a, r, v, n).used_margin = y
      BY <1>5 DEF AccountRisk
<1> QED BY <1>8, <1>9 DEF y, z

LEMMA AccountEffect ==
  ASSUME NEW a \in AccountRisk, NEW r \in OrderRecs, NEW m \in Updates
  PROVE  /\ AccountAfter(a, r, m) \in AccountRisk
         /\ AccountAfter(a, r, m).total_unrealized_pnl = a.total_unrealized_pnl
         /\ AccountAfter(a, r, m).daily_realized_pnl = a.daily_realized_pnl
<1> DEFINE c == a.open_orders_count
<1>1. c \in Int /\ c + 1 \in Int /\ c - 1 \in Int BY Constants DEF AccountRisk
<1>2. m.nominal \in Int /\ m.notional \in Int /\ m.replaced \in Int BY DEF Updates
<1>3. \/ AccountAfter(a, r, m) = a
      \/ \E v \in Int, n \in Int : AccountAfter(a, r, m) = Ordered(a, r, v, n)
      \/ \E v \in Int, n \in Int : AccountAfter(a, r, m) = Traded(a, r, v, n)
  <2>1. CASE r.status = "New"
    <3>1. AccountAfter(a, r, m) = Ordered(a, r, m.notional, c + 1) BY <2>1 DEF AccountAfter
    <3> QED BY <1>1, <1>2, <3>1
  <2>2. CASE r.status \in {"Partial", "Filled"}
    <3>1. AccountAfter(a, r, m) = Traded(a, r, m.nominal, IF r.status = "Filled" THEN c - 1 ELSE c)
          BY <2>2 DEF AccountAfter
    <3> QED BY <1>1, <1>2, <3>1
  <2>3. CASE r.status \in {"Cancelled", "Deleted", "Expired"} /\ r.cancelled_count <= 1
    <3>1. AccountAfter(a, r, m) = Ordered(a, r, m.replaced, IF r.remaining = 0 THEN c - 1 ELSE c)
          BY <2>3 DEF AccountAfter
    <3> QED BY <1>1, <1>2, <3>1
  <2>4. CASE r.status = "Replaced"
    <3>1. AccountAfter(a, r, m) = Ordered(a, r, m.replaced, c) BY <2>4 DEF AccountAfter
    <3> QED BY <1>1, <1>2, <3>1
  <2>5. CASE /\ r.status \notin {"New", "Partial", "Filled", "Replaced"}
             /\ ~(r.status \in {"Cancelled", "Deleted", "Expired"} /\ r.cancelled_count <= 1)
        BY <2>5 DEF AccountAfter
  <2> QED BY <2>1, <2>2, <2>3, <2>4, <2>5
<1> QED BY <1>3, OrderedEffect, TradedEffect

LEMMA UpdateAccountNext == ASSUME IInv, update_account_risk PROVE IInv'
<1> USE Constants
<1>u. /\ UNCHANGED <<flow, order, ex, drift, again, store_to_risk_, market, strategy_to_risk_, sym, seen, flat>>
      /\ stopped = "no" /\ updating.book = "account"
      /\ acc' = IF stopped' = "no" THEN AccountAfter(acc, order[updating.o], updating) ELSE acc
      /\ updating' = IF flow = "FIX" /\ stopped' = "no" THEN [updating EXCEPT !.book = "status"] ELSE NoUpdate
      BY DEF update_account_risk, store, feed, slips
<1>1. updating.o \in Orders /\ updating \in Updates BY <1>u DEF IInv, UpdateType, Updates
<1>2. PICK o \in Orders : o = updating.o BY <1>1
<1>3. order[o] \in OrderRecs /\ Lived(o) /\ order[o].remaining \in Int BY OrderFacts
<1>r. PICK r \in OrderRecs : r = order[o] BY <1>3
<1>4. update_order_risk(r) BY <1>2, <1>r DEF update_account_risk
<1>5. /\ LevelType' /\ SlotInv'
      /\ stopped' \in {"no", "no free slot"}
      /\ \A k : k # Key(r) => (k \in DOMAIN orderrisks_' <=> k \in DOMAIN orderrisks_)
      /\ stopped' = "no" /\ r.cancelled_count <= 1 /\ (r.remaining # 0 \/ Key(r) \notin DOMAIN orderrisks_)
            => Key(r) \in DOMAIN orderrisks_'
      /\ stopped' = "no" /\ r.cancelled_count <= 1 /\ r.remaining = 0 /\ Key(r) \in DOMAIN orderrisks_
            => Key(r) \notin DOMAIN orderrisks_'
      BY <1>u, <1>4, LevelEffect
<1>6. OrderType' /\ QueueType' BY <1>u DEF IInv, OrderType, QueueType
<1>7. /\ updating' \in Updates /\ (updating'.o = nullptr <=> updating'.book = "none")
      /\ (updating'.book = "none" => updating' = NoUpdate)
      /\ updating'.book \in {"none", "status"} /\ (updating'.book = "status" => flow' = "FIX")
      /\ updating'.o \in {nullptr, o} /\ (flow = "FIX" /\ stopped' = "no" => updating'.o = o)
  <2>1. /\ NoUpdate \in Updates /\ NoUpdate.o = nullptr /\ NoUpdate.book = "none"
        BY DEF NoUpdate, Updates
  <2>2. CASE flow = "FIX" /\ stopped' = "no"
    <3>1. updating' = [updating EXCEPT !.book = "status"] BY <1>u, <2>2
    <3>2. updating' \in Updates /\ updating'.o = updating.o /\ updating'.book = "status"
          BY <1>1, <3>1 DEF Updates
    <3> QED BY <1>u, <1>1, <1>2, <2>2, <3>2
  <2>3. CASE ~(flow = "FIX" /\ stopped' = "no")
    <3>1. updating' = NoUpdate BY <1>u, <2>3
    <3> QED BY <2>1, <2>3, <3>1
  <2> QED BY <2>2, <2>3
<1>8. UpdateType' BY <1>5, <1>7 DEF UpdateType
<1>9. acc \in AccountRisk BY DEF IInv, BookType
<1>10. /\ AccountAfter(acc, r, updating) \in AccountRisk
       /\ AccountAfter(acc, r, updating).total_unrealized_pnl = acc.total_unrealized_pnl
       /\ AccountAfter(acc, r, updating).daily_realized_pnl = acc.daily_realized_pnl
       BY <1>1, <1>9, AccountEffect
<1>11. acc' = AccountAfter(acc, r, updating) \/ acc' = acc BY <1>u, <1>2, <1>r
<1>12. BookType' /\ TradesAreAccounted'
  <2>1. acc' \in AccountRisk BY <1>9, <1>10, <1>11
  <2>2. acc'.total_unrealized_pnl = acc.total_unrealized_pnl /\ acc'.daily_realized_pnl = acc.daily_realized_pnl
        BY <1>10, <1>11
  <2>3. BookType' BY <1>u, <2>1 DEF IInv, BookType
  <2> QED BY <1>u, <2>2, <2>3 DEF IInv, TradesAreAccounted, NotAgain, BookedValue
<1>13. LivedInv' BY <1>u DEF IInv, LivedInv, Lived
<1>14. \A p : Waiting(p)' <=> Waiting(p) BY <1>u DEF Waiting
<1>c. Clean' => Clean BY <1>u DEF Clean
<1>15. OnceInv'
  <2> SUFFICES ASSUME drift = {} PROVE OnceInv'
      BY <1>u DEF OnceInv
  <2>1. ~Waiting(o) BY <1>2 DEF IInv, OnceInv
  <2>2. \A i, j \in 1..Len(store_to_risk_) : store_to_risk_[i] = store_to_risk_[j] /\ store_to_risk_[i] # nullptr => i = j
        BY DEF IInv, OnceInv
  <2>3. updating'.o # nullptr => updating'.o \notin Range(store_to_risk_') BY <1>u, <1>7, <2>1 DEF Waiting
  <2> QED BY <1>u, <2>2, <2>3 DEF OnceInv, Waiting
<1>16. LifeInv'
  <2> SUFFICES ASSUME Clean', NEW p \in Orders PROVE Life(p)'
      BY DEF LifeInv
  <2>1. Life(p) /\ stopped' = "no" BY <1>c DEF IInv, LifeInv, Clean
  <2>2. updating.o # p => updating'.o # p BY <1>2, <1>7
  <2>3. flow = "FIX" /\ updating.o = p => updating'.o = p BY <1>2, <1>7, <2>1
  <2>4. Waiting(p)' <=> Waiting(p) BY <1>14
  <2> QED BY <1>u, <2>1, <2>2, <2>3, <2>4 DEF Life, Alive
<1>17. BookInv'
  <2> SUFFICES ASSUME Clean', NEW p \in Orders PROVE Owed(p)'
      BY DEF BookInv
  <2>1. Owed(p) BY <1>c DEF IInv, BookInv
  <2>2. Waiting(p)' <=> Waiting(p) BY <1>14
  <2> QED BY <1>u, <2>1, <2>2 DEF Owed, Known
<1>18. PositionMatchesFills' BY <1>u DEF IInv, PositionMatchesFills, BookedFills, NotAgain
<1>19. /\ Open' = Open /\ Expiries' = Expiries /\ (AllEven' <=> AllEven) /\ OpenValue' = OpenValue
       /\ (Faithful' <=> Faithful)
       BY <1>u DEF Open, Expiries, AllEven, OpenValue, Faithful, NotAgain
<1>20. stopped' = "no" => Account' = Account BY <1>u, <1>7 DEF Account
<1>21. CountInv' BY <1>u, <1>19, <1>20 DEF IInv, CountInv
<1>22. MarginInv' BY <1>u, <1>19, <1>20 DEF IInv, MarginInv
<1>k. ASSUME Clean
      PROVE  /\ seen[o].new /\ seen[o].side = r.side /\ seen[o].remaining = r.remaining
             /\ seen[o].price = r.price /\ Key(r) = Level(seen[o].price, seen[o].side)
  <2>1. ~Waiting(o) /\ Owed(o) /\ Life(o) BY <1>2, <1>k DEF IInv, OnceInv, BookInv, LifeInv, Clean
  <2>2. Done(seen[o], r, ex[o]) BY <1>r, <2>1 DEF Owed
  <2>3. ex[o].phase \in Reached BY <1>2, <2>1 DEF Life
  <2>4. r.new BY <1>r, <2>1, <2>3 DEF Life, Alive
  <2>5. seen[o].new /\ seen[o].side = r.side /\ seen[o].remaining = r.remaining BY <2>2, <2>4 DEF Done
  <2>6. seen[o].price = r.price BY <1>u, <1>2, <1>r, <1>k DEF IInv, KeyInv
  <2> QED BY <2>5, <2>6 DEF Level, Key
<1>23. LevelInv'
  <2> SUFFICES ASSUME Clean', NoSecondCancel', NEW p \in Orders, seen[p].new, NEW l \in Levels(seen[p]), Alone(p, l)
               PROVE  Guarded(p, l)'
      BY <1>u DEF LevelInv, Alone
  <2>n. NoSecondCancel /\ Clean /\ stopped' = "no" BY <1>u, <1>c DEF NoSecondCancel, Clean
  <2>1. Guarded(p, l) BY <2>n DEF IInv, LevelInv
  <2>2. /\ seen[o].new /\ seen[o].side = r.side /\ seen[o].remaining = r.remaining
        /\ Key(r) = Level(seen[o].price, seen[o].side)
        BY <1>k, <2>n
  <2>3. r.cancelled_count <= 1 BY <1>r, <2>n DEF NoSecondCancel
  <2>g. Guarded(p, l)' <=> (IsGuarded(p, l)' <=> ~(seen[p].remaining = 0 /\ l = seen[p].price /\ l \in seen[p].at))
        BY <1>u, <1>7 DEF Guarded
  <2>h. IsGuarded(p, l)' <=> Level(l, seen[p].side) \in DOMAIN orderrisks_' BY <1>u DEF IsGuarded
  <2>4. CASE Level(l, seen[p].side) # Key(r)
    <3>1. IsGuarded(p, l)' <=> IsGuarded(p, l) BY <1>5, <2>4, <2>h DEF IsGuarded
    <3>2. CASE p = o
      <4>1. IsGuarded(o, l) <=> l \in seen[o].at BY <1>u, <1>2, <2>1, <3>2 DEF Guarded
      <4>2. l # seen[o].price BY <2>2, <2>4, <3>2
      <4>3. l \in seen[o].at BY <3>2, <4>2 DEF Levels
      <4> QED BY <2>g, <3>1, <3>2, <4>1, <4>2, <4>3
    <3>3. CASE p # o BY <1>2, <2>1, <2>g, <3>1, <3>3 DEF Guarded
    <3> QED BY <3>2, <3>3
  <2>5. CASE Level(l, seen[p].side) = Key(r)
    <3>1. l = seen[o].price /\ seen[p].side = seen[o].side BY <2>2, <2>5 DEF Level, Key
    <3>2. p = o BY <2>2, <3>1 DEF Alone, Levels
    <3>3. Key(r) \in DOMAIN orderrisks_ <=> l \in seen[o].at
          BY <1>u, <1>2, <2>1, <2>5, <3>2 DEF Guarded, IsGuarded
    <3> QED BY <1>5, <2>n, <2>2, <2>3, <2>5, <2>g, <2>h, <3>1, <3>2, <3>3
  <2> QED BY <2>4, <2>5
<1>24. KeyInv'
  <2> SUFFICES ASSUME Clean', NEW k \in DOMAIN orderrisks_'
               PROVE  \E p \in Orders : seen[p].new /\ \E l \in Levels(seen[p]) : k = Level(l, seen[p].side)
      BY <1>u, <1>7 DEF KeyInv
  <2>1. CASE k = Key(r) BY <1>c, <1>k, <2>1 DEF Levels
  <2>2. CASE k # Key(r) BY <1>5, <1>c, <2>2 DEF IInv, KeyInv
  <2> QED BY <2>1, <2>2
<1> QED BY <1>5, <1>6, <1>8, <1>12, <1>13, <1>15, <1>16, <1>17, <1>18, <1>21, <1>22, <1>23, <1>24 DEF IInv

-----------------------------------------------------------------------------
(* The symbol *)

LEMMA AfterFillEffect ==
  ASSUME NEW y \in SymInts, NEW r \in OrderRecs, NEW m \in Updates,
         r.side = "Buy" => y.net_position + r.last_exec # 0
  PROVE  /\ AfterFill(y, r, m) \in SymInts
         /\ AfterFill(y, r, m).net_position = y.net_position + Mult(r.side) * r.last_exec
         /\ AfterFill(y, r, m).open_orders_count =
               IF r.status = "Filled" THEN y.open_orders_count - 1 ELSE y.open_orders_count
         /\ AfterFill(y, r, m).unrealized_pnl = y.unrealized_pnl
         /\ AfterFill(y, r, m).realized_pnl =
               IF r.side = "Buy" THEN y.realized_pnl ELSE y.realized_pnl + (r.price - y.avg_entry_price) * r.last_exec
         /\ AfterFill(y, r, m).cost_basis =
               IF r.side = "Buy" THEN y.cost_basis + m.nominal
               ELSE IF y.net_position + Mult(r.side) * r.last_exec = 0 THEN 0
               ELSE y.cost_basis - y.avg_entry_price * r.last_exec
<1> DEFINE buy == r.side = "Buy"
           net == y.net_position + Mult(r.side) * r.last_exec
           sold == y.cost_basis - y.avg_entry_price * r.last_exec
           cost == IF buy THEN y.cost_basis + m.nominal ELSE IF net = 0 THEN 0 ELSE sold
           pending == y.pending_notional - m.nominal * Mult(r.side)
           gain == (r.price - y.avg_entry_price) * r.last_exec
           avg == IF buy THEN Quot(cost, net) ELSE IF net = 0 THEN 0 ELSE y.avg_entry_price
           realized == IF buy THEN y.realized_pnl ELSE y.realized_pnl + gain
           open == IF r.status = "Filled" THEN y.open_orders_count - 1 ELSE y.open_orders_count
<1>1. /\ y.net_position \in Int /\ y.cost_basis \in Int /\ y.avg_entry_price \in Int /\ y.pending_notional \in Int
      /\ y.realized_pnl \in Int /\ y.open_orders_count \in Int
      /\ r.last_exec \in Nat /\ r.price \in Int /\ m.nominal \in Int
      BY DEF SymInts, OrderRecs, Updates
<1>2. Mult(r.side) \in Int BY DEF Mult
<1>3. /\ Mult(r.side) * r.last_exec \in Int /\ y.avg_entry_price * r.last_exec \in Int
      /\ m.nominal * Mult(r.side) \in Int
      BY <1>1, <1>2
<1>4. gain \in Int BY <1>1
<1>5. net \in Int /\ sold \in Int /\ pending \in Int /\ open \in Int BY <1>1, <1>3
<1>6. buy => net # 0
  <2> SUFFICES ASSUME buy PROVE net # 0
      OBVIOUS
  <2>1. Mult(r.side) * r.last_exec = r.last_exec BY <1>1 DEF Mult
  <2> QED BY <2>1
<1>7. AfterFill(y, r, m) = [y EXCEPT !.net_position = net, !.cost_basis = cost, !.pending_notional = pending,
                                     !.avg_entry_price = avg, !.realized_pnl = realized, !.open_orders_count = open]
      BY DEF AfterFill
<1> HIDE DEF net, sold, pending, gain, open
<1>8. cost \in Int /\ realized \in Int BY <1>1, <1>4, <1>5
<1> HIDE DEF cost, realized
<1>9. avg \in Int
  <2>1. ASSUME NEW a \in Int, NEW b \in Int, b # 0 PROVE Quot(a, b) \in Int
    <3>1. Abs(a) \in Int /\ Abs(b) \in Int /\ Abs(b) > 0 BY <2>1 DEF Abs
    <3>2. Abs(a) \div Abs(b) \in Int BY <3>1
    <3>3. -(Abs(a) \div Abs(b)) \in Int BY <3>2
    <3> QED BY <3>2, <3>3 DEF Quot
  <2> QED BY <1>1, <1>5, <1>6, <1>8, <2>1
<1> HIDE DEF avg
<1>10. [y EXCEPT !.net_position = net, !.cost_basis = cost, !.pending_notional = pending,
                 !.avg_entry_price = avg, !.realized_pnl = realized, !.open_orders_count = open] \in SymInts
       BY <1>5, <1>8, <1>9 DEF SymInts
<1>11. AfterFill(y, r, m) \in SymInts BY <1>7, <1>10
<1>12. /\ AfterFill(y, r, m).net_position = net /\ AfterFill(y, r, m).open_orders_count = open
       /\ AfterFill(y, r, m).cost_basis = cost /\ AfterFill(y, r, m).realized_pnl = realized
       /\ AfterFill(y, r, m).unrealized_pnl = y.unrealized_pnl
       BY <1>7 DEF SymInts
<1> QED BY <1>11, <1>12 DEF net, open, cost, realized, gain, sold

\* The fields that only trades and the market change.
Costs(x, y) == /\ x.cost_basis = y.cost_basis /\ x.realized_pnl = y.realized_pnl
               /\ x.unrealized_pnl = y.unrealized_pnl

LEMMA SymbolEffect ==
  ASSUME NEW y \in SymInts, NEW r \in OrderRecs, NEW m \in Updates,
         r.side = "Buy" /\ r.status \in {"Partial", "Filled"} => y.net_position + r.last_exec # 0
  PROVE  /\ SymbolAfter(y, r, m) \in SymInts
         /\ SymbolAfter(y, r, m).net_position =
               y.net_position + (IF r.status \in {"Partial", "Filled"} THEN Mult(r.side) * r.last_exec ELSE 0)
         /\ SymbolAfter(y, r, m).open_orders_count =
               CASE r.status = "New" -> y.open_orders_count + 1
                 [] r.status = "Filled" -> y.open_orders_count - 1
                 [] r.status \in {"Cancelled", "Deleted"} /\ r.cancelled_count <= 1 /\ r.remaining = 0 ->
                       y.open_orders_count - 1
                 [] OTHER -> y.open_orders_count
         /\ ~Trade(r) => Costs(SymbolAfter(y, r, m), y)
         /\ Trade(r) => /\ SymbolAfter(y, r, m).cost_basis = AfterFill(y, r, m).cost_basis
                        /\ SymbolAfter(y, r, m).realized_pnl = AfterFill(y, r, m).realized_pnl
                        /\ SymbolAfter(y, r, m).unrealized_pnl = Marked(AfterFill(y, r, m)).unrealized_pnl
<1>1. /\ y.net_position \in Int /\ y.pending_notional \in Int /\ y.open_orders_count \in Int
      /\ r.price \in Int /\ m.notional \in Int /\ m.replaced \in Int
      BY DEF SymInts, OrderRecs, Updates
<1>2. Mult(r.side) \in Int BY DEF Mult
<1>3. m.notional * Mult(r.side) \in Int BY <1>1, <1>2
<1>4. /\ AfterNew(y, r, m) \in SymInts /\ AfterNew(y, r, m).net_position = y.net_position
      /\ Costs(AfterNew(y, r, m), y)
      /\ AfterNew(y, r, m).open_orders_count = y.open_orders_count + 1
  <2> DEFINE n == y.open_orders_count + 1
             p == IF r.price > 0 THEN y.pending_notional + m.notional * Mult(r.side) ELSE y.pending_notional
  <2>1. n \in Int /\ p \in Int BY <1>1, <1>3
  <2>2. AfterNew(y, r, m) = [y EXCEPT !.open_orders_count = n, !.pending_notional = p] BY DEF AfterNew
  <2> HIDE DEF n, p
  <2>3. [y EXCEPT !.open_orders_count = n, !.pending_notional = p] \in SymInts BY <2>1 DEF SymInts
  <2>4. /\ AfterNew(y, r, m).open_orders_count = n /\ AfterNew(y, r, m).net_position = y.net_position
        /\ Costs(AfterNew(y, r, m), y)
        BY <2>2 DEF SymInts, Costs
  <2> QED BY <2>2, <2>3, <2>4 DEF n
<1>5. ASSUME NEW gone \in BOOLEAN
      PROVE  /\ AfterChange(y, r, m, gone) \in SymInts /\ AfterChange(y, r, m, gone).net_position = y.net_position
             /\ AfterChange(y, r, m, gone).open_orders_count =
                   IF gone THEN y.open_orders_count - 1 ELSE y.open_orders_count
             /\ Costs(AfterChange(y, r, m, gone), y)
  <2> DEFINE n == IF gone THEN y.open_orders_count - 1 ELSE y.open_orders_count
             p == IF r.price > 0 THEN y.pending_notional + m.replaced ELSE y.pending_notional
  <2>1. n \in Int BY <1>1
  <2>5. p \in Int BY <1>1
  <2>2. AfterChange(y, r, m, gone) = [y EXCEPT !.open_orders_count = n, !.pending_notional = p] BY DEF AfterChange
  <2> HIDE DEF n, p
  <2>3. [y EXCEPT !.open_orders_count = n, !.pending_notional = p] \in SymInts BY <2>1, <2>5 DEF SymInts
  <2>4. /\ AfterChange(y, r, m, gone).open_orders_count = n /\ AfterChange(y, r, m, gone).net_position = y.net_position
        /\ Costs(AfterChange(y, r, m, gone), y)
        BY <2>2 DEF SymInts, Costs
  <2> QED BY <2>2, <2>3, <2>4 DEF n
<1>n. CASE r.status = "New"
  <2>1. SymbolAfter(y, r, m) = AfterNew(y, r, m) BY <1>n DEF SymbolAfter
  <2> QED BY <1>n, <1>1, <1>4, <2>1 DEF Trade
<1>f. CASE r.status \in {"Partial", "Filled"}
  <2>1. SymbolAfter(y, r, m) = Marked(AfterFill(y, r, m)) BY <1>f DEF SymbolAfter
  <2>2. /\ AfterFill(y, r, m) \in SymInts
        /\ AfterFill(y, r, m).net_position = y.net_position + Mult(r.side) * r.last_exec
        /\ AfterFill(y, r, m).open_orders_count =
              IF r.status = "Filled" THEN y.open_orders_count - 1 ELSE y.open_orders_count
        BY <1>f, AfterFillEffect
  <2>3. Marked(AfterFill(y, r, m)) \in SymInts /\ Unmarked(Marked(AfterFill(y, r, m)), AfterFill(y, r, m))
        BY <2>2, MarkedEffect
  <2> QED BY <1>f, <2>1, <2>2, <2>3 DEF Trade, Unmarked
<1>c. CASE r.status \in {"Cancelled", "Deleted"} /\ r.cancelled_count <= 1
  <2>1. SymbolAfter(y, r, m) = AfterChange(y, r, m, r.remaining = 0) BY <1>c DEF SymbolAfter
  <2> DEFINE gone == r.remaining = 0
  <2>2. gone \in BOOLEAN OBVIOUS
  <2>3. SymbolAfter(y, r, m) = AfterChange(y, r, m, gone) BY <2>1
  <2>4. gone <=> r.remaining = 0 OBVIOUS
  <2> HIDE DEF gone
  <2>5. /\ SymbolAfter(y, r, m) \in SymInts /\ SymbolAfter(y, r, m).net_position = y.net_position
        /\ SymbolAfter(y, r, m).open_orders_count = IF gone THEN y.open_orders_count - 1 ELSE y.open_orders_count
        /\ Costs(SymbolAfter(y, r, m), y)
        BY <1>5, <2>2, <2>3
  <2> QED BY <1>c, <1>1, <2>4, <2>5 DEF Trade
<1>r. CASE r.status = "Replaced"
  <2>1. SymbolAfter(y, r, m) = AfterChange(y, r, m, FALSE) BY <1>r DEF SymbolAfter
  <2>2. /\ AfterChange(y, r, m, FALSE) \in SymInts /\ AfterChange(y, r, m, FALSE).net_position = y.net_position
        /\ AfterChange(y, r, m, FALSE).open_orders_count = y.open_orders_count
        /\ Costs(AfterChange(y, r, m, FALSE), y)
        BY <1>5
  <2>3. /\ SymbolAfter(y, r, m) \in SymInts /\ SymbolAfter(y, r, m).net_position = y.net_position
        /\ SymbolAfter(y, r, m).open_orders_count = y.open_orders_count
        /\ Costs(SymbolAfter(y, r, m), y)
        BY <2>1, <2>2
  <2> QED BY <1>r, <1>1, <2>3 DEF Trade
<1>o. CASE /\ r.status \notin {"New", "Partial", "Filled", "Replaced"}
           /\ ~(r.status \in {"Cancelled", "Deleted"} /\ r.cancelled_count <= 1)
  <2>1. SymbolAfter(y, r, m) = y BY <1>o DEF SymbolAfter
  <2> QED BY <1>o, <1>1, <2>1 DEF Trade, Costs
<1> QED BY <1>n, <1>f, <1>c, <1>r, <1>o

\* update_symbol_risk on the account: what the symbol realizes and marks.
LEMMA PnlEffect ==
  ASSUME NEW a \in AccountRisk, NEW y \in SymInts, NEW r \in OrderRecs, NEW m \in Updates,
         r.side = "Buy" /\ r.status \in {"Partial", "Filled"} => y.net_position + r.last_exec # 0,
         a.total_unrealized_pnl = y.unrealized_pnl, a.daily_realized_pnl = y.realized_pnl
  PROVE  /\ PnlAfter(a, y, r, m) \in AccountRisk
         /\ PnlAfter(a, y, r, m).open_orders_count = a.open_orders_count
         /\ PnlAfter(a, y, r, m).used_margin = a.used_margin
         /\ PnlAfter(a, y, r, m).total_unrealized_pnl = SymbolAfter(y, r, m).unrealized_pnl
         /\ PnlAfter(a, y, r, m).daily_realized_pnl = SymbolAfter(y, r, m).realized_pnl
<1>1. CASE ~Trade(r)
  <2>1. PnlAfter(a, y, r, m) = a BY <1>1 DEF PnlAfter, Trade
  <2>2. Costs(SymbolAfter(y, r, m), y) BY <1>1, SymbolEffect
  <2> QED BY <2>1, <2>2 DEF Costs
<1>2. CASE Trade(r)
  <2>1. r.side = "Buy" => y.net_position + r.last_exec # 0 BY <1>2 DEF Trade
  <2>2. PICK z \in SymInts : z = AfterFill(y, r, m) BY <2>1, AfterFillEffect
  <2>3. /\ z.unrealized_pnl = y.unrealized_pnl
        /\ z.realized_pnl = IF r.side = "Buy" THEN y.realized_pnl
                            ELSE y.realized_pnl + (r.price - y.avg_entry_price) * r.last_exec
        BY <2>1, <2>2, AfterFillEffect
  <2>4. /\ RealizedAccount(a, y, r) \in AccountRisk
        /\ RealizedAccount(a, y, r).open_orders_count = a.open_orders_count
        /\ RealizedAccount(a, y, r).used_margin = a.used_margin
        /\ RealizedAccount(a, y, r).total_unrealized_pnl = a.total_unrealized_pnl
        /\ RealizedAccount(a, y, r).daily_realized_pnl = z.realized_pnl
    <3>1. r.side \in Sides /\ r.price \in Int /\ r.last_exec \in Nat BY DEF OrderRecs
    <3>2. y.avg_entry_price \in Int /\ a.daily_realized_pnl \in Int BY DEF SymInts, AccountRisk
    <3>3. PICK gain \in Int : gain = (r.price - y.avg_entry_price) * r.last_exec BY <3>1, <3>2
    <3>4. CASE r.side = "Buy"
      <4>1. RealizedAccount(a, y, r) = a BY <3>4 DEF RealizedAccount
      <4> QED BY <2>3, <3>4, <4>1
    <3>5. CASE r.side = "Sell"
      <4>1. RealizedAccount(a, y, r) = [a EXCEPT !.daily_realized_pnl = @ + gain] BY <3>3, <3>5 DEF RealizedAccount
      <4>2. a.daily_realized_pnl + gain \in Int BY <3>2
      <4>3. RealizedAccount(a, y, r) \in AccountRisk BY <4>1, <4>2 DEF AccountRisk
      <4>4. z.realized_pnl = a.daily_realized_pnl + gain BY <2>3, <3>3, <3>5
      <4>5. /\ RealizedAccount(a, y, r).open_orders_count = a.open_orders_count
            /\ RealizedAccount(a, y, r).used_margin = a.used_margin
            /\ RealizedAccount(a, y, r).total_unrealized_pnl = a.total_unrealized_pnl
            /\ RealizedAccount(a, y, r).daily_realized_pnl = a.daily_realized_pnl + gain
            BY <4>1 DEF AccountRisk
      <4> QED BY <4>3, <4>4, <4>5
    <3> QED BY <3>1, <3>4, <3>5 DEF Sides
  <2>5. PICK b \in AccountRisk : b = RealizedAccount(a, y, r) BY <2>4
  <2>6. PnlAfter(a, y, r, m) = MarkedAccount(b, z) BY <1>2, <2>2, <2>5 DEF PnlAfter, Trade
  <2>7. /\ SymbolAfter(y, r, m).realized_pnl = z.realized_pnl
        /\ SymbolAfter(y, r, m).unrealized_pnl = Marked(z).unrealized_pnl
        BY <1>2, <2>2, SymbolEffect
  <2>8. b.total_unrealized_pnl = z.unrealized_pnl BY <2>3, <2>4, <2>5
  <2> QED BY <2>4, <2>5, <2>6, <2>7, <2>8, MarkedAccountEffect
<1> QED BY <1>1, <1>2

-----------------------------------------------------------------------------
(* Booking an order: the sums and counts with one order changed *)

IsOpen(s) == s.new /\ s.remaining > 0
One(b) == IF b THEN 1 ELSE 0

LEMMA CountsChange ==
  ASSUME OrderType, NEW o \in Orders, NEW s \in SeenRecs, seen' = [seen EXCEPT ![o] = s]
  PROVE  /\ Cardinality(Open) \in Nat /\ Cardinality(Open') \in Nat /\ Cardinality(Open') < CntMod
         /\ Cardinality(Open') = Cardinality(Open) - One(IsOpen(seen[o])) + One(IsOpen(s))
         /\ Cardinality(Expiries) \in Nat /\ Cardinality(Expiries') \in Nat
         /\ Cardinality(Expiries') = Cardinality(Expiries) - One(seen[o].expired) + One(s.expired)
<1> USE Constants
<1>1. seen'[o] = s /\ \A p \in Orders \ {o} : seen'[p] = seen[p] BY DEF OrderType
<1>2. /\ Open \subseteq Orders /\ Open' \subseteq Orders /\ (o \in Open <=> IsOpen(seen[o])) /\ (o \in Open' <=> IsOpen(s))
      /\ \A p \in Orders \ {o} : p \in Open <=> p \in Open'
      BY <1>1 DEF Open, IsOpen
<1>3. /\ Expiries \subseteq Orders /\ Expiries' \subseteq Orders
      /\ (o \in Expiries <=> seen[o].expired) /\ (o \in Expiries' <=> s.expired)
      /\ \A p \in Orders \ {o} : p \in Expiries <=> p \in Expiries'
      BY <1>1 DEF Expiries
<1>4. /\ Cardinality(Open) \in Nat /\ Cardinality(Open') \in Nat
      /\ Cardinality(Open') = Cardinality(Open) - (IF o \in Open THEN 1 ELSE 0) + (IF o \in Open' THEN 1 ELSE 0)
      /\ Cardinality(Open') <= Cardinality(Orders)
      BY <1>2, CardChange
<1>5. /\ Cardinality(Expiries) \in Nat /\ Cardinality(Expiries') \in Nat
      /\ Cardinality(Expiries') = Cardinality(Expiries) - (IF o \in Expiries THEN 1 ELSE 0)
                                  + (IF o \in Expiries' THEN 1 ELSE 0)
      BY <1>3, CardChange
<1>6. Cardinality(Open') < CntMod BY <1>4, FewOrders
<1> QED BY <1>2, <1>3, <1>4, <1>5, <1>6 DEF One

FillsOf(side, s) == IF s.side = side THEN s.filled ELSE 0

LEMMA FillsChange ==
  ASSUME OrderType, NEW o \in Orders, NEW s \in SeenRecs, seen' = [seen EXCEPT ![o] = s], NEW side
  PROVE  /\ BookedFills(side) \in Nat /\ BookedFills(side)' \in Nat
         /\ BookedFills(side)' = BookedFills(side) - FillsOf(side, seen[o]) + FillsOf(side, s)
<1> USE Constants
<1> DEFINE S == {p \in Orders : seen[p].side = side}
           T == {p \in Orders : seen'[p].side = side}
           a == [p \in Orders |-> seen[p].filled]
           b == [p \in Orders |-> seen'[p].filled]
           f == [p \in Orders |-> IF p \in S THEN a[p] ELSE 0]
           g == [p \in Orders |-> IF p \in T THEN b[p] ELSE 0]
<1>1. seen'[o] = s /\ (\A p \in Orders \ {o} : seen'[p] = seen[p])
      BY DEF OrderType
<1>6. \A p \in Orders : seen[p].filled \in Nat /\ seen'[p].filled \in Nat BY <1>1 DEF OrderType, SeenRecs
<1>2. f \in [Orders -> Nat] /\ g \in [Orders -> Nat] BY <1>6
<1>3. f[o] = FillsOf(side, seen[o]) /\ g[o] = FillsOf(side, s) /\ \A p \in Orders \ {o} : g[p] = f[p]
      BY <1>1 DEF FillsOf
<1>4. BookedFills(side) = Total(f)
  <2>1. BookedFills(side) = Total([p \in S |-> a[p]])
    <3>1. [p \in S |-> a[p]] = [p \in S |-> seen[p].filled] OBVIOUS
    <3> QED BY <3>1 DEF BookedFills
  <2>2. S \subseteq Orders OBVIOUS
  <2> HIDE DEF S, a
  <2> QED BY <2>1, <2>2, TotalWhere
<1>5. BookedFills(side)' = Total(g)
  <2>1. BookedFills(side)' = Total([p \in T |-> b[p]])
    <3>1. [p \in T |-> b[p]] = [p \in T |-> seen'[p].filled] OBVIOUS
    <3> QED BY <3>1 DEF BookedFills
  <2>2. T \subseteq Orders OBVIOUS
  <2> HIDE DEF T, b
  <2> QED BY <2>1, <2>2, TotalWhere
<1> HIDE DEF f, g
<1>7. Total(f) \in Nat /\ Total(g) \in Nat /\ Total(g) = Total(f) - f[o] + g[o] BY <1>2, <1>3, TotalChange
<1> QED BY <1>3, <1>4, <1>5, <1>7

PaidOf(side, s) == IF s.side = side THEN s.value ELSE 0

LEMMA PaidChange ==
  ASSUME OrderType, NEW o \in Orders, NEW s \in SeenRecs, seen' = [seen EXCEPT ![o] = s], NEW side
  PROVE  /\ BookedValue(side) \in Nat /\ BookedValue(side)' \in Nat
         /\ BookedValue(side)' = BookedValue(side) - PaidOf(side, seen[o]) + PaidOf(side, s)
<1> USE Constants
<1> DEFINE S == {p \in Orders : seen[p].side = side}
           T == {p \in Orders : seen'[p].side = side}
           a == [p \in Orders |-> seen[p].value]
           b == [p \in Orders |-> seen'[p].value]
           f == [p \in Orders |-> IF p \in S THEN a[p] ELSE 0]
           g == [p \in Orders |-> IF p \in T THEN b[p] ELSE 0]
<1>1. seen'[o] = s /\ (\A p \in Orders \ {o} : seen'[p] = seen[p])
      BY DEF OrderType
<1>6. \A p \in Orders : seen[p].value \in Nat /\ seen'[p].value \in Nat BY <1>1 DEF OrderType, SeenRecs
<1>2. f \in [Orders -> Nat] /\ g \in [Orders -> Nat] BY <1>6
<1>3. f[o] = PaidOf(side, seen[o]) /\ g[o] = PaidOf(side, s) /\ \A p \in Orders \ {o} : g[p] = f[p]
      BY <1>1 DEF PaidOf
<1>4. BookedValue(side) = Total(f)
  <2>1. BookedValue(side) = Total([p \in S |-> a[p]])
    <3>1. [p \in S |-> a[p]] = [p \in S |-> seen[p].value] OBVIOUS
    <3> QED BY <3>1 DEF BookedValue
  <2>2. S \subseteq Orders OBVIOUS
  <2> HIDE DEF S, a
  <2> QED BY <2>1, <2>2, TotalWhere
<1>5. BookedValue(side)' = Total(g)
  <2>1. BookedValue(side)' = Total([p \in T |-> b[p]])
    <3>1. [p \in T |-> b[p]] = [p \in T |-> seen'[p].value] OBVIOUS
    <3> QED BY <3>1 DEF BookedValue
  <2>2. T \subseteq Orders OBVIOUS
  <2> HIDE DEF T, b
  <2> QED BY <2>1, <2>2, TotalWhere
<1> HIDE DEF f, g
<1>7. Total(f) \in Nat /\ Total(g) \in Nat /\ Total(g) = Total(f) - f[o] + g[o] BY <1>2, <1>3, TotalChange
<1> QED BY <1>3, <1>4, <1>5, <1>7

ValueOf(price, s) == IF IsOpen(s) THEN price * s.remaining ELSE 0

LEMMA ValueChange ==
  ASSUME OrderType, NEW o \in Orders, NEW s \in SeenRecs, seen' = [seen EXCEPT ![o] = s], ex' = ex
  PROVE  /\ OpenValue \in Nat /\ OpenValue' \in Nat
         /\ OpenValue' = OpenValue - ValueOf(ex[o].price, seen[o]) + ValueOf(ex[o].price, s)
<1> USE Constants
<1> DEFINE a == [p \in Orders |-> ex[p].price * seen[p].remaining]
           b == [p \in Orders |-> ex[p].price * seen'[p].remaining]
           f == [p \in Orders |-> IF p \in Open THEN a[p] ELSE 0]
           g == [p \in Orders |-> IF p \in Open' THEN b[p] ELSE 0]
<1>1. seen'[o] = s /\ (\A p \in Orders \ {o} : seen'[p] = seen[p])
      BY DEF OrderType
<1>2. \A p \in Orders : (p \in Open <=> IsOpen(seen[p])) /\ (p \in Open' <=> IsOpen(seen'[p]))
      BY DEF Open, IsOpen
<1>6. \A p \in Orders : /\ ex[p].price \in Nat /\ seen[p].remaining \in Int /\ seen'[p].remaining \in Int
      BY <1>1 DEF OrderType, SeenRecs, ExRecs
<1>8. /\ \A p \in Orders : f[p] = ValueOf(ex[p].price, seen[p])
      /\ \A p \in Orders : g[p] = ValueOf(ex[p].price, seen'[p])
      BY <1>2 DEF ValueOf
<1>9. ASSUME NEW p \in Orders, NEW x \in SeenRecs PROVE ValueOf(ex[p].price, x) \in Nat
  <2>1. x.remaining \in Int /\ ex[p].price \in Nat BY <1>6 DEF SeenRecs
  <2>2. x.remaining > 0 => ex[p].price * x.remaining \in Nat
    <3> SUFFICES ASSUME x.remaining > 0 PROVE ex[p].price * x.remaining \in Nat
        OBVIOUS
    <3>1. x.remaining \in Nat BY <2>1
    <3> QED BY <2>1, <3>1
  <2> QED BY <2>2 DEF ValueOf, IsOpen
<1>10. \A p \in Orders : seen[p] \in SeenRecs /\ seen'[p] \in SeenRecs BY <1>1 DEF OrderType
<1>11. \A p \in Orders : f[p] \in Nat /\ g[p] \in Nat BY <1>8, <1>9, <1>10
<1>3. f[o] = ValueOf(ex[o].price, seen[o]) /\ g[o] = ValueOf(ex[o].price, s) /\ \A p \in Orders \ {o} : g[p] = f[p]
      BY <1>1, <1>8
<1>4. OpenValue = Total(f)
  <2>1. OpenValue = Total([p \in Open |-> a[p]])
    <3>1. [p \in Open |-> a[p]] = [p \in Open |-> ex[p].price * seen[p].remaining] BY DEF Open
    <3> QED BY <3>1 DEF OpenValue
  <2>2. Open \subseteq Orders BY DEF Open
  <2> HIDE DEF a
  <2> QED BY <2>1, <2>2, TotalWhere
<1>5. OpenValue' = Total(g)
  <2>1. OpenValue' = Total([p \in Open' |-> b[p]])
    <3>1. [p \in Open' |-> b[p]] = [p \in Open' |-> ex'[p].price * seen'[p].remaining] BY DEF Open
    <3> QED BY <3>1 DEF OpenValue
  <2>2. Open' \subseteq Orders BY DEF Open
  <2> HIDE DEF b
  <2> QED BY <2>1, <2>2, TotalWhere
<1>12. f \in [Orders -> Nat] /\ g \in [Orders -> Nat] BY <1>11
<1> HIDE DEF f, g
<1>7. Total(f) \in Nat /\ Total(g) \in Nat /\ Total(g) = Total(f) - f[o] + g[o] BY <1>12, <1>3, TotalChange
<1> QED BY <1>3, <1>4, <1>5, <1>7

\* What the account makes of an order that is due.
LEMMA DueAccount ==
  ASSUME NEW a \in AccountRisk, NEW s \in SeenRecs, NEW r \in OrderRecs, NEW e \in ExRecs, NEW z \in SeenRecs,
         NEW o \in Orders, Due(s, r, e), z = Booked(s, r, e.value), Orderly(r), r.remaining >= 0,
         NEW n \in Nat, n < CntMod,
         n = a.open_orders_count - One(IsOpen(s)) + One(IsOpen(z))
  PROVE  LET b == AccountAfter(a, r, OrderMetrics(o, r))
         IN /\ b.open_orders_count = n
            /\ e.even /\ r.price >= 0 => b.used_margin = a.used_margin - ValueOf(r.price, s) + ValueOf(r.price, z)
<1> DEFINE m == OrderMetrics(o, r)
           c == a.open_orders_count
           b == AccountAfter(a, r, m)
<1>1. /\ r.price \in Int /\ r.quantity \in Int /\ r.last_exec \in Int /\ r.replaced \in Int /\ r.remaining \in Int
      /\ r.cancelled_count \in Nat /\ s.remaining \in Int /\ c \in Int /\ a.used_margin \in Int
      /\ r.status \in Statuses
      BY Constants DEF OrderRecs, SeenRecs, AccountRisk
<1>2. /\ m.nominal = r.price * r.last_exec /\ m.notional = r.price * r.quantity
      /\ m.replaced = r.price * r.replaced
      BY DEF OrderMetrics
<1>3. m.nominal \in Int /\ m.notional \in Int /\ m.replaced \in Int BY <1>1, <1>2
<1>4. n % CntMod = n
  <2>1. CntMod \in Nat \ {0} BY Constants
  <2>2. n \in Int /\ 0 <= n OBVIOUS
  <2> QED BY <2>1, <2>2, ModRound
<1>5. IsOpen(s) <=> r.status # "New" BY DEF Due, IsOpen
<1>6. IsOpen(z) <=> r.remaining > 0 BY DEF Due, IsOpen, Booked
<1>7. ValueOf(r.price, s) = r.price * s.remaining
  <2>1. CASE IsOpen(s) BY <2>1 DEF ValueOf
  <2>2. CASE ~IsOpen(s)
    <3>1. s.remaining = 0 BY <2>2 DEF IsOpen, Due
    <3> QED BY <1>1, <2>2, <3>1 DEF ValueOf
  <2> QED BY <2>1, <2>2
<1>8. ValueOf(r.price, z) = r.price * r.remaining
  <2>1. z.remaining = r.remaining BY DEF Booked
  <2>2. CASE r.remaining > 0 BY <1>6, <2>1, <2>2 DEF ValueOf
  <2>3. CASE r.remaining = 0 BY <1>1, <1>6, <2>3 DEF ValueOf
  <2> QED BY <1>1, <2>2, <2>3
<1>9. e.even => r.remaining = s.remaining + Delta(r) BY DEF Due
<1>10. ASSUME e.even, NEW d \in Int, Delta(r) = d
       PROVE  ValueOf(r.price, z) - ValueOf(r.price, s) = r.price * d
  <2>1. r.remaining = s.remaining + d BY <1>9, <1>10
  <2>2. r.price * r.remaining = r.price * s.remaining + r.price * d BY <1>1, <2>1
  <2>3. r.price * s.remaining \in Int /\ r.price * d \in Int BY <1>1
  <2> QED BY <1>7, <1>8, <2>2, <2>3
<1>11. ValueOf(r.price, s) \in Int /\ ValueOf(r.price, z) \in Int BY <1>1, <1>7, <1>8
<1>o. ASSUME NEW d \in Int, Delta(r) = d, b = Ordered(a, r, r.price * d, n)
      PROVE  /\ b.open_orders_count = n
             /\ e.even /\ r.price >= 0 => b.used_margin = a.used_margin - ValueOf(r.price, s) + ValueOf(r.price, z)
  <2>1. r.price * d \in Int BY <1>1
  <2>2. /\ b.open_orders_count = n % CntMod
        /\ b.used_margin = IF r.price > 0 THEN a.used_margin + r.price * d ELSE a.used_margin
        BY <1>o, <2>1, OrderedEffect
  <2>3. e.even /\ r.price >= 0 => b.used_margin = a.used_margin + r.price * d
    <3>1. CASE r.price > 0 BY <2>2, <3>1
    <3>2. CASE r.price = 0
      <4>1. r.price * d = 0 BY <3>2
      <4> QED BY <1>1, <2>2, <3>2, <4>1
    <3> QED BY <1>1, <3>1, <3>2
  <2>4. e.even => ValueOf(r.price, z) - ValueOf(r.price, s) = r.price * d BY <1>o, <1>10
  <2> QED BY <1>1, <1>4, <1>11, <2>1, <2>2, <2>3, <2>4
<1>t. ASSUME Delta(r) = -r.last_exec, b = Traded(a, r, r.price * r.last_exec, n)
      PROVE  /\ b.open_orders_count = n
             /\ e.even /\ r.price >= 0 => b.used_margin = a.used_margin - ValueOf(r.price, s) + ValueOf(r.price, z)
  <2>1. r.price * r.last_exec \in Int BY <1>1
  <2>2. b.open_orders_count = n % CntMod /\ b.used_margin = a.used_margin - r.price * r.last_exec
        BY <1>t, <2>1, TradedEffect
  <2>3. -r.last_exec \in Int BY <1>1
  <2>4. e.even => ValueOf(r.price, z) - ValueOf(r.price, s) = r.price * (-r.last_exec) BY <1>t, <1>10, <2>3
  <2>5. r.price * (-r.last_exec) = -(r.price * r.last_exec) BY <1>1
  <2> QED BY <1>1, <1>4, <1>11, <2>1, <2>2, <2>4, <2>5
<1>13. n = c - (IF r.status = "New" THEN 0 ELSE 1) + (IF r.remaining > 0 THEN 1 ELSE 0)
       BY <1>5, <1>6 DEF One
<1>14. r.status \in {"Partial", "Filled", "Replaced", "Expired", "New"} => r.cancelled_count = 0
  <2>1. r.cancelled_count # 1 => r.cancelled_count = 0
    <3>1. r.cancelled_count <= 1 BY DEF Orderly
    <3> QED BY <1>1, <3>1
  <2> QED BY <2>1 DEF Orderly
<1> HIDE DEF b
<1>n. CASE r.status = "New"
  <2>1. n = c + 1 /\ Delta(r) = r.quantity BY <1>n, <1>1, <1>13 DEF Due, Delta, Trade
  <2>2. b = Ordered(a, r, m.notional, c + 1) BY <1>n DEF AccountAfter, b
  <2> QED BY <1>1, <1>2, <1>o, <2>1, <2>2 DEF b
<1>p. CASE r.status = "Partial"
  <2>1. n = c /\ Delta(r) = -r.last_exec BY <1>p, <1>1, <1>13, <1>14 DEF Due, Delta, Trade
  <2>2. b = Traded(a, r, m.nominal, c) BY <1>p DEF AccountAfter, b
  <2> QED BY <1>2, <1>t, <2>1, <2>2 DEF b
<1>f. CASE r.status = "Filled"
  <2>1. n = c - 1 /\ Delta(r) = -r.last_exec BY <1>f, <1>1, <1>13, <1>14 DEF Due, Delta, Trade
  <2>2. b = Traded(a, r, m.nominal, c - 1) BY <1>f DEF AccountAfter, b
  <2> QED BY <1>2, <1>t, <2>1, <2>2 DEF b
<1>c. CASE r.status \in {"Cancelled", "Deleted", "Expired"}
  <2>1. r.cancelled_count <= 1 BY DEF Orderly
  <2>2. Delta(r) = r.replaced BY <1>c DEF Delta, Trade
  <2>3. n = IF r.remaining = 0 THEN c - 1 ELSE c BY <1>c, <1>1, <1>13
  <2>4. b = Ordered(a, r, m.replaced, IF r.remaining = 0 THEN c - 1 ELSE c) BY <1>c, <2>1 DEF AccountAfter, b
  <2> QED BY <1>1, <1>2, <1>o, <2>2, <2>3, <2>4 DEF b
<1>r. CASE r.status = "Replaced"
  <2>1. n = c /\ Delta(r) = r.replaced BY <1>r, <1>1, <1>13 DEF Due, Delta, Trade
  <2>2. b = Ordered(a, r, m.replaced, c) BY <1>r DEF AccountAfter, b
  <2> QED BY <1>1, <1>2, <1>o, <2>1, <2>2 DEF b
<1> QED BY <1>1, <1>n, <1>p, <1>f, <1>c, <1>r DEF Due, Statuses, b

\* What the symbol makes of an order that is due.
LEMMA DueSymbol ==
  ASSUME NEW s \in SeenRecs, NEW r \in OrderRecs, NEW e \in ExRecs, NEW z \in SeenRecs,
         Due(s, r, e), z = Booked(s, r, e.value), Orderly(r), r.remaining >= 0,
         NEW c \in Int, NEW n \in Int, NEW f \in Int, NEW k \in Int, NEW l \in Int, NEW d \in Int,
         c = n + f,
         k = n - One(IsOpen(s)) + One(IsOpen(z)),
         l = f - One(s.expired) + One(z.expired),
         d = CASE r.status = "New" -> c + 1
               [] r.status = "Filled" -> c - 1
               [] r.status \in {"Cancelled", "Deleted"} /\ r.cancelled_count <= 1 /\ r.remaining = 0 -> c - 1
               [] OTHER -> c
  PROVE  d = k + l
<1>1. /\ r.remaining \in Int /\ r.cancelled_count \in Nat /\ r.status \in Statuses
      BY DEF OrderRecs
<1>2. l = f + (IF r.status = "Expired" THEN 1 ELSE 0)
  <2>1. One(s.expired) = 0 BY DEF Due, One
  <2>2. One(z.expired) = IF r.status = "Expired" THEN 1 ELSE 0
    <3>1. z.expired <=> r.status = "Expired" BY DEF Booked
    <3> QED BY <3>1 DEF One
  <2> QED BY <2>1, <2>2
<1>3. k = n - (IF r.status = "New" THEN 0 ELSE 1) + (IF r.remaining > 0 THEN 1 ELSE 0)
      BY DEF Due, Booked, One, IsOpen
<1>5. r.cancelled_count <= 1 BY DEF Orderly
<1>6. r.cancelled_count # 1 => r.cancelled_count = 0 BY <1>1, <1>5
<1>4. r.status \in {"Partial", "Filled", "Replaced", "Expired", "New"} => r.cancelled_count = 0
      BY <1>6 DEF Orderly
<1>n. CASE r.status = "New" BY <1>n, <1>1, <1>2, <1>3 DEF Due
<1>p. CASE r.status = "Partial" BY <1>p, <1>1, <1>2, <1>3, <1>4 DEF Due
<1>f. CASE r.status = "Filled" BY <1>f, <1>1, <1>2, <1>3, <1>4 DEF Due
<1>c. CASE r.status \in {"Cancelled", "Deleted"}
  <2>1. l = f BY <1>c, <1>2
  <2>2. d = IF r.remaining = 0 THEN c - 1 ELSE c BY <1>c, <1>5
  <2>3. k = n - 1 + (IF r.remaining > 0 THEN 1 ELSE 0) BY <1>c, <1>3
  <2> QED BY <1>1, <2>1, <2>2, <2>3
<1>e. CASE r.status = "Expired"
  <2>1. r.remaining = 0 BY <1>e DEF Due
  <2> QED BY <1>e, <1>1, <1>2, <1>3, <2>1
<1>r. CASE r.status = "Replaced" BY <1>r, <1>1, <1>2, <1>3 DEF Due
<1> QED BY <1>1, <1>n, <1>p, <1>f, <1>c, <1>e, <1>r DEF Due, Statuses

\* An order given again: nothing is opened or closed.
LEMMA SameCounts ==
  ASSUME NEW a \in AccountRisk, NEW y \in SymInts, NEW s \in SeenRecs, NEW r \in OrderRecs, NEW e \in ExRecs,
         NEW z \in SeenRecs, NEW m \in Updates,
         Same(s, r, e), r.status # "New", z = Booked(s, r, e.value),
         r.side = "Buy" /\ r.status \in {"Partial", "Filled"} => y.net_position + r.last_exec # 0
  PROVE  /\ One(IsOpen(z)) = One(IsOpen(s)) /\ One(z.expired) = One(s.expired)
         /\ AccountAfter(a, r, m).open_orders_count = a.open_orders_count
         /\ SymbolAfter(y, r, m).open_orders_count = y.open_orders_count
         /\ r.status = "CancelRequest" => AccountAfter(a, r, m).used_margin = a.used_margin
<1>1. /\ z.new = r.new /\ z.remaining = r.remaining /\ (z.expired <=> r.status = "Expired") BY DEF Booked
<1>2. r.status \in {"Partial", "Replaced", "CancelRequest"} /\ ~s.expired BY DEF Same, Told
<1>3. One(IsOpen(z)) = One(IsOpen(s)) BY <1>1 DEF Same, IsOpen, One
<1>4. One(z.expired) = One(s.expired) BY <1>1, <1>2 DEF One
<1>5. SymbolAfter(y, r, m).open_orders_count = y.open_orders_count BY <1>2, SymbolEffect
<1>6. a.open_orders_count \in 0..CntMod - 1 BY DEF AccountRisk
<1>7. PICK c \in Int : c = a.open_orders_count /\ 0 <= c /\ c < CntMod BY <1>6, Constants
<1>8. c % CntMod = c
  <2>1. CntMod \in Nat \ {0} BY Constants
  <2> QED BY <1>7, <2>1, ModRound
<1>9. m.nominal \in Int /\ m.replaced \in Int BY DEF Updates
<1>10. CASE r.status = "Partial"
  <2>1. AccountAfter(a, r, m) = Traded(a, r, m.nominal, c) BY <1>7, <1>10 DEF AccountAfter
  <2>2. AccountAfter(a, r, m).open_orders_count = c % CntMod BY <1>9, <2>1, TradedEffect
  <2> QED BY <1>3, <1>4, <1>5, <1>7, <1>8, <1>10, <2>2
<1>11. CASE r.status = "Replaced"
  <2>1. AccountAfter(a, r, m) = Ordered(a, r, m.replaced, c) BY <1>7, <1>11 DEF AccountAfter
  <2>2. AccountAfter(a, r, m).open_orders_count = c % CntMod BY <1>9, <2>1, OrderedEffect
  <2> QED BY <1>3, <1>4, <1>5, <1>7, <1>8, <1>11, <2>2
<1>12. CASE r.status = "CancelRequest"
  <2>1. AccountAfter(a, r, m) = a BY <1>12 DEF AccountAfter
  <2> QED BY <1>3, <1>4, <1>5, <2>1
<1> QED BY <1>2, <1>10, <1>11, <1>12

\* The trade that booking r over s adds.
Adds(s, r, e) == /\ r.filled = s.filled + (IF Trade(r) THEN r.last_exec ELSE 0)
                 /\ e.value = s.value + (IF Trade(r) THEN r.price * r.last_exec ELSE 0)
                 /\ s.side = r.side \/ (s.filled = 0 /\ s.value = 0)

LEMMA AddsOnce ==
  ASSUME NEW o \in Orders, NEW s \in SeenRecs, NEW r \in OrderRecs, NEW e \in ExRecs, NotAgain("Partial"),
         Due(s, r, e) \/ (Same(s, r, e) /\ Known(o, r.status))
  PROVE  Adds(s, r, e)
<1>1. /\ r.filled \in Nat /\ s.filled \in Nat /\ e.value \in Nat /\ s.value \in Nat
      BY DEF OrderRecs, SeenRecs, ExRecs
<1>2. CASE Due(s, r, e) BY <1>2 DEF Due, Adds
<1>3. CASE Same(s, r, e) /\ Known(o, r.status)
  <2>1. r.status \notin {"Partial", "Filled"} BY <1>3 DEF Same, Told, Known, NotAgain
  <2>2. ~Trade(r) BY <2>1 DEF Trade
  <2> QED BY <1>1, <1>3, <2>2 DEF Same, Adds
<1> QED BY <1>2, <1>3

\* What the position makes of it.
LEMMA AddedPosition ==
  ASSUME NEW s \in SeenRecs, NEW r \in OrderRecs, NEW e \in ExRecs, NEW z \in SeenRecs,
         Adds(s, r, e), z = Booked(s, r, e.value),
         NEW x \in Int, NEW buys \in Nat, NEW sells \in Nat, x = buys - sells
  PROVE  x + (IF r.status \in {"Partial", "Filled"} THEN Mult(r.side) * r.last_exec ELSE 0)
            = (buys - FillsOf("Buy", s) + FillsOf("Buy", z)) - (sells - FillsOf("Sell", s) + FillsOf("Sell", z))
<1> DEFINE q == IF r.status \in {"Partial", "Filled"} THEN r.last_exec ELSE 0
<1>1. /\ r.side \in Sides /\ s.side \in Sides /\ r.filled \in Int /\ s.filled \in Int /\ r.last_exec \in Int
      BY DEF OrderRecs, SeenRecs
<1>2. r.filled = s.filled + q BY DEF Adds, Trade
<1>3. q \in Int BY <1>1
<1>4. (IF r.status \in {"Partial", "Filled"} THEN Mult(r.side) * r.last_exec ELSE 0)
         = IF r.side = "Buy" THEN q ELSE -q
  <2>1. Mult(r.side) * r.last_exec = IF r.side = "Buy" THEN r.last_exec ELSE -r.last_exec
        BY <1>1 DEF Mult
  <2> QED BY <1>1, <2>1
<1>5. s.side = r.side \/ s.filled = 0 BY DEF Adds
<1>6. z.side = r.side /\ z.filled = r.filled BY DEF Booked
<1> HIDE DEF q
<1>7. CASE r.side = "Buy"
  <2>1. /\ FillsOf("Buy", s) = s.filled /\ FillsOf("Buy", z) = r.filled
        /\ FillsOf("Sell", s) = 0 /\ FillsOf("Sell", z) = 0
        BY <1>1, <1>5, <1>6, <1>7 DEF FillsOf, Sides
  <2> QED BY <1>1, <1>2, <1>3, <1>4, <1>7, <2>1
<1>8. CASE r.side = "Sell"
  <2>1. /\ FillsOf("Sell", s) = s.filled /\ FillsOf("Sell", z) = r.filled
        /\ FillsOf("Buy", s) = 0 /\ FillsOf("Buy", z) = 0
        BY <1>1, <1>5, <1>6, <1>8 DEF FillsOf, Sides
  <2> QED BY <1>1, <1>2, <1>3, <1>4, <1>8, <2>1
<1> QED BY <1>1, <1>7, <1>8 DEF Sides

\* What the value of the booked trades makes of it.
LEMMA AddedValue ==
  ASSUME NEW s \in SeenRecs, NEW r \in OrderRecs, NEW e \in ExRecs, NEW z \in SeenRecs,
         Adds(s, r, e), z = Booked(s, r, e.value), NEW buys \in Nat, NEW sells \in Nat,
         NEW d \in Int, d = IF Trade(r) THEN r.price * r.last_exec ELSE 0
  PROVE  (buys - PaidOf("Buy", s) + PaidOf("Buy", z)) - (sells - PaidOf("Sell", s) + PaidOf("Sell", z))
            = (buys - sells) + (IF r.side = "Buy" THEN d ELSE -d)
<1>1. r.side \in Sides /\ s.side \in Sides /\ e.value \in Int /\ s.value \in Int
      BY DEF OrderRecs, SeenRecs, ExRecs
<1>2. e.value = s.value + d BY DEF Adds
<1>5. s.side = r.side \/ s.value = 0 BY DEF Adds
<1>6. z.side = r.side /\ z.value = e.value BY DEF Booked
<1>7. CASE r.side = "Buy"
  <2>1. /\ PaidOf("Buy", s) = s.value /\ PaidOf("Buy", z) = e.value
        /\ PaidOf("Sell", s) = 0 /\ PaidOf("Sell", z) = 0
        BY <1>1, <1>5, <1>6, <1>7 DEF PaidOf, Sides
  <2> QED BY <1>1, <1>2, <1>7, <2>1
<1>8. CASE r.side = "Sell"
  <2>1. /\ PaidOf("Sell", s) = s.value /\ PaidOf("Sell", z) = e.value
        /\ PaidOf("Buy", s) = 0 /\ PaidOf("Buy", z) = 0
        BY <1>1, <1>5, <1>6, <1>8 DEF PaidOf, Sides
  <2> QED BY <1>1, <1>2, <1>8, <2>1
<1> QED BY <1>1, <1>7, <1>8 DEF Sides

\* What cost and profit make of it, unless a sell closes the position.
LEMMA AddedCost ==
  ASSUME NEW y \in SymInts, NEW r \in OrderRecs, NEW m \in Updates, m.nominal = r.price * r.last_exec,
         r.side = "Buy" /\ r.status \in {"Partial", "Filled"} => y.net_position + r.last_exec # 0,
         ~(r.side = "Sell" /\ Trade(r) /\ y.net_position - r.last_exec = 0),
         NEW d \in Int, d = IF Trade(r) THEN r.price * r.last_exec ELSE 0
  PROVE  SymbolAfter(y, r, m).cost_basis - SymbolAfter(y, r, m).realized_pnl
            = (y.cost_basis - y.realized_pnl) + (IF r.side = "Buy" THEN d ELSE -d)
<1>1. /\ y.cost_basis \in Int /\ y.realized_pnl \in Int /\ y.avg_entry_price \in Int /\ y.net_position \in Int
      /\ r.price \in Int /\ r.last_exec \in Int /\ r.side \in Sides
      BY DEF SymInts, OrderRecs
<1>2. CASE ~Trade(r)
  <2>1. Costs(SymbolAfter(y, r, m), y) /\ d = 0 BY <1>2, SymbolEffect
  <2> QED BY <1>1, <2>1 DEF Costs
<1>3. CASE Trade(r)
  <2>1. r.side = "Buy" => y.net_position + r.last_exec # 0 BY <1>3 DEF Trade
  <2>2. /\ SymbolAfter(y, r, m).cost_basis = AfterFill(y, r, m).cost_basis
        /\ SymbolAfter(y, r, m).realized_pnl = AfterFill(y, r, m).realized_pnl
        BY <1>3, SymbolEffect
  <2>3. CASE r.side = "Buy"
    <3>1. /\ AfterFill(y, r, m).cost_basis = y.cost_basis + m.nominal
          /\ AfterFill(y, r, m).realized_pnl = y.realized_pnl
          BY <2>1, <2>3, AfterFillEffect
    <3>2. d = m.nominal BY <1>3
    <3> QED BY <1>1, <2>2, <2>3, <3>1, <3>2
  <2>4. CASE r.side = "Sell"
    <3>1. y.net_position + Mult(r.side) * r.last_exec # 0
      <4>1. Mult(r.side) * r.last_exec = -r.last_exec BY <1>1, <2>4 DEF Mult
      <4> QED BY <1>1, <1>3, <2>4, <4>1
    <3>2. /\ AfterFill(y, r, m).cost_basis = y.cost_basis - y.avg_entry_price * r.last_exec
          /\ AfterFill(y, r, m).realized_pnl = y.realized_pnl + (r.price - y.avg_entry_price) * r.last_exec
          BY <2>1, <2>4, <3>1, AfterFillEffect
    <3>3. PICK u \in Int, w \in Int : u = y.avg_entry_price * r.last_exec /\ w = r.price * r.last_exec BY <1>1
    <3>4. (r.price - y.avg_entry_price) * r.last_exec = w - u BY <1>1, <3>3
    <3>5. d = w BY <1>3, <3>3
    <3> QED BY <1>1, <2>2, <2>4, <3>2, <3>3, <3>4, <3>5
  <2> QED BY <1>1, <2>3, <2>4 DEF Sides
<1> QED BY <1>2, <1>3

LEMMA UpdateSymbolNext == ASSUME IInv, update_symbol_risk PROVE IInv'
<1> USE Constants
<1>u. /\ UNCHANGED <<flow, order, ex, drift, again, market, strategy_to_risk_, orderrisks_, orderrisk_pool_>>
      /\ stopped = "no" /\ updating = NoUpdate
      /\ store_to_risk_ # <<>> /\ Head(store_to_risk_) # nullptr
      /\ store_to_risk_' = Tail(store_to_risk_)
      BY DEF update_symbol_risk, feed, slips
<1>1. /\ Head(store_to_risk_) \in Orders \cup {nullptr}
      /\ store_to_risk_' \in Seq(Orders \cup {nullptr}) /\ Len(store_to_risk_') <= QueueCap
      /\ \A p : p \in Range(store_to_risk_) <=> p = Head(store_to_risk_) \/ p \in Range(store_to_risk_')
      /\ drift = {} => \A i, j \in 1..Len(store_to_risk_') :
            store_to_risk_'[i] = store_to_risk_'[j] /\ store_to_risk_'[i] # nullptr => i = j
      /\ drift = {} /\ Head(store_to_risk_) # nullptr => Head(store_to_risk_) \notin Range(store_to_risk_')
      BY <1>u, QueueTail
<1>o. PICK o \in Orders : o = Head(store_to_risk_) BY <1>u, <1>1
<1>2. /\ Waiting(o) /\ (drift = {} => ~Waiting(o)')
      /\ \A p \in Orders : (Waiting(p)' => Waiting(p)) /\ (p # o => (Waiting(p)' <=> Waiting(p)))
      BY <1>u, <1>1, <1>o DEF Waiting
<1>3. order[o] \in OrderRecs /\ ex[o] \in ExRecs /\ Lived(o) BY OrderFacts
<1>r. PICK r \in OrderRecs : r = order[o] BY <1>3
<1>s. PICK s \in SeenRecs : s = seen[o] BY DEF IInv, OrderType
<1>e. PICK e \in ExRecs : e = ex[o] BY <1>3
<1>4. /\ r.price \in Int /\ r.quantity \in Int /\ r.last_exec \in Int /\ r.replaced \in Int /\ r.remaining \in Int
      /\ r.cancelled_count \in Nat /\ e.leaves \in Nat /\ e.price \in Nat
      BY DEF OrderRecs, ExRecs
<1>5. OrderMetrics(o, r) \in Updates
  <2>1. r.price * r.last_exec \in Int /\ r.price * r.quantity \in Int /\ r.price * r.replaced \in Int BY <1>4
  <2> QED BY <2>1 DEF OrderMetrics, Updates
<1>m. PICK m \in Updates : m = OrderMetrics(o, r) BY <1>5
<1>6. m.o = o /\ m.book = "account" /\ m.nominal = r.price * r.last_exec BY <1>m DEF OrderMetrics
<1>7. Booked(s, r, e.value) \in SeenRecs
  <2>1. s.at \in SUBSET Int /\ s.price \in Int BY DEF SeenRecs
  <2>2. PICK at \in SUBSET Int : at = IF s.new THEN s.at \cup {s.price} ELSE {} BY <2>1
  <2>3. Booked(s, r, e.value) = [side |-> r.side, price |-> r.price, filled |-> r.filled, remaining |-> r.remaining,
                                 expired |-> r.status = "Expired", new |-> r.new, value |-> e.value, at |-> at]
        BY <2>2 DEF Booked
  <2> QED BY <2>3 DEF SeenRecs, OrderRecs, ExRecs
<1>z. PICK z \in SeenRecs : z = Booked(s, r, e.value) BY <1>7
<1>8. drift = {} => Due(s, r, e) \/ (Same(s, r, e) /\ Known(o, r.status))
      BY <1>u, <1>2, <1>r, <1>s, <1>e DEF IInv, BookInv, Owed, Clean
<1>9. updating.o = nullptr /\ updating.book = "none" BY <1>u DEF NoUpdate
<1>10. LevelType' /\ SlotInv' BY <1>u DEF IInv, LevelType, SlotInv
<1>11. QueueType' BY <1>u, <1>1 DEF IInv, QueueType
<1>12. sym \in SymbolRisk /\ acc \in AccountRisk /\ market \in Nat \X Nat BY DEF IInv, BookType
<1>13. seen \in [Orders -> SeenRecs] BY DEF IInv, OrderType
<1>14. /\ z.side = r.side /\ z.price = r.price /\ z.filled = r.filled /\ z.remaining = r.remaining
       /\ z.new = r.new /\ z.value = e.value /\ (z.expired <=> r.status = "Expired")
       /\ z.at = IF s.new THEN s.at \cup {s.price} ELSE {}
       BY <1>z DEF Booked
<1>l. ASSUME seen' = [seen EXCEPT ![o] = z] PROVE OrderType' /\ LivedInv'
  <2>1. seen' \in [Orders -> SeenRecs] BY <1>l, <1>13
  <2>2. seen'[o] = z /\ \A p \in Orders \ {o} : seen'[p] = seen[p] BY <1>l, <1>13
  <2>3. OrderType' BY <1>u, <2>1 DEF IInv, OrderType
  <2>5. Lived(o)' BY <1>u, <1>3, <1>r, <1>14, <2>2 DEF Lived
  <2>6. ASSUME NEW p \in Orders, p # o PROVE Lived(p)'
    <3>1. Lived(p) BY DEF IInv, LivedInv
    <3> QED BY <1>u, <2>2, <2>6, <3>1 DEF Lived
  <2> QED BY <2>3, <2>5, <2>6 DEF LivedInv
<1>15. drift = {} => r.new /\ r.status # "Unknown" /\ (s.new => s.side = r.side /\ s.remaining > 0)
       BY <1>8 DEF Due, Same, Told
<1>a. CASE flow = "FIX" /\ (~r.new \/ r.status = "Unknown")
  <2>1. /\ UNCHANGED <<updating, acc, sym, stopped, flat>>
        /\ seen' = IF r.new THEN [seen EXCEPT ![o] = z] ELSE seen
        BY <1>a, <1>o, <1>r, <1>s, <1>e, <1>z DEF update_symbol_risk
  <2>2. drift # {} BY <1>a, <1>15
  <2>3. OrderType' /\ LivedInv'
    <3>1. CASE r.new BY <1>l, <2>1, <3>1
    <3>2. CASE ~r.new
      <4>1. seen' = seen BY <2>1, <3>2
      <4> QED BY <1>u, <4>1 DEF IInv, OrderType, LivedInv, Lived
    <3> QED BY <3>1, <3>2
  <2>4. UpdateType' /\ BookType' BY <1>u, <2>1 DEF IInv, UpdateType, BookType
  <2>5. drift' # {} BY <1>u, <2>2
  <2>6. OnceInv' /\ LifeInv' /\ BookInv' /\ LevelInv' /\ KeyInv'
        BY <2>5 DEF OnceInv, LifeInv, BookInv, LevelInv, KeyInv, Clean
  <2>7. PositionMatchesFills' /\ CountInv' /\ MarginInv'
        BY <2>5 DEF PositionMatchesFills, CountInv, MarginInv, Faithful
  <2>8. TradesAreAccounted' BY <2>1, <2>5 DEF IInv, TradesAreAccounted
  <2> QED BY <1>10, <1>11, <2>3, <2>4, <2>6, <2>7, <2>8 DEF IInv
<1>b. CASE ~(flow = "FIX" /\ (~r.new \/ r.status = "Unknown")) /\ DividesByZero(r)
  <2>1. UNCHANGED <<updating, acc, sym, seen, flat>> /\ stopped' = "divided by zero"
        BY <1>b, <1>o, <1>r DEF update_symbol_risk
  <2>2. OrderType' /\ LivedInv' /\ UpdateType' /\ BookType'
    <3>1. OrderType' /\ LivedInv' BY <1>u, <2>1 DEF IInv, OrderType, LivedInv, Lived
    <3> QED BY <1>u, <2>1, <3>1 DEF IInv, UpdateType, BookType
  <2>3. OnceInv' BY <1>u, <1>1, <1>9, <2>1 DEF OnceInv
  <2>4. LifeInv' /\ BookInv' /\ CountInv' /\ MarginInv' /\ LevelInv' /\ KeyInv'
        BY <2>1 DEF LifeInv, BookInv, CountInv, MarginInv, LevelInv, KeyInv, Clean
  <2>5. PositionMatchesFills' BY <1>u, <2>1 DEF IInv, PositionMatchesFills, BookedFills, NotAgain
  <2>6. TradesAreAccounted' BY <1>u, <2>1 DEF IInv, TradesAreAccounted, BookedValue, NotAgain
  <2> QED BY <1>10, <1>11, <2>2, <2>3, <2>4, <2>5, <2>6 DEF IInv
<1>c. CASE ~(flow = "FIX" /\ (~r.new \/ r.status = "Unknown")) /\ ~DividesByZero(r)
  <2>d. sym \in SymInts /\ sym.open_orders_count \in Nat /\ sym.net_position \in Int
        BY <1>12, SymbolIsInts DEF SymbolRisk
  <2>e. r.side = "Buy" /\ r.status \in {"Partial", "Filled"} => sym.net_position + r.last_exec # 0
        BY <1>c DEF DividesByZero
  <2>f. SymbolAfter(sym, r, m) \in SymInts BY <2>d, <2>e, SymbolEffect
  <2>y. PICK y \in SymInts : y = SymbolAfter(sym, r, m) BY <2>f
  <2>1. /\ sym' = Clamped(y) /\ acc' = PnlAfter(acc, sym, r, m) /\ updating' = m /\ stopped' = stopped
        /\ seen' = [seen EXCEPT ![o] = z]
        /\ flat' = IF Closes(r) THEN [value |-> BookedValue("Buy")' - BookedValue("Sell")',
                                      realized |-> sym'.realized_pnl] ELSE flat
        BY <1>c, <1>o, <1>r, <1>s, <1>e, <1>m, <1>z, <2>y DEF update_symbol_risk
  <2>2. OrderType' /\ LivedInv' BY <1>l, <2>1
  <2>3. UpdateType' BY <1>u, <1>6, <2>1 DEF IInv, UpdateType
  <2>4. seen'[o] = z /\ \A p \in Orders \ {o} : seen'[p] = seen[p] BY <2>1, <1>13
  <2>7. /\ y.net_position = sym.net_position + (IF r.status \in {"Partial", "Filled"} THEN Mult(r.side) * r.last_exec ELSE 0)
        /\ y.open_orders_count =
              CASE r.status = "New" -> sym.open_orders_count + 1
                [] r.status = "Filled" -> sym.open_orders_count - 1
                [] r.status \in {"Cancelled", "Deleted"} /\ r.cancelled_count <= 1 /\ r.remaining = 0 ->
                      sym.open_orders_count - 1
                [] OTHER -> sym.open_orders_count
        BY <2>d, <2>e, <2>y, SymbolEffect
  <2>8. /\ sym' \in SymbolRisk /\ sym'.net_position = y.net_position
        /\ sym'.cost_basis = y.cost_basis /\ sym'.realized_pnl = y.realized_pnl
        /\ sym'.unrealized_pnl = y.unrealized_pnl
        /\ y.open_orders_count >= 0 => sym'.open_orders_count = y.open_orders_count
        BY <2>1, ClampedEffect
  <2>p. acc.total_unrealized_pnl = sym.unrealized_pnl /\ acc.daily_realized_pnl = sym.realized_pnl
        BY DEF IInv, TradesAreAccounted
  <2>9. /\ acc' \in AccountRisk
        /\ acc'.open_orders_count = acc.open_orders_count /\ acc'.used_margin = acc.used_margin
        /\ acc'.total_unrealized_pnl = y.unrealized_pnl /\ acc'.daily_realized_pnl = y.realized_pnl
        BY <1>12, <2>1, <2>d, <2>e, <2>p, <2>y, PnlEffect
  <2>v. \A side \in Sides : /\ BookedValue(side) \in Nat /\ BookedValue(side)' \in Nat
                            /\ BookedValue(side)' = BookedValue(side) - PaidOf(side, s) + PaidOf(side, z)
        BY <1>s, <2>1, PaidChange DEF IInv
  <2>w. "Buy" \in Sides /\ "Sell" \in Sides BY DEF Sides
  <2>10. BookType'
    <3>1. sym'.realized_pnl \in Int BY <2>8 DEF SymbolRisk
    <3>2. BookedValue("Buy")' - BookedValue("Sell")' \in Int BY <2>v, <2>w
    <3>3. flat'.value \in Int /\ flat'.realized \in Int BY <2>1, <3>1, <3>2 DEF IInv, BookType
    <3> QED BY <1>u, <1>12, <2>8, <2>9, <3>3 DEF BookType
  <2>11. OnceInv' BY <1>u, <1>1, <1>2, <1>6, <2>1 DEF OnceInv, Waiting
  <2>c. Clean' => Clean /\ drift = {} BY <1>u, <2>1 DEF Clean
  <2>12. LifeInv'
    <3> SUFFICES ASSUME Clean', NEW p \in Orders PROVE Life(p)'
        BY DEF LifeInv
    <3>1. Life(p) BY <2>c DEF IInv, LifeInv
    <3>2. Waiting(p)' => Waiting(p) BY <1>2
    <3>3. ~Waiting(p) => updating'.o # p BY <1>2, <1>6, <2>1
    <3>4. Waiting(p) => Waiting(p)' \/ updating'.o = p BY <1>2, <1>6, <2>1
    <3>5. updating.o # p BY <1>9
    <3> QED BY <1>u, <3>1, <3>2, <3>3, <3>4, <3>5 DEF Life, Alive
  <2>13. BookInv'
    <3> SUFFICES ASSUME Clean', NEW p \in Orders PROVE Owed(p)'
        BY DEF BookInv
    <3>1. CASE p = o
      <4>1. ~Waiting(o)' BY <1>2, <2>c
      <4>2. r.new BY <1>15, <2>c
      <4>3. Done(z, r, e) BY <1>14, <4>2 DEF Done
      <4> QED BY <1>u, <1>r, <1>e, <2>4, <3>1, <4>1, <4>3 DEF Owed
    <3>2. CASE p # o
      <4>1. Owed(p) BY <2>c DEF IInv, BookInv
      <4>2. seen'[p] = seen[p] /\ (Waiting(p)' <=> Waiting(p)) BY <1>2, <2>4, <3>2
      <4> QED BY <1>u, <4>1, <4>2 DEF Owed, Known
    <3> QED BY <3>1, <3>2
  <2>14. PositionMatchesFills'
    <3> SUFFICES ASSUME drift = {}, NotAgain("Partial") PROVE sym'.net_position = BookedFills("Buy")' - BookedFills("Sell")'
        BY <1>u DEF PositionMatchesFills, NotAgain
    <3>1. sym.net_position = BookedFills("Buy") - BookedFills("Sell") BY DEF IInv, PositionMatchesFills
    <3>2. \A side \in Sides : /\ BookedFills(side) \in Nat
                              /\ BookedFills(side)' = BookedFills(side) - FillsOf(side, s) + FillsOf(side, z)
          BY <1>s, <2>1, FillsChange DEF IInv
    <3>3. Adds(s, r, e) BY <1>8, AddsOnce
    <3> QED BY <1>z, <2>d, <2>7, <2>8, <2>w, <3>1, <3>2, <3>3, AddedPosition
  <2>t. TradesAreAccounted'
    <3> SUFFICES ASSUME drift = {}, NotAgain("Partial")
                 PROVE  sym'.cost_basis - (sym'.realized_pnl - flat'.realized)
                           = (BookedValue("Buy")' - BookedValue("Sell")') - flat'.value
        BY <1>u, <2>8, <2>9 DEF TradesAreAccounted, NotAgain
    <3>1. PICK buys \in Nat, sells \in Nat : buys = BookedValue("Buy") /\ sells = BookedValue("Sell") BY <2>v, <2>w
    <3>2. sym.cost_basis - (sym.realized_pnl - flat.realized) = (buys - sells) - flat.value
          BY <3>1 DEF IInv, TradesAreAccounted
    <3>3. Adds(s, r, e) BY <1>8, AddsOnce
    <3>4. PICK d \in Int : d = IF Trade(r) THEN r.price * r.last_exec ELSE 0
      <4>1. r.price * r.last_exec \in Int BY <1>4
      <4> QED BY <4>1
    <3>5. (buys - PaidOf("Buy", s) + PaidOf("Buy", z)) - (sells - PaidOf("Sell", s) + PaidOf("Sell", z))
             = (buys - sells) + (IF r.side = "Buy" THEN d ELSE -d)
          BY <1>z, <3>3, <3>4, AddedValue
    <3>6. BookedValue("Buy")' - BookedValue("Sell")' = (buys - sells) + (IF r.side = "Buy" THEN d ELSE -d)
          BY <2>v, <2>w, <3>1, <3>5
    <3>7. /\ sym'.cost_basis \in Int /\ sym'.realized_pnl \in Int /\ flat.value \in Int /\ flat.realized \in Int
          /\ sym.cost_basis \in Int /\ sym.realized_pnl \in Int
          BY <1>12, <2>8 DEF SymbolRisk, IInv, BookType
    <3>8. CASE Closes(r)
      <4>1. r.side = "Sell" /\ Trade(r) /\ sym.net_position - r.last_exec = 0 BY <3>8 DEF Closes, Trade
      <4>2. sym.net_position + Mult(r.side) * r.last_exec = 0
        <5>1. Mult(r.side) * r.last_exec = -r.last_exec BY <1>4, <4>1 DEF Mult
        <5> QED BY <1>4, <2>d, <4>1, <5>1
      <4>3. AfterFill(sym, r, m).cost_basis = 0 BY <2>d, <4>1, <4>2, AfterFillEffect
      <4>4. sym'.cost_basis = 0 BY <2>d, <2>e, <2>y, <2>8, <4>1, <4>3, SymbolEffect
      <4>5. PICK g \in Int : g = BookedValue("Buy")' - BookedValue("Sell")' BY <2>v, <2>w
      <4>6. flat'.value = g /\ flat'.realized = sym'.realized_pnl BY <2>1, <3>8, <4>5
      <4> QED BY <3>7, <4>4, <4>5, <4>6
    <3>9. CASE ~Closes(r)
      <4>1. ~(r.side = "Sell" /\ Trade(r) /\ sym.net_position - r.last_exec = 0) BY <3>9 DEF Closes, Trade
      <4>2. y.cost_basis - y.realized_pnl
               = (sym.cost_basis - sym.realized_pnl) + (IF r.side = "Buy" THEN d ELSE -d)
            BY <1>6, <2>d, <2>e, <2>y, <3>4, <4>1, AddedCost
      <4>3. flat' = flat BY <2>1, <3>9
      <4>4. PICK g \in Int : g = IF r.side = "Buy" THEN d ELSE -d OBVIOUS
      <4>5. sym'.cost_basis - sym'.realized_pnl = (sym.cost_basis - sym.realized_pnl) + g BY <2>8, <4>2, <4>4
      <4>6. BookedValue("Buy")' - BookedValue("Sell")' = (buys - sells) + g BY <3>6, <4>4
      <4> QED BY <3>2, <3>7, <4>3, <4>5, <4>6
    <3> QED BY <3>8, <3>9
  <2>15. drift = {} => r.remaining >= 0
    <3> SUFFICES ASSUME drift = {} PROVE r.remaining >= 0
        OBVIOUS
    <3>1. r.new BY <1>15
    <3>2. ex[o].phase \in Reached BY <1>3, <1>r, <3>1 DEF Lived
    <3>3. r.remaining = e.leaves BY <1>u, <1>r, <1>e, <3>2 DEF IInv, LifeInv, Life, Alive, Clean
    <3> QED BY <1>4, <3>3
  <2>16. Account = acc /\ Account' = AccountAfter(acc', r, m)
         BY <1>u, <1>6, <1>9, <1>r, <2>1 DEF Account
  <2>17. /\ Cardinality(Open) \in Nat /\ Cardinality(Open') \in Nat /\ Cardinality(Open') < CntMod
         /\ Cardinality(Open') = Cardinality(Open) - One(IsOpen(s)) + One(IsOpen(z))
         /\ Cardinality(Expiries) \in Nat /\ Cardinality(Expiries') \in Nat
         /\ Cardinality(Expiries') = Cardinality(Expiries) - One(s.expired) + One(z.expired)
         BY <1>s, <2>1, CountsChange DEF IInv
  <2>18. ASSUME Faithful PROVE /\ Due(s, r, e) \/ (Same(s, r, e) /\ r.status # "New" /\ Known(o, r.status))
                               /\ Orderly(r) /\ r.remaining >= 0
                               /\ acc.open_orders_count = Cardinality(Open)
                               /\ sym.open_orders_count = Cardinality(Open) + Cardinality(Expiries)
    <3>1. drift = {} /\ Orderly(r) /\ NotAgain("New") BY <1>r, <2>18, FaithfulIs
    <3>2. Known(o, r.status) => r.status # "New" BY <3>1 DEF Known, NotAgain
    <3> QED BY <1>u, <1>8, <2>15, <2>16, <2>18, <3>1, <3>2 DEF IInv, CountInv
  <2>19. Faithful' <=> Faithful BY <1>u DEF Faithful, NotAgain
  <2>20. ASSUME Faithful, Due(s, r, e)
         PROVE  /\ Account'.open_orders_count = Cardinality(Open')
                /\ e.even /\ r.price >= 0 => Account'.used_margin =
                      acc.used_margin - ValueOf(r.price, s) + ValueOf(r.price, z)
                /\ y.open_orders_count = Cardinality(Open') + Cardinality(Expiries')
    <3>1. Orderly(r) /\ r.remaining >= 0 BY <2>18, <2>20
    <3>2. Cardinality(Open') = acc'.open_orders_count - One(IsOpen(s)) + One(IsOpen(z))
          BY <2>9, <2>17, <2>18, <2>20
    <3>3. /\ Account'.open_orders_count = Cardinality(Open')
          /\ e.even /\ r.price >= 0 => Account'.used_margin =
                acc'.used_margin - ValueOf(r.price, s) + ValueOf(r.price, z)
          BY <1>m, <1>z, <2>9, <2>16, <2>17, <2>20, <3>1, <3>2, DueAccount
    <3>4. y.open_orders_count \in Int BY DEF SymInts
    <3>5. sym.open_orders_count = Cardinality(Open) + Cardinality(Expiries) BY <2>18, <2>20
    <3>6. y.open_orders_count = Cardinality(Open') + Cardinality(Expiries')
          BY <1>z, <2>d, <2>7, <2>17, <2>20, <3>1, <3>4, <3>5, DueSymbol
    <3> QED BY <2>9, <3>3, <3>6
  <2>21. ASSUME Faithful, Same(s, r, e), r.status # "New"
         PROVE  /\ Account'.open_orders_count = Cardinality(Open')
                /\ r.status = "CancelRequest" => Account'.used_margin = acc.used_margin
                /\ y.open_orders_count = Cardinality(Open') + Cardinality(Expiries')
    <3>1. /\ One(IsOpen(z)) = One(IsOpen(s)) /\ One(z.expired) = One(s.expired)
          /\ AccountAfter(acc', r, m).open_orders_count = acc'.open_orders_count
          /\ y.open_orders_count = sym.open_orders_count
          /\ r.status = "CancelRequest" => AccountAfter(acc', r, m).used_margin = acc'.used_margin
          BY <1>z, <2>d, <2>e, <2>y, <2>9, <2>21, SameCounts
    <3>2. One(IsOpen(s)) \in Int /\ One(s.expired) \in Int BY DEF One
    <3>3. Cardinality(Open') = Cardinality(Open) /\ Cardinality(Expiries') = Cardinality(Expiries)
          BY <2>17, <3>1, <3>2
    <3> QED BY <2>9, <2>16, <2>18, <2>21, <3>1, <3>3
  <2>22. CountInv'
    <3> SUFFICES ASSUME Faithful
                 PROVE  /\ Account'.open_orders_count = Cardinality(Open')
                        /\ sym'.open_orders_count = Cardinality(Open') + Cardinality(Expiries')
        BY <2>19 DEF CountInv
    <3>1. /\ Account'.open_orders_count = Cardinality(Open')
          /\ y.open_orders_count = Cardinality(Open') + Cardinality(Expiries')
          BY <2>18, <2>20, <2>21
    <3>2. y.open_orders_count >= 0 BY <2>17, <3>1
    <3> QED BY <2>8, <3>1, <3>2
  <2>23. MarginInv'
    <3> SUFFICES ASSUME Faithful, again = {}, AllEven PROVE Account'.used_margin = OpenValue'
        BY <1>u, <2>19 DEF MarginInv, AllEven
    <3>1. acc.used_margin = OpenValue BY <1>u, <2>16 DEF IInv, MarginInv
    <3>2. /\ OpenValue \in Nat /\ OpenValue' = OpenValue - ValueOf(e.price, s) + ValueOf(e.price, z)
          BY <1>u, <1>e, <1>s, <2>1, ValueChange DEF IInv
    <3>3. e.even /\ r.price = e.price BY <1>3, <1>r, <1>e DEF AllEven, Lived
    <3>4. CASE Due(s, r, e)
      <4>1. r.price >= 0 BY <1>4, <3>3
      <4> QED BY <2>20, <3>1, <3>2, <3>3, <3>4, <4>1
    <3>5. CASE Same(s, r, e) /\ r.status # "New" /\ Known(o, r.status)
      <4>1. r.status = "CancelRequest" BY <3>5 DEF Known
      <4>2. IsOpen(z) /\ IsOpen(s) /\ z.remaining = s.remaining BY <1>14, <3>5 DEF Same, IsOpen
      <4>3. ValueOf(e.price, z) = ValueOf(e.price, s) BY <4>2 DEF ValueOf
      <4>4. ValueOf(e.price, s) \in Int
        <5>1. s.remaining \in Int BY DEF SeenRecs
        <5>2. e.price * s.remaining \in Int BY <1>4, <5>1
        <5> QED BY <4>2, <5>2 DEF ValueOf
      <4>5. OpenValue' = OpenValue BY <3>2, <4>3, <4>4
      <4> QED BY <2>21, <3>1, <3>5, <4>1, <4>5
    <3> QED BY <2>18, <3>4, <3>5
  <2>k. s.new => Levels(s) \subseteq Levels(z) BY <1>14 DEF Levels
  <2>24. LevelInv'
    <3> SUFFICES ASSUME Clean', NoSecondCancel', NEW p \in Orders, seen'[p].new,
                        NEW l \in Levels(seen'[p]), Alone(p, l)'
                 PROVE  Guarded(p, l)'
        BY DEF LevelInv, Levels
    <3>1. r.new /\ (s.new => s.side = r.side /\ s.remaining > 0) BY <1>15, <2>c
    <3>2. NoSecondCancel /\ Clean BY <1>u, <2>c DEF NoSecondCancel
    <3>3. updating'.book = "account" /\ updating'.o = o BY <1>6, <2>1
    <3>a. \A q \in Orders : q # p /\ seen'[q].new /\ seen'[q].side = seen'[p].side => l \notin Levels(seen'[q])
          BY DEF Alone, Levels
    <3>4. CASE p = o
      <4>g. Guarded(o, l)' <=> (Level(l, r.side) \in DOMAIN orderrisks_ <=> l \in z.at)
            BY <1>u, <1>14, <2>4, <3>3 DEF Guarded, IsGuarded
      <4>1. \A q \in Orders : q # o /\ seen[q].new /\ seen[q].side = r.side => l \notin Levels(seen[q])
            BY <1>14, <2>4, <3>4, <3>a
      <4>2. CASE l \in z.at
        <5>1. s.new /\ l \in Levels(s) BY <1>14, <4>2 DEF Levels
        <5>2. Alone(o, l) BY <1>s, <3>1, <4>1, <5>1 DEF Alone
        <5>3. Guarded(o, l) BY <1>s, <3>2, <5>1, <5>2 DEF IInv, LevelInv
        <5>4. s.remaining # 0 BY <3>1, <5>1
        <5>5. Level(l, r.side) \in DOMAIN orderrisks_ BY <1>9, <1>s, <3>1, <5>1, <5>3, <5>4 DEF Guarded, IsGuarded
        <5> QED BY <3>4, <4>2, <4>g, <5>5
      <4>3. CASE l \notin z.at
        <5>1. ~(s.new /\ l \in Levels(s)) BY <1>14, <4>3 DEF Levels
        <5>2. Level(l, r.side) \notin DOMAIN orderrisks_
          <6> SUFFICES ASSUME Level(l, r.side) \in DOMAIN orderrisks_ PROVE FALSE
              OBVIOUS
          <6>1. PICK q \in Orders : seen[q].new /\ \E x \in Levels(seen[q]) : Level(l, r.side) = Level(x, seen[q].side)
                BY <3>2 DEF IInv, KeyInv
          <6>2. l \in Levels(seen[q]) /\ seen[q].side = r.side BY <6>1 DEF Level, Key
          <6>3. q # o BY <1>s, <5>1, <6>1, <6>2
          <6> QED BY <4>1, <6>1, <6>2, <6>3
        <5> QED BY <3>4, <4>3, <4>g, <5>2
      <4> QED BY <4>2, <4>3
    <3>5. CASE p # o
      <4>1. seen'[p] = seen[p] BY <2>4, <3>5
      <4>2. Alone(p, l)
        <5> SUFFICES ASSUME NEW q \in Orders \ {p}, seen[q].new, seen[q].side = seen[p].side, l \in Levels(seen[q])
                     PROVE  FALSE
            BY DEF Alone
        <5>2. CASE q = o
          <6>1. seen'[q].new /\ seen'[q].side = seen'[p].side BY <1>s, <1>14, <2>4, <3>1, <4>1, <5>2
          <6>2. l \in Levels(seen'[q]) BY <1>s, <2>4, <2>k, <5>2
          <6> QED BY <3>a, <6>1, <6>2
        <5>3. CASE q # o
          <6>1. seen'[q] = seen[q] BY <2>4, <5>3
          <6> QED BY <3>a, <4>1, <6>1
        <5> QED BY <5>2, <5>3
      <4>3. Guarded(p, l) BY <3>2, <4>1, <4>2 DEF IInv, LevelInv
      <4> QED BY <1>u, <1>9, <3>3, <3>5, <4>1, <4>3 DEF Guarded, IsGuarded
    <3> QED BY <3>4, <3>5
  <2>25. KeyInv'
    <3> SUFFICES ASSUME Clean'
                 PROVE  /\ \A k \in DOMAIN orderrisks_ : \E q \in Orders :
                              seen'[q].new /\ \E l \in Levels(seen'[q]) : k = Level(l, seen'[q].side)
                        /\ seen'[o].price = order[o].price
        BY <1>u, <1>6, <2>1 DEF KeyInv, Levels, Level, Key
    <3>1. r.new /\ (s.new => s.side = r.side) BY <1>15, <2>c
    <3>2. ASSUME NEW k \in DOMAIN orderrisks_
          PROVE  \E q \in Orders : seen'[q].new /\ \E l \in Levels(seen'[q]) : k = Level(l, seen'[q].side)
      <4>1. PICK q \in Orders : seen[q].new /\ \E l \in Levels(seen[q]) : k = Level(l, seen[q].side)
            BY <2>c DEF IInv, KeyInv
      <4>2. PICK l \in Levels(seen[q]) : k = Level(l, seen[q].side) BY <4>1
      <4>3. seen'[q].new /\ seen'[q].side = seen[q].side /\ l \in Levels(seen'[q])
        <5>1. CASE q = o BY <1>s, <1>14, <2>4, <2>k, <3>1, <4>1, <5>1
        <5>2. CASE q # o
          <6>1. seen'[q] = seen[q] BY <2>4, <5>2
          <6> QED BY <4>1, <6>1
        <5> QED BY <5>1, <5>2
      <4> QED BY <4>2, <4>3
    <3> QED BY <1>r, <1>14, <2>4, <3>2
  <2> QED BY <1>10, <1>11, <2>2, <2>3, <2>10, <2>11, <2>12, <2>13, <2>14, <2>t, <2>22, <2>23, <2>24, <2>25 DEF IInv
<1> QED BY <1>a, <1>b, <1>c

-----------------------------------------------------------------------------
(* Theorems *)

LEMMA StutterInv == ASSUME IInv, UNCHANGED vars PROVE IInv'
<1>u. UNCHANGED <<flow, order, ex, drift, again, store_to_risk_, market, strategy_to_risk_, updating,
                  acc, sym, orderrisks_, orderrisk_pool_, stopped, seen, flat>>
      BY DEF vars, store, feed, books, slips
<1>1. OrderType' /\ QueueType' /\ UpdateType' /\ BookType' /\ LevelType'
      BY <1>u DEF IInv, OrderType, QueueType, UpdateType, BookType, LevelType
<1>2. SlotInv' /\ LivedInv' BY <1>u DEF IInv, SlotInv, LivedInv, Lived
<1>3. OnceInv' /\ LifeInv' BY <1>u DEF IInv, OnceInv, LifeInv, Life, Alive, Waiting, Clean
<1>4. BookInv' BY <1>u DEF IInv, BookInv, Owed, Known, Waiting, Clean
<1>5. TradesAreAccounted' /\ PositionMatchesFills'
      BY <1>u DEF IInv, TradesAreAccounted, BookedValue, PositionMatchesFills, BookedFills, NotAgain
<1>6. Open' = Open /\ Account' = Account /\ (Faithful' <=> Faithful) /\ (AllEven' <=> AllEven)
      BY <1>u DEF Open, Account, Faithful, AllEven, NotAgain
<1>7. CountInv' BY <1>u, <1>6 DEF IInv, CountInv, Expiries
<1>8. MarginInv' BY <1>u, <1>6 DEF IInv, MarginInv, OpenValue
<1>9. LevelInv' BY <1>u DEF IInv, LevelInv, NoSecondCancel, Alone, Guarded, IsGuarded, Clean
<1>10. KeyInv' BY <1>u DEF IInv, KeyInv, Clean
<1> QED BY <1>1, <1>2, <1>3, <1>4, <1>5, <1>7, <1>8, <1>9, <1>10 DEF IInv

\* The inductive invariant holds however the update thread, the check thread,
\* the order store, the exchange and the strategy take turns, with replaces on
\* and off the book, at other prices, and flushes.
THEOREM InductiveInvariant == Spec => []IInv
<1>1. ASSUME IInv, [Next]_vars PROVE IInv'
  <2>1. CASE Next
        BY <1>1, <2>1, CheckRiskNext, UpdateSymbolNext, UpdateMarketNext, UpdateAccountNext, ClearStatusNext,
           EnterOrderNext, RequestCancelNext, AcceptedNext, ExpiredNext, ExecutedNext, CancelledNext,
           ReplacedNext, ModifiedNext, ReplacedOffBookNext, ReplacedFixNext, FlushNext, MarketMovesNext
           DEF Next
  <2>2. CASE UNCHANGED vars BY <1>1, <2>2, StutterInv
  <2> QED BY <1>1, <2>1, <2>2
<1> QED BY InitInv, <1>1, PTL DEF Spec

\* The books stay in their types: the count of the account in a uint32_t, the
\* counts and the pending notional of the symbol not negative, whatever is
\* overwritten in the queue or pushed again.
THEOREM TypeCorrect == Spec => []TypeOK
<1>1. IInv => TypeOK
  <2> SUFFICES ASSUME IInv PROVE TypeOK
      OBVIOUS
  <2>1. updating.o \in Orders \cup {nullptr} BY DEF IInv, UpdateType, Updates
  <2> QED BY <2>1 DEF IInv, OrderType, QueueType, BookType, LevelType, OrderRecs, Statuses, Told, TypeOK
<1> QED BY <1>1, InductiveInvariant, PTL

\* The position is the booked fills, buys less sells, while no update of the
\* order store was overwritten or lost before update_risk came to it and no
\* Partial was pushed again by a replace off the book.
THEOREM PositionMatches == Spec => []PositionMatchesFills
<1>1. IInv => PositionMatchesFills BY DEF IInv
<1> QED BY <1>1, InductiveInvariant, PTL

\* Both counts of open orders are those of the orders that are open, for any
\* number of orders that a uint32_t can count, unless a New is pushed again;
\* the margin in use is theirs at the limit prices while every order is even.
THEOREM OpenOrders == Spec => []OpenOrdersMatch
<1>1. IInv => OpenOrdersMatch
  <2> SUFFICES ASSUME IInv, Faithful, updating = NoUpdate, stopped = "no"
               PROVE  /\ acc.open_orders_count = Cardinality(Open)
                      /\ sym.open_orders_count = Cardinality(Open) + Cardinality(Expiries)
                      /\ again = {} /\ AllEven => acc.used_margin = OpenValue
      BY DEF OpenOrdersMatch, Expiries, AllEven, OpenValue
  <2>1. Account = acc BY DEF Account, NoUpdate
  <2> QED BY <2>1 DEF IInv, CountInv, MarginInv
<1> QED BY <1>1, InductiveInvariant, PTL

\* Cost basis less realized profit is what the booked trades paid less what
\* they brought since a sell last closed the position, long or short; and the
\* account has realized and has marked what its symbol has, after every step of
\* update_risk, also when updates were lost or booked twice.
THEOREM TradesAccounted == Spec => []TradesAreAccounted
<1>1. IInv => TradesAreAccounted BY DEF IInv
<1> QED BY <1>1, InductiveInvariant, PTL

\* Every entry for self trades has a slot of its own and no slot is lost; a
\* level that only one order was booked at is guarded until the order ends
\* there, and the level an order was repriced from stays guarded.
THEOREM LevelsGuarded == Spec => []LevelGuarded
<1>1. IInv => LevelGuarded
  <2> SUFFICES ASSUME IInv PROVE LevelGuarded
      OBVIOUS
  <2>1. IsInjective(orderrisks_) /\ {s \in Slots : orderrisk_pool_[s].active} = Range(orderrisks_)
        BY DEF IInv, SlotInv
  <2>2. ASSUME drift = {}, updating = NoUpdate, stopped = "no", NoSecondCancel,
               NEW o \in Orders, seen[o].new, NEW p \in Levels(seen[o]), Alone(o, p)
        PROVE  Key([price |-> p, side |-> seen[o].side]) \in DOMAIN orderrisks_
               <=> ~(seen[o].remaining = 0 /\ p = seen[o].price /\ p \in seen[o].at)
    <3>1. Guarded(o, p) BY <2>2 DEF IInv, LevelInv, Clean
    <3>2. updating.book # "account" BY <2>2 DEF NoUpdate
    <3> QED BY <3>1, <3>2 DEF Guarded, IsGuarded, Level
  <2> QED BY <2>1, <2>2 DEF LevelGuarded, NoSecondCancel
<1> QED BY <1>1, InductiveInvariant, PTL
=============================================================================
