----------------------------- MODULE RiskEngine -----------------------------
(***************************************************************************)
(* The risk engine: update_risk, which books what the order store says of  *)
(* our orders and of the market, and check_risk, which tests the orders of *)
(* the strategy against those books and the limits.  Each is a thread of   *)
(* its own; neither waits for the other.                                   *)
(*                                                                         *)
(* store_to_risk_ carries pointers.  The store goes on writing the order a *)
(* queued pointer leads to, and update_risk reads it again for each of its *)
(* books, so an update may be seen twice or never: drift is the history of *)
(* the orders that happened to.  And the store pushes an order that no     *)
(* update has changed, or reports a replace as another New: again is the   *)
(* history of the statuses risk was given a second time.                   *)
(*                                                                         *)
(* One venue, its account and one symbol.  The strategy, the exchange and  *)
(* the builder are external; the order store is as in OwnOrders, with the  *)
(* fields that risk reads.  A report of FIX that is not about a trade has  *)
(* no LastPx and no LastQty.  Orders have a limit price, which the key of  *)
(* orderrisks_ holds in full (the code keeps 32 bits of it).  The account  *)
(* stays Active, so check_acc_status always passes; current_leverage is    *)
(* written and never read.  Order rates are not limited: the call of       *)
(* check_order_rate_limit is commented out.                                *)
(***************************************************************************)
EXTENDS Integers, Sequences, FiniteSets, Functions, SequencesExt, Sums

CONSTANTS Flows,          \* the protocols to consider, one per behaviour
          Orders,         \* our Order objects
          nullptr,
          Entries,        \* side, price and quantity of the orders the strategy enters
          Prices,         \* prices of trades and of replaces
          Quotes,         \* pairs of best bid and best ask
          Lim,            \* SymbolLimit and AccountLimit of the venue, tick table and lot
          Balance,        \* initial balance
          Slots,          \* orderrisk_pool_
          QueueCap,       \* what store_to_risk_ holds
          CntMod,         \* 2^32: AccountRisk::open_orders_count is a uint32_t
          Bounds,         \* flow -> bound: pairs of the number of amendments (replaces,
                          \* modifications, requests to cancel) and of orders an update
                          \* of which is lost
          MaxQuotes       \* bound: changes of the market that risk hears of

ASSUME FlowAssumption == Flows \subseteq {"FIX", "BIST", "NASDAQ"}
ASSUME DataAssumption == /\ Prices \subseteq Nat \ {0}
                         /\ Entries \subseteq [side : {"Buy", "Sell"}, price : Nat \ {0}, quantity : Nat \ {0}]
                         /\ Quotes \subseteq Nat \X Nat /\ IsFiniteSet(Slots) /\ IsFiniteSet(Orders)
                         /\ nullptr \notin Orders \cup Slots /\ QueueCap \in Nat
                         /\ Balance \in Int /\ Lim.maker_fee_rate \in Int
\* The account can count our orders: there are far fewer than 2^32.
ASSUME CountAssumption == CntMod \in Nat /\ Cardinality(Orders) < CntMod

VARIABLES flow,
          order,          \* order -> Order
          ex,             \* order -> what the exchange has: phase, limit price, leaves, value
                          \* of its trades; and whether all prices the store was given are
                          \* one and no flush came after a replace
          amends,         \* bound: amendments so far
          strategy_to_risk_, store_to_risk_,
          market,         \* best prices of MarketBook
          quotes,         \* bound: changes of market so far
          updating,       \* update_risk: the order between its books, the book to write and the metrics
          acc, sym,       \* AccountRisk, SymbolRisk
          orderrisks_,    \* (price, side) -> slot
          orderrisk_pool_,\* slot -> active, remaining quantity
          stopped,        \* why the update thread has come to an end
          seen,           \* history: order -> what risk found when it last booked it
          flat,           \* history: value of trades and profit booked when a sell last
                          \* closed the position
          drift,          \* history: orders an update of which was overwritten or lost
          again           \* history: orders and the status that risk was given again

books == <<acc, sym, orderrisks_, orderrisk_pool_>>
slips == <<drift, again>>
store == <<order, ex, amends, store_to_risk_, slips>>
feed  == <<market, quotes>>
vars == <<flow, store, feed, strategy_to_risk_, updating, books, stopped, seen, flat>>

Sides == {"Buy", "Sell"}
NoOrder == [side |-> "Buy", price |-> 0, quantity |-> 0, filled |-> 0, remaining |-> 0, last_exec |-> 0,
            replaced |-> 0, status |-> "Unknown", cancelled_count |-> 0, new |-> FALSE]
AccountRisk == [current_exposure : Int, balance : Int, positional_exposure : Int, used_margin : Int,
                daily_realized_pnl : Int, total_unrealized_pnl : Int, open_orders_count : 0..CntMod - 1]
SymbolRisk == [pending_notional : Nat, open_orders_count : Nat, best_bid : Nat, best_ask : Nat, unrealized_pnl : Int,
               cost_basis : Int, realized_pnl : Int, net_position : Int, avg_entry_price : Int]
OrderRisk == [active : BOOLEAN, remaining : Int]

NoUpdate == [o |-> nullptr, book |-> "none", nominal |-> 0, notional |-> 0, replaced |-> 0]

Mult(side) == IF side = "Buy" THEN 1 ELSE -1
Abs(a) == IF a < 0 THEN -a ELSE a
\* Integer division of C++ rounds towards zero.
Quot(a, b) == IF (a < 0) = (b < 0) THEN Abs(a) \div Abs(b) ELSE -(Abs(a) \div Abs(b))

-----------------------------------------------------------------------------
(* Checks: each gives the reasons to refuse order o *)

check_price_tick_valid(p) ==
    LET applies == {t \in Lim.ticks : t.to = 0 \/ (p >= t.from /\ p <= t.to)}
    IN IF \E t \in applies : t.size <= 0 THEN {"RiskEngineInternalError"}
       ELSE IF \E t \in applies : p % t.size # 0 THEN {"PriceTickInvalid"} ELSE {}

check_max_order_notional_value(o) ==
    IF o.price * o.quantity > Lim.max_order_notional THEN {"MaxOrderNotionalLimitExceeded"} ELSE {}

check_max_symbol_exposure_value(o) ==
    IF sym.pending_notional + o.price * o.quantity * Mult(o.side) > Lim.max_exposure
    THEN {"MaxSymbolExposureLimitExceeded"} ELSE {}

check_market_data_and_deviation(o) ==
    LET mid == (sym.best_bid + sym.best_ask) \div 2
    IN IF sym.best_bid = 0 /\ sym.best_ask = 0 THEN {"MarketDataUnavailable"}
       ELSE IF Lim.max_price_deviation > 0 /\ Abs(o.price - mid) > Lim.max_price_deviation
       THEN {"InvalidPriceRange"} ELSE {}

check_fat_finger(o) ==
    LET mid == (sym.best_bid + sym.best_ask) \div 2
    IN IF mid > 0 /\ o.quantity >= Lim.fat_finger_qty /\ (o.price * 1000) \div mid > Lim.fat_finger_ratio
       THEN {"FatFingerCheckFailed"} ELSE {}

check_quantity_bounds(q) ==
    IF q < Lim.min_qty THEN {"MinOrderSizeExceeded"}
    ELSE IF q > Lim.max_qty THEN {"MaxOrderSizeExceeded"}
    ELSE IF q % Lim.lot # 0 THEN {"InvalidLotSize"} ELSE {}

check_max_open_orders_account ==
    IF acc.open_orders_count >= Lim.max_open_account THEN {"MaxOpenOrdersReachedAccount"} ELSE {}
check_max_open_orders_symbol ==
    IF sym.open_orders_count >= Lim.max_open_symbol THEN {"MaxOpenOrdersReachedSymbol"} ELSE {}

check_self_trade_order(o) ==
    IF \E key \in DOMAIN orderrisks_ : /\ key.price = o.price /\ key.side # o.side
                                       /\ orderrisk_pool_[orderrisks_[key]].active
    THEN {"SelfTradeDetected"} ELSE {}

check_max_position_limit(o) ==
    IF Abs(sym.net_position + Mult(o.side) * o.quantity) > Lim.max_position
    THEN {"MaxPositionLimitExceeded"} ELSE {}

check_max_leverage(notional) ==
    IF acc.balance <= 0 \/ Quot((acc.current_exposure + notional) * 10000, acc.balance) > Lim.max_leverage
    THEN {"MaxLeverageExceeded"} ELSE {}

check_max_drawdown(o) ==
    LET more == IF o.side = "Sell" THEN (o.price - sym.avg_entry_price) * o.quantity ELSE 0
    IN IF acc.daily_realized_pnl + more < -Lim.max_daily_loss THEN {"RealizedLossLimitExceeded"} ELSE {}

check_unrealized_loss(o) ==
    LET more == IF o.side = "Buy" THEN (sym.best_bid - o.price) * o.quantity
                ELSE -((sym.best_bid - sym.avg_entry_price) * o.quantity)
    IN IF acc.total_unrealized_pnl + more < -Lim.max_unrealized_loss THEN {"UnrealizedLossLimitExceeded"} ELSE {}

check_free_margin(notional) ==
    IF acc.balance + acc.total_unrealized_pnl - acc.used_margin < notional THEN {"FreeMarginInsufficient"} ELSE {}
check_balance(notional) == IF acc.balance < notional THEN {"AccountBalanceInsufficient"} ELSE {}
check_max_notional(notional) ==
    IF acc.current_exposure + notional > Lim.max_notional THEN {"MaxNotionalLimitExceeded"} ELSE {}

check_account_risk(o) ==
    LET notional == o.price * o.quantity
    IN check_max_leverage(notional) \cup check_max_drawdown(o) \cup check_unrealized_loss(o)
       \cup check_free_margin(notional) \cup check_balance(notional) \cup check_max_notional(notional)

LimitChecks(o) == check_price_tick_valid(o.price) \cup check_max_order_notional_value(o)
                  \cup check_max_symbol_exposure_value(o) \cup check_market_data_and_deviation(o)
                  \cup check_fat_finger(o)
MainChecks(o) == check_quantity_bounds(o.quantity) \cup check_max_open_orders_account
                 \cup check_max_open_orders_symbol \cup check_self_trade_order(o)
                 \cup check_max_position_limit(o) \cup check_account_risk(o)

-----------------------------------------------------------------------------
(* check_risk *)

\* risk_to_builder_.push: a new order is on its way to the exchange.  What
\* passed as a cancel is left to the exchange, which may cancel at any time.
Pass(o) == /\ ex' = [ex EXCEPT ![o].phase = IF @ = "asked" THEN "sent" ELSE @]
           /\ UNCHANGED <<order, amends, store_to_risk_, slips>>
\* risk_to_strategy_.push
Refuse(o) == /\ ex' = [ex EXCEPT ![o].phase = IF @ = "asked" THEN "refused" ELSE @]
             /\ UNCHANGED <<order, amends, store_to_risk_, slips>>

\* How many cancels the windows of the account and of the symbol hold is left
\* open.  A cancel passes when a limit is exceeded, and the strategy is told;
\* else it is dropped.
check_cancel_rate_limit(o) ==
    \E account \in 1..Lim.max_cancels_account + 1, symbol \in 1..Lim.max_cancels_symbol + 1 :
       IF account > Lim.max_cancels_account \/ symbol > Lim.max_cancels_symbol
       THEN Pass(o) ELSE UNCHANGED store

\* One order of the strategy.  The flags of the venue and of the symbol are
\* whatever the store thread has made them.
check_risk ==
    /\ strategy_to_risk_ # <<>>
    /\ strategy_to_risk_' = Tail(strategy_to_risk_)
    /\ LET o == Head(strategy_to_risk_)
       IN \/ /\ \E flag \in {"VenueTradingHalted", "CircuitBreakerTriggered", "SymbolTradingHalted"} : Refuse(o)
          \/ /\ order[o].status = "CancelRequest"
             /\ check_cancel_rate_limit(o)
          \/ /\ order[o].status # "CancelRequest"
             /\ IF LimitChecks(order[o]) = {} /\ MainChecks(order[o]) = {} THEN Pass(o) ELSE Refuse(o)
    /\ UNCHANGED <<flow, feed, updating, acc, sym, orderrisks_, orderrisk_pool_, stopped, seen, flat>>

-----------------------------------------------------------------------------
(* update_risk: symbol, then order and account *)

\* The position is worth what closing it now would bring.
update_unrealized_pnl(y) ==
    CASE y.net_position = 0 -> 0
      [] y.net_position > 0 -> (y.best_bid - y.avg_entry_price) * y.net_position
      [] y.net_position < 0 -> (y.avg_entry_price - y.best_ask) * Abs(y.net_position)

\* Nothing is marked without a market or without a cost basis.
Markable(y) == ~(y.best_bid <= 0 /\ y.best_ask <= 0) /\ y.cost_basis # 0
Marked(y) == IF Markable(y) THEN [y EXCEPT !.unrealized_pnl = update_unrealized_pnl(y)] ELSE y
\* The account's total: the old mark of the symbol off, the new one on.
MarkedAccount(a, y) ==
    IF Markable(y)
    THEN [a EXCEPT !.total_unrealized_pnl = (@ - y.unrealized_pnl) + update_unrealized_pnl(y)] ELSE a

Clamped_Not(y) == y
\* pending_notional and open_orders_count do not stay negative.
Clamped(y) == [y EXCEPT !.pending_notional = IF @ < 0 THEN 0 ELSE @,
                        !.open_orders_count = IF @ < 0 THEN 0 ELSE @]

AfterFill_CostAtPrice(y, o, m) ==
    [y EXCEPT !.net_position = @ + Mult(o.side) * o.last_exec, !.cost_basis = @ + m.nominal * Mult(o.side),
              !.realized_pnl = IF o.side = "Buy" THEN @ ELSE @ + (o.price - y.avg_entry_price) * o.last_exec,
              !.open_orders_count = IF o.status = "Filled" THEN @ - 1 ELSE @]
\* The average entry price follows buys; sells realize against it.
AfterFill(y, o, m) ==
    LET buy == o.side = "Buy"
        net == y.net_position + Mult(o.side) * o.last_exec
        cost == IF buy THEN y.cost_basis + m.nominal
                ELSE IF net = 0 THEN 0 ELSE y.cost_basis - y.avg_entry_price * o.last_exec
    IN [y EXCEPT !.net_position = net, !.cost_basis = cost,
                 !.pending_notional = @ - m.nominal * Mult(o.side),
                 !.avg_entry_price = IF buy THEN Quot(cost, net) ELSE IF net = 0 THEN 0 ELSE @,
                 !.realized_pnl = IF buy THEN @ ELSE @ + (o.price - y.avg_entry_price) * o.last_exec,
                 !.open_orders_count = IF o.status = "Filled" THEN @ - 1 ELSE @]

SymbolAfter_Cumulative(y, o, m) ==
    CASE o.status = "New" -> [y EXCEPT !.open_orders_count = @ + 1]
      [] o.status \in {"Partial", "Filled"} ->
            Marked([AfterFill(y, o, m) EXCEPT !.net_position = y.net_position + Mult(o.side) * o.filled])
      [] o.status \in {"Cancelled", "Deleted"} /\ o.remaining = 0 -> [y EXCEPT !.open_orders_count = @ - 1]
      [] OTHER -> y
SymbolAfter_CancelKeepsOpen(y, o, m) ==
    CASE o.status = "New" -> [y EXCEPT !.open_orders_count = @ + 1]
      [] o.status \in {"Partial", "Filled"} -> Marked(AfterFill(y, o, m))
      [] OTHER -> y
AfterNew(y, o, m) == [y EXCEPT !.open_orders_count = @ + 1,
                               !.pending_notional = IF o.price > 0 THEN @ + m.notional * Mult(o.side) ELSE @]
\* Taking off or replacing changes what is pending; the sign of the side is
\* left out.
AfterChange(y, o, m, gone) == [y EXCEPT !.open_orders_count = IF gone THEN @ - 1 ELSE @,
                                        !.pending_notional = IF o.price > 0 THEN @ + m.replaced ELSE @]
\* A second cancel is not booked.
SymbolAfter(y, o, m) ==
    CASE o.status = "New" -> AfterNew(y, o, m)
      [] o.status \in {"Partial", "Filled"} -> Marked(AfterFill(y, o, m))
      [] o.status \in {"Cancelled", "Deleted"} /\ o.cancelled_count <= 1 -> AfterChange(y, o, m, o.remaining = 0)
      [] o.status = "Replaced" -> AfterChange(y, o, m, FALSE)
      [] OTHER -> y

\* What a sell realizes goes to the day's total of the account as well.
RealizedAccount(a, y, o) ==
    IF o.side = "Sell" THEN [a EXCEPT !.daily_realized_pnl = @ + (o.price - y.avg_entry_price) * o.last_exec] ELSE a

\* update_symbol_risk on the account: y is the symbol before.
PnlAfter(a, y, o, m) ==
    IF o.status \in {"Partial", "Filled"}
    THEN MarkedAccount(RealizedAccount(a, y, o), AfterFill(y, o, m)) ELSE a

\* A buy that makes the position zero divides by it.
DividesByZero(o) == /\ o.side = "Buy" /\ o.status \in {"Partial", "Filled"}
                    /\ sym.net_position + o.last_exec = 0

\* The values of an order, computed once for all books.
OrderMetrics(o, r) == [o |-> o, book |-> "account", nominal |-> r.price * r.last_exec,
                       notional |-> r.price * r.quantity, replaced |-> r.price * r.replaced]

\* What the history keeps of an order r risk has booked over s: at holds the
\* prices risk booked it at before.
Booked(s, r, value) ==
    [side |-> r.side, price |-> r.price, filled |-> r.filled, remaining |-> r.remaining,
     expired |-> r.status = "Expired", new |-> r.new, value |-> value,
     at |-> IF s.new THEN s.at \cup {s.price} ELSE {}]
NeverSeen == [side |-> "Buy", price |-> 0, filled |-> 0, remaining |-> 0, expired |-> FALSE, new |-> FALSE,
              value |-> 0, at |-> {}]

\* The value of the booked trades of one side.
BookedValue(side) == Total([o \in {p \in Orders : seen[p].side = side} |-> seen[o].value])

\* A sell that leaves no position.
Closes(o) == /\ o.side = "Sell" /\ o.status \in {"Partial", "Filled"}
             /\ sym.net_position - o.last_exec = 0

\* The thread takes the next order and books the symbol.  A FIX order that has
\* not seen its New is passed over.
update_symbol_risk ==
    /\ stopped = "no" /\ updating = NoUpdate
    /\ store_to_risk_ # <<>> /\ Head(store_to_risk_) # nullptr
    /\ store_to_risk_' = Tail(store_to_risk_)
    /\ LET o == Head(store_to_risk_)
           r == order[o]
           m == OrderMetrics(o, r)
           s == Booked(seen[o], r, ex[o].value)
       IN IF (flow = "FIX" /\ (~r.new \/ r.status = "Unknown"))
          THEN /\ seen' = IF r.new THEN [seen EXCEPT ![o] = s] ELSE seen
               /\ UNCHANGED <<updating, acc, sym, stopped, flat>>
          ELSE IF DividesByZero(r)
          THEN stopped' = "divided by zero" /\ UNCHANGED <<updating, acc, sym, seen, flat>>
          ELSE /\ sym' = Clamped(SymbolAfter(sym, r, m))
               /\ acc' = PnlAfter(acc, sym, r, m)
               /\ updating' = m
               /\ seen' = [seen EXCEPT ![o] = s]
               /\ flat' = IF Closes(r) THEN [value |-> BookedValue("Buy")' - BookedValue("Sell")',
                                             realized |-> sym'.realized_pnl] ELSE flat
               /\ UNCHANGED stopped
    /\ UNCHANGED <<flow, order, ex, amends, slips, feed, strategy_to_risk_, orderrisks_, orderrisk_pool_>>

\* An order of the market: the best prices of the book as it is now.
update_market ==
    /\ stopped = "no" /\ updating = NoUpdate
    /\ store_to_risk_ # <<>> /\ Head(store_to_risk_) = nullptr
    /\ store_to_risk_' = Tail(store_to_risk_)
    /\ LET y == [sym EXCEPT !.best_bid = market[1], !.best_ask = market[2]]
       IN sym' = Clamped(Marked(y)) /\ acc' = MarkedAccount(acc, y)
    /\ UNCHANGED <<flow, order, ex, amends, slips, feed, strategy_to_risk_, updating,
                   orderrisks_, orderrisk_pool_, stopped, seen, flat>>

Key(o) == [price |-> o.price, side |-> o.side]

\* The entry goes, its slot may be used again.
LevelDone(key, slot) ==
    /\ orderrisks_' = Restrict(orderrisks_, DOMAIN orderrisks_ \ {key})
    /\ orderrisk_pool_' = [orderrisk_pool_ EXCEPT ![slot] = [active |-> FALSE, remaining |-> 0]]

LevelStays_Moved(slot, remaining) ==
    /\ orderrisk_pool_' = [orderrisk_pool_ EXCEPT ![slot] = [active |-> FALSE, remaining |-> remaining]]
    /\ orderrisks_' = Restrict(orderrisks_, {k \in DOMAIN orderrisks_ : orderrisks_[k] # slot})
\* The entry stays, with what is left of the order.
LevelStays(slot, remaining) ==
    /\ orderrisk_pool_' = [orderrisk_pool_ EXCEPT ![slot].remaining = remaining]
    /\ UNCHANGED orderrisks_

\* One entry for each price and side we have an order at.  A new entry takes a
\* slot that is not active; without one the search does not end.
update_order_risk(o) ==
    LET key == Key(o)
        found == key \in DOMAIN orderrisks_
        idle == {s \in Slots : ~orderrisk_pool_[s].active}
    IN \/ /\ o.cancelled_count > 1
          /\ UNCHANGED <<orderrisks_, orderrisk_pool_, stopped>>
       \/ /\ o.cancelled_count <= 1 /\ found /\ o.remaining = 0
          /\ LevelDone(key, orderrisks_[key]) /\ UNCHANGED stopped
       \/ /\ o.cancelled_count <= 1 /\ found /\ o.remaining # 0
          /\ LevelStays(orderrisks_[key], o.remaining) /\ UNCHANGED stopped
       \/ /\ o.cancelled_count <= 1 /\ ~found /\ idle # {}
          /\ \E s \in idle :
                /\ orderrisk_pool_' = [orderrisk_pool_ EXCEPT ![s] = [active |-> TRUE, remaining |-> o.remaining]]
                /\ orderrisks_' = [k \in DOMAIN orderrisks_ \cup {key} |-> IF k = key THEN s ELSE orderrisks_[k]]
          /\ UNCHANGED stopped
       \/ /\ o.cancelled_count <= 1 /\ ~found /\ idle = {}
          /\ stopped' = "no free slot" /\ UNCHANGED <<orderrisks_, orderrisk_pool_>>

\* The account, when something is ordered (or taken off) ...
Ordered(a, o, value, count) ==
    [a EXCEPT !.current_exposure = IF o.price > 0 THEN @ + value * Mult(o.side) ELSE @,
              !.used_margin = IF o.price > 0 THEN @ + value ELSE @,
              !.open_orders_count = count % CntMod]
\* ... and traded.
Traded(a, o, nominal, count) ==
    [a EXCEPT !.balance = @ - (nominal + Quot(Lim.maker_fee_rate * nominal, 1000000)),
              !.positional_exposure = @ + nominal,
              !.used_margin = @ - nominal,
              !.open_orders_count = count % CntMod]

\* What is ordered uses margin until it is filled or taken off.
AccountAfter(a, o, m) ==
    LET count == a.open_orders_count
    IN CASE o.status = "New" -> Ordered(a, o, m.notional, count + 1)
         [] o.status \in {"Partial", "Filled"} ->
               Traded(a, o, m.nominal, IF o.status = "Filled" THEN count - 1 ELSE count)
         [] o.status \in {"Cancelled", "Deleted", "Expired"} /\ o.cancelled_count <= 1 ->
               Ordered(a, o, m.replaced, IF o.remaining = 0 THEN count - 1 ELSE count)
         [] o.status = "Replaced" -> Ordered(a, o, m.replaced, count)
         [] OTHER -> a

\* The second half of update_risk, with the metrics of the first and the order
\* as it is now.  Without a slot the thread does not come to the account.
update_account_risk ==
    /\ stopped = "no" /\ updating.book = "account"
    /\ update_order_risk(order[updating.o])
    /\ acc' = IF stopped' = "no" THEN AccountAfter(acc, order[updating.o], updating) ELSE acc
    /\ updating' = IF flow = "FIX" /\ stopped' = "no" THEN [updating EXCEPT !.book = "status"] ELSE NoUpdate
    /\ UNCHANGED <<flow, store, feed, strategy_to_risk_, sym, seen, flat>>

\* The loop of FIX goes on with StatusesPreNew, which the New has cleared:
\* what is left in the order is Unknown.
clear_status ==
    /\ updating.book = "status"
    /\ order' = [order EXCEPT ![updating.o].status = "Unknown"]
    /\ updating' = NoUpdate
    /\ UNCHANGED <<flow, ex, amends, slips, store_to_risk_, feed, strategy_to_risk_, books, stopped, seen, flat>>

-----------------------------------------------------------------------------
(* The order store and the exchange (external): what is said of an order is *)
(* filled in and the pointer pushed.                                        *)

OutsideVars == <<flow, feed, strategy_to_risk_, updating, books, stopped, seen, flat>>

Amend == amends' = amends + 1 /\ <<amends', Cardinality(drift)>> \in Bounds[flow]

\* Risk has not finished with an earlier update of order o.
Unbooked(o) == o \in Range(store_to_risk_) \/ updating.o = o

\* What is written to o now is lost to risk, or overwrites what is not booked.
Overruns(o) == Unbooked(o) \/ Len(store_to_risk_) = QueueCap

\* store_to_risk_.push: nobody looks whether the queue was full.
Push(q, o) == IF Len(q) < QueueCap THEN Append(q, o) ELSE q
\* One after the other: as many as there is room for.
PushAll(q, s) == LET room == QueueCap - Len(q)
                 IN q \o (IF Len(s) <= room THEN s ELSE SubSeq(s, 1, room))

\* The orders of s find their update overwritten or lost.
Slip(s) == /\ drift' = drift \cup s
           /\ s \subseteq drift \/ <<amends', Cardinality(drift')>> \in Bounds[flow]

\* The filler's result; what risk had not booked is overwritten.
Fill(o, r) == /\ order' = [order EXCEPT ![o] = r]
              /\ store_to_risk_' = Push(store_to_risk_, o)
              /\ Slip(IF Overruns(o) THEN {o} ELSE {})

\* The status of o is pushed although it says nothing new.
PushedAgain(o, status) ==
    again' = IF status \in {"New", "Partial", "Replaced"} /\ Len(store_to_risk_) < QueueCap
             THEN again \cup {<<o, status>>} ELSE again

Accepted(o) ==
    /\ ex[o].phase = "sent"
    /\ UNCHANGED <<amends, again>>
    /\ ex' = [ex EXCEPT ![o].phase = "live"]
    /\ Fill(o, [order[o] EXCEPT !.remaining = order[o].quantity, !.status = "New", !.new = TRUE])
    /\ UNCHANGED OutsideVars

\* A trade of q at a price no worse than the limit.  FIX reports the status
\* the exchange has.
Executed(o, q, p) ==
    /\ ex[o].phase = "live" /\ q <= ex[o].leaves
    /\ IF order[o].side = "Buy" THEN p <= ex[o].price ELSE p >= ex[o].price
    /\ UNCHANGED <<amends, again>>
    /\ ex' = [ex EXCEPT ![o].leaves = @ - q, ![o].value = @ + p * q,
                        ![o].phase = IF ex[o].leaves = q THEN "done" ELSE @,
                        ![o].even = @ /\ p = ex[o].price]
    /\ LET partly == IF flow = "FIX" THEN q < ex[o].leaves ELSE order[o].filled + q < order[o].quantity
       IN Fill(o, [order[o] EXCEPT !.price = p, !.filled = @ + q, !.last_exec = q, !.remaining = @ - q,
                                   !.status = IF partly THEN "Partial" ELSE "Filled"])
    /\ UNCHANGED OutsideVars

\* NASDAQ may take back a part.
Cancelled(o, q) ==
    /\ ex[o].phase = "live" /\ q <= ex[o].leaves
    /\ flow # "NASDAQ" => q = ex[o].leaves
    /\ UNCHANGED <<amends, again>>
    /\ ex' = [ex EXCEPT ![o].leaves = @ - q,
                        ![o].phase = IF ex[o].leaves = q THEN "done" ELSE @]
    /\ Fill(o, [order[o] EXCEPT !.remaining = IF flow = "NASDAQ" THEN @ - q ELSE 0,
                                !.replaced = IF flow = "NASDAQ" THEN -q ELSE -order[o].remaining,
                                !.status = IF flow = "NASDAQ" THEN "Cancelled" ELSE "Deleted",
                                !.cancelled_count = @ + 1])
    /\ UNCHANGED OutsideVars

\* A new quantity and limit price, over OUCH or as a FIX report with the status
\* Replaced.
Replaced(o, q, p) ==
    /\ ex[o].phase = "live" /\ <<q, p>> # <<ex[o].leaves, ex[o].price>> /\ Amend
    /\ ex' = [ex EXCEPT ![o].leaves = q, ![o].price = p, ![o].even = @ /\ p = ex[o].price]
    /\ LET by == q - order[o].remaining
       IN Fill(o, [order[o] EXCEPT !.price = p, !.replaced = by, !.remaining = q,
                                   !.quantity = IF flow = "FIX" THEN order[o].filled + q ELSE @ + by,
                                   !.status = "Replaced"])
    /\ UNCHANGED again /\ UNCHANGED OutsideVars

\* NASDAQ may also report a new quantity alone: the price in the store, of the
\* last trade if there was one, stays.
Modified(o, q) ==
    /\ flow = "NASDAQ" /\ ex[o].phase = "live" /\ q # ex[o].leaves /\ Amend
    /\ ex' = [ex EXCEPT ![o].leaves = q]
    /\ LET by == q - order[o].remaining
       IN Fill(o, [order[o] EXCEPT !.replaced = by, !.remaining = q, !.quantity = @ + by, !.status = "Replaced"])
    /\ UNCHANGED again /\ UNCHANGED OutsideVars

\* BIST with order_state 2: the replaced order is not on the book, or trades at
\* once.  The filler leaves the order as it is, and it is pushed nevertheless.
ReplacedOffBook(o) ==
    /\ flow = "BIST" /\ ex[o].phase = "live" /\ Amend
    /\ \E phase \in {"live", "gone"} : ex' = [ex EXCEPT ![o].phase = phase]
    /\ UNCHANGED order
    /\ store_to_risk_' = Push(store_to_risk_, o)
    /\ Slip(IF Unbooked(o) THEN {o} ELSE {}) /\ PushedAgain(o, order[o].status)
    /\ UNCHANGED OutsideVars

\* Or FIX reports a replace with the status the order has.  New, while nothing is
\* filled, is booked as another order; later the price is that of no trade.
\* The quantity may be replaced by what is filled already.
ReplacedFix(o, q, p) ==
    /\ flow = "FIX" /\ ex[o].phase = "live" /\ <<q, p>> # <<ex[o].leaves, ex[o].price>> /\ Amend
    /\ q = 0 => order[o].filled > 0
    /\ ex' = [ex EXCEPT ![o].leaves = q, ![o].price = p, ![o].phase = IF q = 0 THEN "done" ELSE @,
                        ![o].even = @ /\ p = ex[o].price /\ order[o].filled = 0]
    /\ IF order[o].filled = 0
       THEN /\ Fill(o, [order[o] EXCEPT !.price = p, !.quantity = q, !.remaining = q, !.status = "New"])
            /\ PushedAgain(o, "New")
       ELSE /\ Fill(o, [order[o] EXCEPT !.price = 0, !.last_exec = 0, !.remaining = q,
                                        !.status = IF q = 0 THEN "Filled" ELSE "Partial"])
            /\ UNCHANGED again
    /\ UNCHANGED OutsideVars

\* FIX only.
Expired(o) ==
    /\ flow = "FIX" /\ ex[o].phase = "live"
    /\ UNCHANGED <<amends, again>>
    /\ ex' = [ex EXCEPT ![o].leaves = 0, ![o].phase = "done"]
    /\ Fill(o, [order[o] EXCEPT !.replaced = -order[o].remaining, !.remaining = 0, !.status = "Expired"])
    /\ UNCHANGED OutsideVars

\* handle_flush_status: the exchange has emptied the book of the symbol.  What
\* is left of an order stays in remaining, so risk keeps it open; what an
\* earlier replace left in replaced_quantity is booked once more.
handle_flush_status ==
    LET flushed == {o \in Orders : order[o].status \in {"New", "Partial"}}
        room == QueueCap - Len(store_to_risk_)
    IN /\ flow # "NASDAQ" /\ flushed # {} /\ UNCHANGED <<amends, again>>
       /\ order' = [o \in Orders |->
                       IF o \in flushed
                       THEN [order[o] EXCEPT !.status = "Cancelled", !.cancelled_count = @ + 1,
                                             !.remaining = order[o].quantity - (IF order[o].status = "New" THEN 0
                                                                                 ELSE order[o].filled)]
                       ELSE order[o]]
       /\ ex' = [o \in Orders |-> IF o \in flushed
                                  THEN [ex[o] EXCEPT !.phase = "gone", !.even = @ /\ order[o].replaced = 0]
                                  ELSE ex[o]]
       /\ \E s \in SetToSeqs(flushed) :
             /\ store_to_risk_' = PushAll(store_to_risk_, s)
             /\ Slip({o \in flushed : Unbooked(o)} \cup {s[i] : i \in {j \in 1..Len(s) : j > room}})
       /\ UNCHANGED OutsideVars

\* An order of somebody else: the book has new best prices.
MarketMoves(q) ==
    /\ quotes < MaxQuotes /\ quotes' = quotes + 1
    /\ market' = q
    /\ store_to_risk_' = Push(store_to_risk_, nullptr)
    /\ UNCHANGED <<flow, order, ex, amends, slips, strategy_to_risk_, updating, books, stopped, seen, flat>>

-----------------------------------------------------------------------------
(* The strategy (external) *)

EnterOrder(o, e) ==
    /\ ex[o].phase = "idle"
    /\ order' = [order EXCEPT ![o].side = e.side, ![o].price = e.price, ![o].quantity = e.quantity]
    /\ ex' = [ex EXCEPT ![o].phase = "asked", ![o].price = e.price, ![o].leaves = e.quantity]
    /\ strategy_to_risk_' = Append(strategy_to_risk_, o)
    /\ UNCHANGED <<flow, amends, store_to_risk_, slips, feed, updating, books, stopped, seen, flat>>

\* The request is written into the order itself.
RequestCancel(o) ==
    /\ ex[o].phase = "live" /\ Amend
    /\ order[o].status \in {"New", "Partial", "Replaced"}
    /\ order' = [order EXCEPT ![o].status = "CancelRequest"]
    /\ UNCHANGED ex
    /\ Slip(IF Unbooked(o) THEN {o} ELSE {})
    /\ strategy_to_risk_' = Append(strategy_to_risk_, o)
    /\ UNCHANGED <<flow, store_to_risk_, again, feed, updating, books, stopped, seen, flat>>

-----------------------------------------------------------------------------
Init ==
    /\ flow \in Flows
    /\ order = [o \in Orders |-> NoOrder]
    /\ ex = [o \in Orders |-> [phase |-> "idle", price |-> 0, leaves |-> 0, value |-> 0, even |-> TRUE]]
    /\ amends = 0 /\ strategy_to_risk_ = <<>> /\ store_to_risk_ = <<>>
    /\ market = <<0, 0>> /\ quotes = 0
    /\ updating = NoUpdate
    /\ acc = [current_exposure |-> 0, balance |-> Balance, positional_exposure |-> 0, used_margin |-> 0,
              daily_realized_pnl |-> 0, total_unrealized_pnl |-> 0, open_orders_count |-> 0]
    /\ sym = [pending_notional |-> 0, open_orders_count |-> 0, best_bid |-> 0, best_ask |-> 0,
              unrealized_pnl |-> 0, cost_basis |-> 0, realized_pnl |-> 0, net_position |-> 0,
              avg_entry_price |-> 0]
    /\ orderrisks_ = <<>>
    /\ orderrisk_pool_ = [s \in Slots |-> [active |-> FALSE, remaining |-> 0]]
    /\ stopped = "no"
    /\ seen = [o \in Orders |-> NeverSeen] /\ flat = [value |-> 0, realized |-> 0]
    /\ drift = {} /\ again = {}

Next == \/ check_risk
        \/ update_symbol_risk \/ update_market \/ update_account_risk \/ clear_status
        \/ \E o \in Orders :
              \/ \E e \in Entries : EnterOrder(o, e)
              \/ RequestCancel(o) \/ Accepted(o) \/ Expired(o) \/ ReplacedOffBook(o)
              \/ \E q \in 1..ex[o].leaves, p \in Prices : Executed(o, q, p)
              \/ \E q \in 1..ex[o].leaves : Cancelled(o, q)
              \/ \E q \in 1..ex[o].leaves + 1, p \in Prices : Replaced(o, q, p)
              \/ \E q \in 1..ex[o].leaves + 1 : Modified(o, q)
              \/ \E q \in 0..ex[o].leaves + 1, p \in Prices : ReplacedFix(o, q, p)
        \/ handle_flush_status
        \/ \E q \in Quotes : MarketMoves(q)

Spec == Init /\ [][Next]_vars

-----------------------------------------------------------------------------
(* Properties *)

\* The types of the orders, the queues and the books of risk; the counts are
\* not negative (uint32_t, and the test at the end of update_symbol_risk).
TypeOK ==
    /\ flow \in Flows
    /\ order \in [Orders -> [side : Sides, price : Int, quantity : Int, filled : Nat, remaining : Int,
                             last_exec : Nat, replaced : Int, cancelled_count : Nat, new : BOOLEAN,
                             status : {"Unknown", "New", "Partial", "Filled", "Cancelled", "Deleted", "Replaced",
                                       "Expired", "CancelRequest"}]]
    /\ strategy_to_risk_ \in Seq(Orders) /\ store_to_risk_ \in Seq(Orders \cup {nullptr})
    /\ updating.o \in Orders \cup {nullptr}
    /\ acc \in AccountRisk /\ sym \in SymbolRisk
    /\ Range(orderrisks_) \subseteq Slots
    /\ orderrisk_pool_ \in [Slots -> OrderRisk]
    /\ drift \subseteq Orders /\ again \subseteq Orders \X {"New", "Partial", "Replaced"}

\* Orders that risk knows as open: the store leaves them a remaining quantity.
\* An order that was flushed, or replaced off the book, stays among them.
Open == {o \in Orders : seen[o].new /\ seen[o].remaining > 0}
\* Risk was not given this status of an order a second time.
NotAgain(status) == \A o \in Orders : <<o, status>> \notin again
\* No update was overwritten or lost, no New was given again, and no order was
\* cancelled a second time or traded or replaced after a part of it was taken
\* back: risk does not book the one, and the other is never Filled.
Faithful == /\ drift = {} /\ NotAgain("New")
            /\ \A o \in Orders :
                  /\ order[o].cancelled_count <= 1
                  /\ order[o].cancelled_count = 1 => order[o].status \in {"Cancelled", "Deleted", "Unknown"}

\* The fills of the orders of one side, as risk has booked them.
BookedFills(side) == Total([o \in {p \in Orders : seen[p].side = side} |-> seen[o].filled])

\* The position of the symbol is what the booked fills of our orders amount
\* to, buys less sells, none missing and none twice, over replaces, flushes and
\* cancels of every flow.  Excepted: behaviours in which an update was
\* overwritten before update_risk came to it or lost in a full queue (drift),
\* or in which BIST replaced a partly filled order off the book
\* (order_state 2), which gives risk the last Partial a second time (again).
PositionMatchesFills ==
    drift = {} /\ NotAgain("Partial") => sym.net_position = BookedFills("Buy") - BookedFills("Sell")

\* Between two updates both counts of open orders are the number of orders
\* that are open, apart from expired orders, which the symbol keeps counting.
\* Excepted: an overwritten or lost update, a New given again (BIST replaces a
\* new order off the book, FIX replaces an order without fills), a second
\* cancel, and what follows a partial cancel (Faithful).
\* The margin in use is the value of what is open at the limit prices, if
\* besides no status was given again and every order is even: no trade and no
\* replace was at another price than it was entered at, and no flush met an
\* order that had been replaced.
OpenOrdersMatch ==
    Faithful /\ updating = NoUpdate /\ stopped = "no" =>
        /\ acc.open_orders_count = Cardinality(Open)
        /\ sym.open_orders_count = Cardinality(Open) + Cardinality({o \in Orders : seen[o].expired})
        /\ again = {} /\ (\A o \in Orders : ex[o].even) => acc.used_margin =
               Total([o \in Open |-> ex[o].price * seen[o].remaining])

\* Since a sell last closed the position (which drops what the rounded average
\* price has left in the cost basis), cost basis less realized profit is what
\* the booked trades of the exchange paid for buys less what they brought for
\* sells: each trade is booked once, at its own price, long or short.  Excepted
\* as for the position: overwritten or lost updates and a Partial given again.
\* And the account has realized and has marked what its symbol has, at every
\* moment, although update_symbol_risk writes the two by statements of its own
\* at three places.
TradesAreAccounted ==
    /\ drift = {} /\ NotAgain("Partial") =>
          sym.cost_basis - (sym.realized_pnl - flat.realized) =
              (BookedValue("Buy") - BookedValue("Sell")) - flat.value
    /\ acc.total_unrealized_pnl = sym.unrealized_pnl
    /\ acc.daily_realized_pnl = sym.realized_pnl

\* The prices risk has booked an order at.
Levels(s) == s.at \cup {s.price}
\* Only order o was ever booked at price p of its side.
Alone(o, p) == \A other \in Orders \ {o} :
                  ~(seen[other].new /\ seen[other].side = seen[o].side /\ p \in Levels(seen[other]))

\* An entry for self trades leads to an active slot of its own, and a slot
\* that no entry leads to can be used again.
\* A level that only one order was ever booked at is guarded against self
\* trades from then on, until the order ends there, at a level it was booked at
\* before.  So all levels of an open order are guarded, the one it was repriced
\* from too; and the levels an order does not end at, or first comes to when it
\* ends (a trade better than the limit), stay guarded with nothing open.
\* Excepted: overwritten or lost updates and second cancels.
LevelGuarded ==
    /\ IsInjective(orderrisks_)
    /\ {s \in Slots : orderrisk_pool_[s].active} = Range(orderrisks_)
    /\ /\ drift = {} /\ updating = NoUpdate /\ stopped = "no"
       /\ \A o \in Orders : order[o].cancelled_count <= 1
       => \A o \in Orders : seen[o].new => \A p \in Levels(seen[o]) : Alone(o, p) =>
             (Key([price |-> p, side |-> seen[o].side]) \in DOMAIN orderrisks_
              <=> ~(seen[o].remaining = 0 /\ p = seen[o].price /\ p \in seen[o].at))
=============================================================================
