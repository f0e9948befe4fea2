----------------------------- MODULE MarketData -----------------------------
(***************************************************************************)
(* The market-data path of the store thread for one instrument:            *)
(* OrderManager::update_order for the ITCH messages of a venue, the        *)
(* fillers, the market half of order_pool_ with its maps, and MarketBook.  *)
(*                                                                         *)
(* The exchange is external: live holds its displayed orders, and it sends *)
(* only messages about them.  The feed is handled in order by one thread,  *)
(* so a message and its handling are one step.  The instrument is known    *)
(* and none of the orders is ours.  Trade messages are about orders that   *)
(* were never displayed: no map has them, and they change nothing here.    *)
(***************************************************************************)
EXTENDS Integers, FiniteSets, Functions, FiniteSetsExt, Sums

CONSTANTS Venues,       \* the venues to consider, one per behaviour
          Kinds,        \* the messages the exchange uses besides Add
          Ids,          \* order ids, positive
          Prices,       \* positive
          MaxOrders,    \* bound: orders the exchange ever displays
          MaxQty,       \* bound: quantity of an order
          QtyMod,       \* 2^32: quantities are uint32_t
          MARKETORDER_LAST_INDEX

Side == {"Buy", "Sell"}

\* The ITCH messages of a venue that change the book.
VenueKinds == [BIST |-> {"Exec", "ExecWithPrice", "Delete", "Flush"},
               NASDAQ |-> {"Exec", "ExecWithPrice", "Cancel", "Delete", "Replace"}]

ASSUME VenueAssumption == /\ Venues \subseteq {"BIST", "NASDAQ"}
                          /\ Kinds \subseteq VenueKinds.BIST \cup VenueKinds.NASDAQ
ASSUME DataAssumption == /\ Ids \subseteq Nat \ {0} /\ Prices \subseteq Nat \ {0}
                         /\ MaxOrders \in Nat /\ MaxQty \in Nat /\ QtyMod \in Nat /\ MaxQty < QtyMod
                         /\ MARKETORDER_LAST_INDEX \in Nat \ {0}
\* What is displayed at a price fits the uint32_t of a level.
ASSUME LevelAssumption == MaxOrders * MaxQty < QtyMod

VARIABLES venue,                   \* the venue of this behaviour
          exact,                   \* history: no Replace and no execution with a price yet
          live,                    \* exchange: <<id, side>> -> displayed order
          used,                    \* exchange: the <<id, side>> given out
          order_pool_, market_next_slot, market_map_full,
          market_orders_,          \* OrderKey -> slot
          nq_itch_refnum_ordkey_,  \* NASDAQ: id -> OrderKey
          bid_ask_trees_,          \* side -> price -> quantity
          best                     \* best_bid, best_ask with their quantities

store == <<order_pool_, market_next_slot, market_map_full, market_orders_, nq_itch_refnum_ordkey_>>
book == <<bid_ask_trees_, best>>
vars == <<venue, exact, live, used, store, book>>

-----------------------------------------------------------------------------
Slots == 0..MARKETORDER_LAST_INDEX - 1
Without(f, x) == Restrict(f, DOMAIN f \ {x})
With(f, x, v) == [y \in DOMAIN f \cup {x} |-> IF y = x THEN v ELSE f[y]]
Sub(a, b) == (a - b) % QtyMod

\* Whatever the venue, update_order builds the key of an order with Venue::BIST.
OrderKey(id, side) == <<id, side, "BIST">>
SlotKey(o) == <<o.order_id, o.side, o.venue>>

NoOrder == [order_id |-> 0, side |-> "Unknown", venue |-> "BIST", price |-> 0,
            remaining_quantity |-> 0, filled_quantity |-> 0]
NoBest == [price |-> 0, qty |-> 0]

Init == /\ venue \in Venues /\ exact = TRUE
        /\ live = <<>> /\ used = {}
        /\ order_pool_ = [s \in Slots |-> NoOrder]
        /\ market_next_slot = 0 /\ market_map_full = FALSE
        /\ market_orders_ = <<>> /\ nq_itch_refnum_ordkey_ = <<>>
        /\ bid_ask_trees_ = [s \in Side |-> <<>>] /\ best = [s \in Side |-> NoBest]

-----------------------------------------------------------------------------
(* MarketBook *)

\* update_best_bid_ask: rbegin of the bids, begin of the asks.
BestOf(tree, side) ==
    IF DOMAIN tree = {} THEN NoBest
    ELSE LET p == IF side = "Buy" THEN Max(DOMAIN tree) ELSE Min(DOMAIN tree)
         IN [price |-> p, qty |-> tree[p]]

\* Mutant of PutBook: only the quantity is updated, also when a level came or went.
PutBook_QtyOnly(side, tree, levelsChanged) ==
    /\ bid_ask_trees_' = [bid_ask_trees_ EXCEPT ![side] = tree]
    /\ best' = [best EXCEPT ![side].qty = BestOf(tree, side).qty]

\* A new or erased level updates the best price, any change the best quantity.
PutBook(side, tree, levelsChanged) ==
    /\ bid_ask_trees_' = [bid_ask_trees_ EXCEPT ![side] = tree]
    /\ best' = IF levelsChanged THEN [best EXCEPT ![side] = BestOf(tree, side)]
               ELSE [best EXCEPT ![side].qty = BestOf(tree, side).qty]

Added(tree, price, qty) ==
    With(tree, price, IF price \in DOMAIN tree THEN (tree[price] + qty) % QtyMod ELSE qty)

add_order(o, qty) == LET tree == bid_ask_trees_[o.side]
                     IN PutBook(o.side, Added(tree, o.price, qty), o.price \notin DOMAIN tree)

Taken(tree, price, qty) ==
    IF price \notin DOMAIN tree THEN tree
    ELSE IF tree[price] <= qty THEN Without(tree, price)
    ELSE With(tree, price, tree[price] - qty)

\* exec_order, cancel_order and delete_order, which differ in the quantity.
take_order(o, qty) ==
    LET tree == bid_ask_trees_[o.side]
        left == Taken(tree, o.price, qty)
    IN IF o.price \in DOMAIN tree THEN PutBook(o.side, left, DOMAIN left # DOMAIN tree)
       ELSE UNCHANGED book

-----------------------------------------------------------------------------
(* OrderManager: the market half of order_pool_ *)

NextSlot == IF market_next_slot >= MARKETORDER_LAST_INDEX THEN 0 ELSE market_next_slot

\* Mutant of Evicted: the key of the order that had the slot stays in the map.
Evicted_Keeps(slot, full) == market_orders_

\* Once the pool has wrapped, the order that had the slot is forgotten.
Evicted(slot, full) == IF full THEN Without(market_orders_, SlotKey(order_pool_[slot]))
                       ELSE market_orders_

\* add_market_order, then fill_itch_add (which leaves filled_quantity alone).
add_market_order(key, side, price, qty) ==
    LET slot == NextSlot
        full == market_map_full \/ market_next_slot >= MARKETORDER_LAST_INDEX
    IN /\ market_next_slot' = slot + 1 /\ market_map_full' = full
       /\ market_orders_' = With(Evicted(slot, full), key, slot)
       /\ order_pool_' = [order_pool_ EXCEPT ![slot] =
              [@ EXCEPT !.order_id = key[1], !.side = side, !.venue = venue, !.price = price,
                        !.remaining_quantity = qty]]

\* How a message finds its order: BIST by id and side, NASDAQ by id alone.
Key(id, side) == IF venue = "BIST" THEN OrderKey(id, side) ELSE nq_itch_refnum_ordkey_[id]
Known(id, side) == /\ venue = "NASDAQ" => id \in DOMAIN nq_itch_refnum_ordkey_
                   /\ Key(id, side) \in DOMAIN market_orders_
SlotOf(id, side) == market_orders_[Key(id, side)]
OrderOf(k) == order_pool_[SlotOf(k[1], k[2])]

\* A message about an order the maps have leaves order in its slot and takes
\* qty off the book; a message about any other order is ignored.
Apply(k, order, qty) ==
    IF Known(k[1], k[2])
    THEN /\ order_pool_' = [order_pool_ EXCEPT ![SlotOf(k[1], k[2])] = order]
         /\ take_order(order, qty)
    ELSE UNCHANGED <<order_pool_, book>>

maps == <<market_next_slot, market_map_full, market_orders_, nq_itch_refnum_ordkey_>>

-----------------------------------------------------------------------------
(* The messages *)

Sends(kind) == kind \in Kinds \cap VenueKinds[venue]

\* BIST gives out ids per side, NASDAQ an id once; the code only compares
\* ids, so they are given out in order.
GivenOut(id, side) == \E s \in (IF venue = "BIST" THEN {side} ELSE Side) : <<id, s>> \in used
Fresh(id, side) == /\ Cardinality(used) < MaxOrders /\ ~GivenOut(id, side)
                   /\ \A i \in Ids : i < id => GivenOut(i, side)

Add(id, side, price, qty) ==
    /\ Fresh(id, side) /\ used' = used \cup {<<id, side>>}
    /\ live' = With(live, <<id, side>>, [price |-> price, qty |-> qty, filled |-> 0])
    /\ add_market_order(OrderKey(id, side), side, price, qty)
    /\ nq_itch_refnum_ordkey_' = IF venue = "BIST" THEN nq_itch_refnum_ordkey_
                                 ELSE With(nq_itch_refnum_ordkey_, id, OrderKey(id, side))
    /\ add_order([side |-> side, price |-> price], qty)
    /\ UNCHANGED <<venue, exact>>

\* What the exchange has left of an order after qty of it is gone.
LiveLess(k, qty, filled) ==
    IF live[k].qty = qty THEN Without(live, k)
    ELSE [live EXCEPT ![k].qty = @ - qty, ![k].filled = @ + filled]

\* Mutant of fill_itch_exec_report: all that was ever filled is taken off again.
fill_itch_exec_report_Cumulative(o, qty) ==
    [o EXCEPT !.filled_quantity = (@ + qty) % QtyMod,
              !.remaining_quantity = @ - (o.filled_quantity + qty)]

fill_itch_exec_report(o, qty) == [o EXCEPT !.filled_quantity = (@ + qty) % QtyMod,
                                           !.remaining_quantity = Sub(@, qty)]

\* The book is changed at the price of the order, which an execution with a
\* price has overwritten by then.
Exec(k, qty) ==
    /\ Sends("Exec") /\ k \in DOMAIN live /\ qty <= live[k].qty
    /\ live' = LiveLess(k, qty, qty)
    /\ Apply(k, fill_itch_exec_report(OrderOf(k), qty), qty)
    /\ UNCHANGED <<venue, exact, used, maps>>

ExecWithPrice(k, qty, price) ==
    /\ Sends("ExecWithPrice") /\ k \in DOMAIN live /\ qty <= live[k].qty
    /\ live' = LiveLess(k, qty, qty)
    /\ Apply(k, [fill_itch_exec_report(OrderOf(k), qty) EXCEPT !.price = price], qty)
    /\ exact' = FALSE /\ UNCHANGED <<venue, used, maps>>

\* Mutant of Cancel: the order keeps its quantity.
Cancel_KeepsRemaining(k, qty) ==
    /\ Sends("Cancel") /\ k \in DOMAIN live /\ qty < live[k].qty
    /\ live' = LiveLess(k, qty, 0)
    /\ Apply(k, OrderOf(k), qty)
    /\ UNCHANGED <<venue, exact, used, maps>>

Cancel(k, qty) ==
    /\ Sends("Cancel") /\ k \in DOMAIN live /\ qty < live[k].qty
    /\ live' = LiveLess(k, qty, 0)
    /\ Apply(k, [OrderOf(k) EXCEPT !.remaining_quantity = Sub(@, qty)], qty)
    /\ UNCHANGED <<venue, exact, used, maps>>

Delete(k) ==
    /\ Sends("Delete") /\ k \in DOMAIN live
    /\ live' = Without(live, k)
    /\ Apply(k, OrderOf(k), OrderOf(k).remaining_quantity)
    /\ UNCHANGED <<venue, exact, used, maps>>

\* The order in the slot gets the new id; the maps keep the old one.
Replace(k, id, price, qty) ==
    /\ Sends("Replace") /\ k \in DOMAIN live /\ Fresh(id, k[2]) /\ used' = used \cup {<<id, k[2]>>}
    /\ live' = With(Without(live, k), <<id, k[2]>>, [price |-> price, qty |-> qty, filled |-> 0])
    /\ IF Known(k[1], k[2])
       THEN LET o == OrderOf(k)
                tree == bid_ask_trees_[o.side]
                left == Taken(tree, o.price, o.remaining_quantity)
            IN /\ order_pool_' = [order_pool_ EXCEPT ![SlotOf(k[1], k[2])] =
                      [@ EXCEPT !.order_id = id, !.price = price, !.remaining_quantity = qty,
                                !.filled_quantity = 0]]
               /\ PutBook(o.side, Added(left, price, qty),
                          DOMAIN left # DOMAIN tree \/ price \notin DOMAIN left)
       ELSE UNCHANGED <<order_pool_, book>>
    /\ exact' = FALSE /\ UNCHANGED <<venue, maps>>

\* OrderBookFlush: the levels go, the best prices stay.
Flush == /\ Sends("Flush")
         /\ live' = <<>>
         /\ bid_ask_trees_' = [s \in Side |-> <<>>]
         /\ UNCHANGED <<venue, exact, used, store, best>>

Qty == 1..MaxQty

Next == \/ \E id \in Ids, side \in Side, price \in Prices, qty \in Qty : Add(id, side, price, qty)
        \/ \E k \in DOMAIN live :
              \/ \E qty \in Qty : Exec(k, qty) \/ Cancel(k, qty)
              \/ \E qty \in Qty, price \in Prices : ExecWithPrice(k, qty, price)
              \/ Delete(k)
              \/ \E id \in Ids, price \in Prices, qty \in Qty : Replace(k, id, price, qty)
        \/ Flush

Spec == Init /\ [][Next]_vars

-----------------------------------------------------------------------------
(* Properties *)

\* The type invariant.
TypeOK ==
    /\ DOMAIN live \subseteq Ids \X Side /\ used \subseteq Ids \X Side
    /\ \A k \in DOMAIN live : live[k] \in [price : Prices, qty : Qty, filled : Nat]
    /\ \A s \in Slots : /\ order_pool_[s].remaining_quantity \in 0..QtyMod - 1
                        /\ order_pool_[s].filled_quantity \in 0..QtyMod - 1
    /\ DOMAIN order_pool_ = Slots /\ market_next_slot \in 0..MARKETORDER_LAST_INDEX
    /\ market_map_full \in BOOLEAN
    /\ DOMAIN market_orders_ \subseteq Ids \X Side \X {"BIST"}
    /\ \A key \in DOMAIN market_orders_ : market_orders_[key] \in Slots
    /\ \A s \in Side, p \in Prices : p \in DOMAIN bid_ask_trees_[s] =>
           bid_ask_trees_[s][p] \in 0..QtyMod - 1

\* What readers of the book see is its best level, with the quantity of that
\* level, whatever mixture of new levels, changes of a level and erased
\* levels came before; RiskEngine reads these without looking at the trees.
BestMatchesBook ==
    \A s \in Side : DOMAIN bid_ask_trees_[s] # {} => best[s] = BestOf(bid_ask_trees_[s], s)

\* The displayed quantity of the exchange at a price, and that of the book.
AtPrice(s, p) == {k \in DOMAIN live : k[2] = s /\ live[k].price = p}
Displayed(s, p) == Total([k \in AtPrice(s, p) |-> live[k].qty])
Depth(s, p) == IF p \in DOMAIN bid_ask_trees_[s] THEN bid_ask_trees_[s][p] ELSE 0

\* The book is the aggregation of the displayed orders: adds, executions,
\* cancels, deletes and flushes of orders that share levels keep them equal,
\* up to the first Replace, after which no map knows the order, or execution
\* at another price.  Once the pool has wrapped, orders of BIST are forgotten
\* but the book never shows less than the market displays.
BookMatchesMarket ==
    exact => \A s \in Side, p \in Prices :
                /\ ~market_map_full => Depth(s, p) = Displayed(s, p)
                /\ venue = "BIST" => Depth(s, p) >= Displayed(s, p)

\* A key leads to the order it was made for, also after slots were used
\* again: a message of BIST is never applied to another order.
OwnSlot == venue = "BIST" => \A key \in DOMAIN market_orders_ : SlotKey(order_pool_[market_orders_[key]]) = key
=============================================================================
