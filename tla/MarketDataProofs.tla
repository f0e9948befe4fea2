--------------------------- MODULE MarketDataProofs ---------------------------
(***************************************************************************)
(* Proofs about MarketData, for every set of order ids and prices, every   *)
(* size of the pool and any number of orders.                              *)
(***************************************************************************)
EXTENDS MarketData, Lemmas

QtyRange == 0..QtyMod - 1
OrderRec == [order_id : Ids \cup {0}, side : Side \cup {"Unknown"}, venue : {"BIST", "NASDAQ"},
             price : Prices \cup {0}, remaining_quantity : QtyRange, filled_quantity : QtyRange]
LiveRec == [price : Prices, qty : Qty, filled : Nat]
Keys == Ids \X Side \X {"BIST"}

\* The levels of a side, and the quantity at a price (0 where there is no level).
Tree(t) == t \in [DOMAIN t -> QtyRange] /\ DOMAIN t \subseteq Prices
At(t, p) == IF p \in DOMAIN t THEN t[p] ELSE 0

\* The types, in the form that induction needs.
ExchangeType == /\ venue \in {"BIST", "NASDAQ"} /\ exact \in BOOLEAN
                /\ live \in [DOMAIN live -> LiveRec] /\ DOMAIN live \subseteq used
                /\ used \subseteq Ids \X Side /\ IsFiniteSet(used)
StoreType == /\ order_pool_ \in [Slots -> OrderRec]
             /\ market_next_slot \in 0..MARKETORDER_LAST_INDEX /\ market_map_full \in BOOLEAN
             /\ market_orders_ \in [DOMAIN market_orders_ -> Slots] /\ DOMAIN market_orders_ \subseteq Keys
             /\ nq_itch_refnum_ordkey_ \in [DOMAIN nq_itch_refnum_ordkey_ -> Keys]
             /\ DOMAIN nq_itch_refnum_ordkey_ \subseteq Ids
BookType == /\ DOMAIN bid_ask_trees_ = Side /\ \A s \in Side : Tree(bid_ask_trees_[s])
            /\ DOMAIN best = Side /\ \A s \in Side : DOMAIN best[s] = {"price", "qty"}

\* The orders the maps lead to are real orders; before the pool wraps they are
\* in the slots given out so far; and an order is the one of its key, until
\* Replace renames it or NASDAQ keys are left behind by reused slots.
Owned == venue = "BIST" \/ (exact /\ ~market_map_full)
SlotInv ==
    \A key \in DOMAIN market_orders_ :
        LET o == order_pool_[market_orders_[key]]
        IN /\ o.side \in Side /\ o.price \in Prices
           /\ ~market_map_full => market_orders_[key] < market_next_slot
           /\ Owned => o.order_id = key[1] /\ o.side = key[2]
           /\ venue = "BIST" => o.venue = "BIST"

\* Before the pool wraps every displayed order can be found; one that is found
\* is in its slot as the exchange displays it.
Found(k) == ~market_map_full =>
                /\ OrderKey(k[1], k[2]) \in DOMAIN market_orders_
                /\ venue = "NASDAQ" => /\ k[1] \in DOMAIN nq_itch_refnum_ordkey_
                                       /\ nq_itch_refnum_ordkey_[k[1]] = OrderKey(k[1], k[2])
Same(k) == Owned /\ OrderKey(k[1], k[2]) \in DOMAIN market_orders_ =>
              LET o == order_pool_[market_orders_[OrderKey(k[1], k[2])]]
              IN o.price = live[k].price /\ o.remaining_quantity = live[k].qty
MirrorInv == exact => \A k \in DOMAIN live : Found(k) /\ Same(k)

\* A level holds no more than all the orders there ever were.
BoundInv == \A s \in Side, p \in Prices : Depth(s, p) <= Cardinality(used) * MaxQty

\* The inductive invariant.
IInv == /\ ExchangeType /\ StoreType /\ BookType
        /\ SlotInv /\ BestMatchesBook /\ MirrorInv /\ BoundInv /\ BookMatchesMarket

-----------------------------------------------------------------------------
(* The operators of the book *)

LEMMA Constants == /\ MaxOrders \in Nat /\ MaxQty \in Nat /\ QtyMod \in Nat /\ QtyMod > 0 /\ MaxQty < QtyMod
                   /\ MARKETORDER_LAST_INDEX \in Nat /\ MARKETORDER_LAST_INDEX > 0
                   /\ Ids \subseteq Nat \ {0} /\ Prices \subseteq Nat \ {0}
  BY DataAssumption

\* Levels are nothing but naturals below 2^32; so is what % gives.
LEMMA ModRange == \A x \in Int : x % QtyMod \in QtyRange
  BY Constants, ModDef DEF QtyRange

\* A remainder is no larger than the number, and the number itself if it fits.
LEMMA ModSmall == \A x \in Nat : x % QtyMod <= x /\ (x < QtyMod => x % QtyMod = x)
<1> SUFFICES ASSUME NEW x \in Nat PROVE x % QtyMod <= x /\ (x < QtyMod => x % QtyMod = x)
    OBVIOUS
<1>1. CASE x < QtyMod BY <1>1, Constants, ModRound
<1>2. CASE ~(x < QtyMod)
  <2>1. x % QtyMod \in QtyRange BY ModRange
  <2> QED BY <1>2, <2>1, Constants DEF QtyRange
<1> QED BY <1>1, <1>2

LEMMA AtType == ASSUME NEW t, Tree(t), NEW p PROVE At(t, p) \in QtyRange /\ At(t, p) \in Nat
  BY Constants DEF Tree, At, QtyRange

LEMMA WithType == ASSUME NEW D, NEW R, NEW f \in [D -> R], NEW x, NEW v \in R
                  PROVE  /\ With(f, x, v) \in [D \cup {x} -> R] /\ DOMAIN With(f, x, v) = D \cup {x}
                         /\ With(f, x, v)[x] = v /\ \A y \in D : y # x => With(f, x, v)[y] = f[y]
  BY DEF With

LEMMA WithoutType == ASSUME NEW D, NEW R, NEW f \in [D -> R], NEW x
                     PROVE  /\ Without(f, x) \in [D \ {x} -> R] /\ DOMAIN Without(f, x) = D \ {x}
                            /\ \A y \in D : y # x => Without(f, x)[y] = f[y]
  BY DEF Without, Restrict

\* What Added does to the levels.
LEMMA AddedEffect ==
  ASSUME NEW t, Tree(t), NEW price \in Prices, NEW qty \in QtyRange
  PROVE  /\ Tree(Added(t, price, qty)) /\ DOMAIN Added(t, price, qty) = DOMAIN t \cup {price}
         /\ \A p : p # price => At(Added(t, price, qty), p) = At(t, p)
         /\ At(Added(t, price, qty), price) <= At(t, price) + qty
         /\ At(t, price) + qty < QtyMod => At(Added(t, price, qty), price) = At(t, price) + qty
<1> DEFINE v == IF price \in DOMAIN t THEN (t[price] + qty) % QtyMod ELSE qty
<1>0. Added(t, price, qty) = With(t, price, v) BY DEF Added
<1>1. v \in QtyRange /\ v <= At(t, price) + qty /\ (At(t, price) + qty < QtyMod => v = At(t, price) + qty)
  <2>0. qty \in Nat /\ qty < QtyMod BY Constants DEF QtyRange
  <2>1. CASE price \in DOMAIN t
    <3>1. t[price] \in Nat /\ At(t, price) = t[price] BY <2>1, Constants DEF Tree, QtyRange, At
    <3>2. t[price] + qty \in Nat /\ t[price] + qty \in Int BY <2>0, <3>1
    <3>3. v = (t[price] + qty) % QtyMod BY <2>1
    <3>4. (t[price] + qty) % QtyMod \in QtyRange BY <3>2, ModRange
    <3> QED BY <3>1, <3>2, <3>3, <3>4, ModSmall
  <2>2. CASE price \notin DOMAIN t BY <2>0, <2>2 DEF At
  <2> QED BY <2>1, <2>2
<1> HIDE DEF v
<1>2. t \in [DOMAIN t -> QtyRange] /\ DOMAIN t \subseteq Prices BY DEF Tree
<1> DEFINE u == With(t, price, v)
<1>3. /\ u \in [DOMAIN t \cup {price} -> QtyRange] /\ DOMAIN u = DOMAIN t \cup {price} /\ u[price] = v
      /\ \A y \in DOMAIN t : y # price => u[y] = t[y]
      BY <1>1, <1>2 DEF With
<1> HIDE DEF u
<1>4. Tree(u) BY <1>2, <1>3 DEF Tree
<1>5. \A p : p # price => At(u, p) = At(t, p) BY <1>3 DEF At
<1>6. At(u, price) = v BY <1>3 DEF At
<1> QED BY <1>0, <1>1, <1>3, <1>4, <1>5, <1>6 DEF u

\* What Taken does to the levels.
LEMMA TakenEffect ==
  ASSUME NEW t, Tree(t), NEW price \in Prices, NEW qty \in QtyRange
  PROVE  /\ Tree(Taken(t, price, qty)) /\ DOMAIN Taken(t, price, qty) \subseteq DOMAIN t
         /\ \A p : p # price => At(Taken(t, price, qty), p) = At(t, p)
         /\ At(Taken(t, price, qty), price) = IF At(t, price) <= qty THEN 0 ELSE At(t, price) - qty
<1>0. qty \in Nat BY Constants DEF QtyRange
<1>1. CASE price \notin DOMAIN t BY <1>0, <1>1 DEF Taken, At
<1>2. CASE price \in DOMAIN t /\ t[price] <= qty
  <2> DEFINE u == Without(t, price)
  <2>1. Taken(t, price, qty) = u BY <1>2 DEF Taken
  <2>2. t \in [DOMAIN t -> QtyRange] /\ DOMAIN t \subseteq Prices BY DEF Tree
  <2>3. /\ u \in [DOMAIN t \ {price} -> QtyRange] /\ DOMAIN u = DOMAIN t \ {price}
        /\ \A y \in DOMAIN t : y # price => u[y] = t[y]
        BY <2>2 DEF Without, Restrict
  <2> HIDE DEF u
  <2>4. Tree(u) BY <2>2, <2>3 DEF Tree
  <2>5. \A p : p # price => At(u, p) = At(t, p) BY <2>3 DEF At
  <2>6. At(u, price) = 0 /\ At(t, price) = t[price] BY <1>2, <2>3 DEF At
  <2> QED BY <1>2, <2>1, <2>3, <2>4, <2>5, <2>6
<1>3. CASE price \in DOMAIN t /\ ~(t[price] <= qty)
  <2> DEFINE v == t[price] - qty
             u == With(t, price, v)
  <2>1. Taken(t, price, qty) = u BY <1>3 DEF Taken
  <2>2. t \in [DOMAIN t -> QtyRange] /\ DOMAIN t \subseteq Prices BY DEF Tree
  <2>7. v \in QtyRange /\ t[price] \in Int
    <3>1. t[price] \in QtyRange BY <1>3, <2>2
    <3> QED BY <1>0, <1>3, <3>1, Constants DEF QtyRange
  <2> HIDE DEF v
  <2>3. /\ u \in [DOMAIN t \cup {price} -> QtyRange] /\ DOMAIN u = DOMAIN t \cup {price} /\ u[price] = v
        /\ \A y \in DOMAIN t : y # price => u[y] = t[y]
        BY <2>2, <2>7 DEF With
  <2> HIDE DEF u
  <2>4. Tree(u) BY <2>2, <2>3 DEF Tree
  <2>5. \A p : p # price => At(u, p) = At(t, p) BY <2>3 DEF At
  <2>6. At(u, price) = v /\ At(t, price) = t[price] BY <1>3, <2>3 DEF At
  <2> QED BY <1>3, <2>1, <2>3, <2>4, <2>5, <2>6 DEF v
<1> QED BY <1>1, <1>2, <1>3

\* As long as the levels are the same, so is the best price.
LEMMA BestPriceStays ==
  ASSUME NEW t, NEW u, NEW s, DOMAIN t = DOMAIN u, DOMAIN t # {}
  PROVE  BestOf(u, s) = [price |-> BestOf(t, s).price, qty |-> BestOf(u, s).qty]
  BY DEF BestOf

\* PutBook keeps the published best prices those of the book, provided that it
\* is told of every level that came or went.
LEMMA PutBookEffect ==
  ASSUME BookType, BestMatchesBook, NEW side \in Side, NEW t, Tree(t), NEW levelsChanged \in BOOLEAN,
         ~levelsChanged => DOMAIN t = DOMAIN bid_ask_trees_[side],
         PutBook(side, t, levelsChanged)
  PROVE  /\ BookType' /\ BestMatchesBook'
         /\ bid_ask_trees_'[side] = t
         /\ \A s \in Side : s # side => bid_ask_trees_'[s] = bid_ask_trees_[s]
<1>1. /\ bid_ask_trees_'[side] = t /\ DOMAIN bid_ask_trees_' = Side
      /\ \A s \in Side : s # side => bid_ask_trees_'[s] = bid_ask_trees_[s]
      BY DEF PutBook, BookType
<1>2. \A s \in Side : Tree(bid_ask_trees_'[s]) BY <1>1 DEF BookType
<1>3. DOMAIN best' = Side /\ \A s \in Side : s # side => best'[s] = best[s]
      BY DEF PutBook, BookType
<1>4. levelsChanged => best'[side] = BestOf(t, side) BY DEF PutBook, BookType
<1>5. ~levelsChanged => best'[side] = [best[side] EXCEPT !.qty = BestOf(t, side).qty]
      BY DEF PutBook, BookType
<1>6. DOMAIN BestOf(t, side) = {"price", "qty"} BY DEF BestOf, NoBest
<1>7. DOMAIN best'[side] = {"price", "qty"} BY <1>4, <1>5, <1>6 DEF BookType
<1>8. DOMAIN t # {} => best'[side] = BestOf(t, side)
  <2>1. SUFFICES ASSUME DOMAIN t # {}, ~levelsChanged PROVE best'[side] = BestOf(t, side)
        BY <1>4
  <2>2. DOMAIN bid_ask_trees_[side] = DOMAIN t BY <2>1
  <2>3. best[side] = BestOf(bid_ask_trees_[side], side) BY <2>1, <2>2 DEF BestMatchesBook
  <2>4. BestOf(t, side) = [price |-> BestOf(bid_ask_trees_[side], side).price, qty |-> BestOf(t, side).qty]
        BY <2>1, <2>2, BestPriceStays
  <2>5. best[side] = [price |-> best[side].price, qty |-> best[side].qty]
        BY <2>1, <2>2, <2>3, BestPriceStays
  <2>6. best'[side] = [price |-> best[side].price, qty |-> BestOf(t, side).qty]
        BY <1>5, <2>1, <2>5
  <2> QED BY <2>3, <2>4, <2>6
<1>9. BookType' BY <1>1, <1>2, <1>3, <1>7 DEF BookType
<1>10. BestMatchesBook' BY <1>1, <1>3, <1>8 DEF BestMatchesBook
<1> QED BY <1>1, <1>9, <1>10

-----------------------------------------------------------------------------
(* What the exchange displays at a price *)

Displays(l) == l \in [DOMAIN l -> LiveRec] /\ IsFiniteSet(DOMAIN l)
LevelIn(l, s, p) == {k \in DOMAIN l : k[2] = s /\ l[k].price = p}
DisplayedIn(l, s, p) == Total([k \in LevelIn(l, s, p) |-> l[k].qty])
\* What one order has to do with it.
Share(k, price, qty, s, p) == IF k[2] = s /\ price = p THEN qty ELSE 0

LEMMA DisplayedNat == ASSUME NEW l, Displays(l), NEW s, NEW p PROVE DisplayedIn(l, s, p) \in Nat
<1> DEFINE D == LevelIn(l, s, p)
<1>1. IsFiniteSet(D) BY FS_Subset DEF LevelIn, Displays
<1>2. [k \in D |-> l[k].qty] \in [D -> Nat] BY Constants DEF LevelIn, Displays, LiveRec, Qty
<1> QED BY <1>1, <1>2, TotalNat DEF DisplayedIn

\* One order taken out of the sum.
LEMMA LevelSplit ==
  ASSUME NEW l, Displays(l), NEW k \in DOMAIN l, NEW s, NEW p
  PROVE  DisplayedIn(l, s, p) = DisplayedIn(Without(l, k), s, p) + Share(k, l[k].price, l[k].qty, s, p)
<1> DEFINE D == LevelIn(l, s, p)
           f == [x \in D |-> l[x].qty]
           m == Without(l, k)
<1>1. IsFiniteSet(D) BY FS_Subset DEF LevelIn, Displays
<1>2. f \in [D -> Nat] BY Constants DEF LevelIn, Displays, LiveRec, Qty
<1>3. LevelIn(m, s, p) = D \ {k} BY DEF LevelIn, Without, Restrict
<1>4. DisplayedIn(m, s, p) = Total([x \in D \ {k} |-> f[x]])
  <2>1. \A x \in D \ {k} : m[x].qty = f[x] BY DEF LevelIn, Without, Restrict
  <2>2. [x \in LevelIn(m, s, p) |-> m[x].qty] = [x \in D \ {k} |-> f[x]] BY <1>3, <2>1
  <2> QED BY <2>2 DEF DisplayedIn
<1>5. CASE k \in D
  <2>1. Share(k, l[k].price, l[k].qty, s, p) = f[k] BY <1>5 DEF Share, LevelIn
  <2>2. Total(f) = Total([x \in D \ {k} |-> f[x]]) + f[k] BY <1>1, <1>2, <1>5, TotalSplit
  <2> QED BY <1>4, <2>1, <2>2 DEF DisplayedIn
<1>6. CASE k \notin D
  <2>1. Share(k, l[k].price, l[k].qty, s, p) = 0 BY <1>6 DEF Share, LevelIn
  <2>2. [x \in D \ {k} |-> f[x]] = f BY <1>6
  <2>3. DisplayedIn(m, s, p) = DisplayedIn(l, s, p) BY <1>4, <2>2 DEF DisplayedIn
  <2>4. DisplayedIn(l, s, p) \in Nat BY DisplayedNat
  <2> QED BY <2>1, <2>3, <2>4
<1> QED BY <1>5, <1>6

\* Another order is displayed.
LEMMA DisplayedMore ==
  ASSUME NEW l, NEW m, Displays(l), Displays(m), NEW k, k \notin DOMAIN l, DOMAIN m = DOMAIN l \cup {k},
         \A x \in DOMAIN l : m[x] = l[x], NEW s, NEW p
  PROVE  DisplayedIn(m, s, p) = DisplayedIn(l, s, p) + Share(k, m[k].price, m[k].qty, s, p)
<1>1. Without(m, k) = l BY DEF Without, Restrict, Displays
<1> QED BY <1>1, LevelSplit

\* A part of an order, or all of it, is gone.
LEMMA DisplayedLess ==
  ASSUME NEW l, NEW m, Displays(l), Displays(m), NEW k \in DOMAIN l, NEW qty \in Nat,
         \/ DOMAIN m = DOMAIN l \ {k} /\ qty = l[k].qty
         \/ DOMAIN m = DOMAIN l /\ m[k].price = l[k].price /\ m[k].qty = l[k].qty - qty,
         \A x \in DOMAIN l : x # k => m[x] = l[x], NEW s, NEW p
  PROVE  /\ DisplayedIn(m, s, p) = DisplayedIn(l, s, p) - Share(k, l[k].price, qty, s, p)
         /\ DisplayedIn(l, s, p) >= Share(k, l[k].price, l[k].qty, s, p)
<1> DEFINE w == DisplayedIn(Without(l, k), s, p)
<1>1. Displays(Without(l, k))
  <2>1. IsFiniteSet(DOMAIN l \ {k}) BY FS_RemoveElement DEF Displays
  <2> QED BY <2>1 DEF Displays, Without, Restrict
<1>2. w \in Nat BY <1>1, DisplayedNat
<1>3. DisplayedIn(l, s, p) = w + Share(k, l[k].price, l[k].qty, s, p) BY LevelSplit
<1> HIDE DEF w
<1>4. l[k].qty \in Nat BY Constants DEF Displays, LiveRec, Qty
<1>5. CASE DOMAIN m = DOMAIN l \ {k} /\ qty = l[k].qty
  <2>1. m = Without(l, k) BY <1>5 DEF Without, Restrict, Displays
  <2> QED BY <1>2, <1>3, <1>4, <1>5, <2>1 DEF w, Share
<1>6. CASE DOMAIN m = DOMAIN l /\ m[k].price = l[k].price /\ m[k].qty = l[k].qty - qty
  <2>1. Without(m, k) = Without(l, k) BY <1>6 DEF Without, Restrict, Displays
  <2>2. DisplayedIn(m, s, p) = w + Share(k, m[k].price, m[k].qty, s, p) BY <1>6, <2>1, LevelSplit DEF w
  <2> QED BY <1>2, <1>3, <1>4, <1>6, <2>2 DEF Share
<1> QED BY <1>5, <1>6

-----------------------------------------------------------------------------
(* The initial state *)

LEMMA InitInv == Init => IInv
<1> SUFFICES ASSUME Init PROVE IInv
    OBVIOUS
<1> USE Constants DEF Init
<1>1. DOMAIN live = {} /\ DOMAIN market_orders_ = {} /\ DOMAIN nq_itch_refnum_ordkey_ = {}
      OBVIOUS
<1>2. \A s \in Side : DOMAIN bid_ask_trees_[s] = {} OBVIOUS
<1>3. ExchangeType
  <2>1. venue \in {"BIST", "NASDAQ"} /\ exact \in BOOLEAN BY VenueAssumption
  <2>2. live \in [DOMAIN live -> LiveRec] BY <1>1
  <2>3. IsFiniteSet(used) BY FS_EmptySet
  <2> QED BY <1>1, <2>1, <2>2, <2>3 DEF ExchangeType
<1>4. StoreType
  <2>1. NoOrder \in OrderRec BY DEF NoOrder, OrderRec, QtyRange
  <2>2. order_pool_ \in [Slots -> OrderRec] BY <2>1
  <2>3. market_orders_ \in [DOMAIN market_orders_ -> Slots] BY <1>1
  <2>4. nq_itch_refnum_ordkey_ \in [DOMAIN nq_itch_refnum_ordkey_ -> Keys] BY <1>1
  <2>6. market_next_slot = 0 /\ market_map_full = FALSE OBVIOUS
  <2> HIDE DEF Init
  <2>7. market_next_slot \in 0..MARKETORDER_LAST_INDEX BY <2>6
  <2>5. market_next_slot \in 0..MARKETORDER_LAST_INDEX /\ market_map_full \in BOOLEAN BY <2>6, <2>7
  <2> QED BY <1>1, <2>2, <2>3, <2>4, <2>5 DEF StoreType
<1>5. BookType
  <2>1. \A s \in Side : Tree(bid_ask_trees_[s]) BY <1>2 DEF Tree
  <2> QED BY <2>1 DEF BookType, NoBest
<1>6. SlotInv BY <1>1 DEF SlotInv
<1>7. BestMatchesBook BY <1>2 DEF BestMatchesBook
<1>8. MirrorInv BY <1>1 DEF MirrorInv
<1>9. \A s \in Side, p \in Prices : Depth(s, p) = 0 BY <1>2 DEF Depth
<1>10. BoundInv
  <2>1. Cardinality(used) = 0 BY FS_EmptySet
  <2> QED BY <1>9, <2>1 DEF BoundInv
<1>11. BookMatchesMarket
  <2>1. ASSUME NEW s \in Side, NEW p \in Prices PROVE Displayed(s, p) = 0
    <3>1. AtPrice(s, p) = {} BY <1>1 DEF AtPrice
    <3> QED BY <3>1, TotalEmpty DEF Displayed
  <2> QED BY <1>9, <2>1 DEF BookMatchesMarket
<1> QED BY <1>3, <1>4, <1>5, <1>6, <1>7, <1>8, <1>10, <1>11 DEF IInv

-----------------------------------------------------------------------------
(* Messages about an order *)

LEMMA DepthIsAt == \A s, p : Depth(s, p) = At(bid_ask_trees_[s], p)
  BY DEF Depth, At

LEMMA DisplayedIsIn == \A s, p : Displayed(s, p) = DisplayedIn(live, s, p)
  BY DEF Displayed, DisplayedIn, AtPrice, LevelIn

LEMMA LiveDisplays == ExchangeType => Displays(live)
  BY FS_Subset DEF ExchangeType, Displays

LEMMA LiveKey == ASSUME ExchangeType, NEW k \in DOMAIN live
                 PROVE  /\ k[1] \in Ids /\ k[2] \in Side /\ k = <<k[1], k[2]>>
                        /\ live[k] \in LiveRec /\ live[k].price \in Prices /\ live[k].qty \in Qty
  BY DEF ExchangeType, LiveRec

\* An order that the maps know has a slot with a real order.
LEMMA KnownOrder ==
  ASSUME IInv, NEW k \in DOMAIN live, Known(k[1], k[2])
  PROVE  /\ Key(k[1], k[2]) \in DOMAIN market_orders_ /\ SlotOf(k[1], k[2]) \in Slots
         /\ OrderOf(k) = order_pool_[SlotOf(k[1], k[2])] /\ OrderOf(k) \in OrderRec
         /\ OrderOf(k).side \in Side /\ OrderOf(k).price \in Prices
  BY DEF IInv, StoreType, SlotInv, Known, SlotOf, OrderOf

\* Where orders are owned by their keys, that is the order of the key, as the
\* exchange displays it.
LEMMA KnownMirror ==
  ASSUME IInv, NEW k \in DOMAIN live, Known(k[1], k[2]), exact, Owned
  PROVE  /\ Key(k[1], k[2]) = OrderKey(k[1], k[2])
         /\ OrderOf(k).order_id = k[1] /\ OrderOf(k).side = k[2]
         /\ OrderOf(k).price = live[k].price /\ OrderOf(k).remaining_quantity = live[k].qty
<1>1. Key(k[1], k[2]) = OrderKey(k[1], k[2])
      BY DEF IInv, ExchangeType, Key, Owned, MirrorInv, Found
<1>2. OrderKey(k[1], k[2]) \in DOMAIN market_orders_ BY <1>1, KnownOrder
<1>3. OrderOf(k) = order_pool_[market_orders_[OrderKey(k[1], k[2])]]
      BY <1>1 DEF OrderOf, SlotOf
<1>4. OrderKey(k[1], k[2])[1] = k[1] /\ OrderKey(k[1], k[2])[2] = k[2] BY DEF OrderKey
<1>5. OrderOf(k).order_id = k[1] /\ OrderOf(k).side = k[2] BY <1>2, <1>3, <1>4 DEF IInv, SlotInv
<1>6. OrderOf(k).price = live[k].price /\ OrderOf(k).remaining_quantity = live[k].qty
      BY <1>2, <1>3 DEF IInv, MirrorInv, Same
<1> QED BY <1>1, <1>5, <1>6

\* What a message about an order does, whatever the message: the types, the
\* slots, the best prices and the bound of the levels are kept.
LEMMA ApplyEffect ==
  ASSUME IInv, NEW k \in DOMAIN live, NEW o, NEW qty, Apply(k, o, qty), UNCHANGED <<venue, used, maps>>,
         Known(k[1], k[2]) =>
            /\ o \in OrderRec /\ qty \in QtyRange /\ o.price \in Prices
            /\ o.order_id = OrderOf(k).order_id /\ o.side = OrderOf(k).side /\ o.venue = OrderOf(k).venue,
         exact' => exact
  PROVE  /\ StoreType' /\ BookType' /\ BestMatchesBook' /\ SlotInv' /\ BoundInv'
         /\ Known(k[1], k[2]) =>
               /\ bid_ask_trees_'[o.side] = Taken(bid_ask_trees_[o.side], o.price, qty)
               /\ \A s \in Side : s # o.side => bid_ask_trees_'[s] = bid_ask_trees_[s]
               /\ order_pool_' = [order_pool_ EXCEPT ![SlotOf(k[1], k[2])] = o]
         /\ ~Known(k[1], k[2]) => UNCHANGED <<order_pool_, bid_ask_trees_>>
<1>0. /\ market_next_slot' = market_next_slot /\ market_map_full' = market_map_full
      /\ market_orders_' = market_orders_ /\ nq_itch_refnum_ordkey_' = nq_itch_refnum_ordkey_
      /\ venue' = venue /\ used' = used
      BY DEF maps
<1>1. CASE ~Known(k[1], k[2])
  <2>1. UNCHANGED <<order_pool_, bid_ask_trees_, best>> BY <1>1 DEF Apply, book
  <2>2. StoreType' BY <1>0, <2>1 DEF IInv, StoreType
  <2>3. BookType' /\ BestMatchesBook' BY <2>1 DEF IInv, BookType, BestMatchesBook
  <2>4. SlotInv' BY <1>0, <2>1 DEF IInv, SlotInv, Owned
  <2>5. BoundInv' BY <1>0, <2>1 DEF IInv, BoundInv, Depth
  <2> QED BY <1>1, <2>1, <2>2, <2>3, <2>4, <2>5
<1>2. CASE Known(k[1], k[2])
  <2> DEFINE slot == SlotOf(k[1], k[2])
             tree == bid_ask_trees_[o.side]
             left == Taken(tree, o.price, qty)
  <2>1. /\ slot \in Slots /\ o.side \in Side /\ o.price \in Prices /\ o \in OrderRec /\ qty \in QtyRange
        /\ o.order_id = order_pool_[slot].order_id /\ o.side = order_pool_[slot].side
        /\ o.venue = order_pool_[slot].venue
        BY <1>2, KnownOrder
  <2>2. order_pool_' = [order_pool_ EXCEPT ![slot] = o] /\ take_order(o, qty) BY <1>2 DEF Apply
  <2>3. \A x \in Slots : order_pool_'[x] = IF x = slot THEN o ELSE order_pool_[x]
        BY <2>1, <2>2 DEF IInv, StoreType
  <2>4. order_pool_' \in [Slots -> OrderRec] BY <2>1, <2>2 DEF IInv, StoreType
  <2>5. StoreType' BY <1>0, <2>4 DEF IInv, StoreType
  <2>6. SlotInv'
    <3> SUFFICES ASSUME NEW key \in DOMAIN market_orders_
                 PROVE  LET q == order_pool_'[market_orders_[key]]
                        IN /\ q.side \in Side /\ q.price \in Prices
                           /\ ~market_map_full => market_orders_[key] < market_next_slot
                           /\ Owned' => q.order_id = key[1] /\ q.side = key[2]
                           /\ venue = "BIST" => q.venue = "BIST"
        BY <1>0 DEF SlotInv
    <3>1. Owned' => Owned BY <1>0 DEF Owned
    <3>2. market_orders_[key] \in Slots BY DEF IInv, StoreType
    <3> QED BY <2>1, <2>3, <3>1, <3>2 DEF IInv, SlotInv
  <2>7. Tree(tree) BY <2>1 DEF IInv, BookType
  <2>8. /\ Tree(left) /\ DOMAIN left \subseteq DOMAIN tree
        /\ \A p : p # o.price => At(left, p) = At(tree, p)
        /\ At(left, o.price) = IF At(tree, o.price) <= qty THEN 0 ELSE At(tree, o.price) - qty
        BY <2>1, <2>7, TakenEffect
  <2>9. /\ BookType' /\ BestMatchesBook' /\ bid_ask_trees_'[o.side] = left
        /\ \A s \in Side : s # o.side => bid_ask_trees_'[s] = bid_ask_trees_[s]
    <3>1. CASE o.price \in DOMAIN tree
      <4>1. PutBook(o.side, left, DOMAIN left # DOMAIN tree) BY <2>2, <3>1 DEF take_order
      <4>2. (DOMAIN left # DOMAIN tree) \in BOOLEAN OBVIOUS
      <4>3. ~(DOMAIN left # DOMAIN tree) => DOMAIN left = DOMAIN tree OBVIOUS
      <4>4. BookType /\ BestMatchesBook BY DEF IInv
      <4> HIDE DEF left
      <4> QED BY <2>1, <2>8, <4>1, <4>2, <4>3, <4>4, PutBookEffect
    <3>2. CASE o.price \notin DOMAIN tree
      <4>1. UNCHANGED <<bid_ask_trees_, best>> BY <2>2, <3>2 DEF take_order, book
      <4>2. left = tree BY <3>2 DEF Taken
      <4> QED BY <2>1, <4>1, <4>2 DEF IInv, BookType, BestMatchesBook
    <3> QED BY <3>1, <3>2
  <2>10. BoundInv'
    <3> SUFFICES ASSUME NEW s \in Side, NEW p \in Prices
                 PROVE  Depth(s, p)' <= Cardinality(used) * MaxQty
        BY <1>0 DEF BoundInv
    <3>1. Depth(s, p)' = At(bid_ask_trees_'[s], p) BY DEF Depth, At
    <3>2. At(bid_ask_trees_[s], p) <= Cardinality(used) * MaxQty BY DepthIsAt DEF IInv, BoundInv
    <3>3. At(bid_ask_trees_[s], p) \in Nat BY AtType DEF IInv, BookType
    <3>4. Cardinality(used) * MaxQty \in Int
          BY FS_CardinalityType, Constants DEF IInv, ExchangeType
    <3>5. qty \in Nat BY <2>1, Constants DEF QtyRange
    <3>6. CASE s # o.side BY <2>9, <3>1, <3>2, <3>6
    <3>7. CASE s = o.side /\ p # o.price BY <2>8, <2>9, <3>1, <3>2, <3>7
    <3>8. CASE s = o.side /\ p = o.price
      <4>1. At(left, p) <= At(tree, p) BY <2>8, <3>3, <3>5, <3>8
      <4>2. At(left, p) \in Nat BY <2>8, AtType
      <4> HIDE DEF left
      <4> QED BY <2>9, <3>1, <3>2, <3>3, <3>4, <3>8, <4>1, <4>2
    <3> QED BY <3>6, <3>7, <3>8
  <2> QED BY <1>2, <2>2, <2>5, <2>6, <2>9, <2>10
<1> QED BY <1>1, <1>2

\* A message that takes a quantity off an order, on both sides: what is left of
\* it is still mirrored, and the book still agrees with the market.
LEMMA ReduceEffect ==
  ASSUME IInv, NEW k \in DOMAIN live, NEW o, NEW qty, Apply(k, o, qty), UNCHANGED <<venue, exact, used, maps>>,
         Known(k[1], k[2]) =>
            /\ o \in OrderRec /\ qty \in QtyRange
            /\ o.order_id = OrderOf(k).order_id /\ o.side = OrderOf(k).side /\ o.venue = OrderOf(k).venue
            /\ o.price = OrderOf(k).price,
         NEW less \in Qty, less <= live[k].qty, ExchangeType',
         \/ DOMAIN live' = DOMAIN live \ {k} /\ less = live[k].qty
         \/ /\ DOMAIN live' = DOMAIN live /\ live'[k].price = live[k].price /\ live'[k].qty = live[k].qty - less
            /\ exact /\ Owned /\ Known(k[1], k[2]) => o.remaining_quantity = live[k].qty - less,
         \A x \in DOMAIN live : x # k => live'[x] = live[x],
         exact /\ Owned /\ Known(k[1], k[2]) => qty = less
  PROVE  IInv'
<1>0. /\ market_next_slot' = market_next_slot /\ market_map_full' = market_map_full
      /\ market_orders_' = market_orders_ /\ nq_itch_refnum_ordkey_' = nq_itch_refnum_ordkey_
      /\ venue' = venue /\ used' = used /\ exact' = exact
      BY DEF maps
<1>1. /\ StoreType' /\ BookType' /\ BestMatchesBook' /\ SlotInv' /\ BoundInv'
      /\ Known(k[1], k[2]) =>
            /\ bid_ask_trees_'[o.side] = Taken(bid_ask_trees_[o.side], o.price, qty)
            /\ \A s \in Side : s # o.side => bid_ask_trees_'[s] = bid_ask_trees_[s]
            /\ order_pool_' = [order_pool_ EXCEPT ![SlotOf(k[1], k[2])] = o]
      /\ ~Known(k[1], k[2]) => UNCHANGED <<order_pool_, bid_ask_trees_>>
      BY <1>0, ApplyEffect, KnownOrder
<1>2. Owned' <=> Owned BY <1>0 DEF Owned
<1>3. DOMAIN live' \subseteq DOMAIN live OBVIOUS
<1>4. MirrorInv'
  <2> SUFFICES ASSUME exact, NEW j \in DOMAIN live'
               PROVE  Found(j)' /\ Same(j)'
      BY <1>0 DEF MirrorInv
  <2>1. j \in DOMAIN live /\ Found(j) /\ Same(j) BY <1>3 DEF IInv, MirrorInv
  <2>2. Found(j)' BY <1>0, <2>1 DEF Found, OrderKey
  <2>3. ASSUME Owned, OrderKey(j[1], j[2]) \in DOMAIN market_orders_
        PROVE  LET q == order_pool_'[market_orders_[OrderKey(j[1], j[2])]]
               IN q.price = live'[j].price /\ q.remaining_quantity = live'[j].qty
    <3> DEFINE slot == market_orders_[OrderKey(j[1], j[2])]
    <3>1. order_pool_[slot].price = live[j].price /\ order_pool_[slot].remaining_quantity = live[j].qty
          BY <2>1, <2>3 DEF Same
    <3>2. CASE ~Known(k[1], k[2])
      <4>1. j # k
        <5>1. SUFFICES ASSUME j = k PROVE FALSE OBVIOUS
        <5>2. CASE venue = "BIST" BY <2>3, <3>2, <5>1, <5>2 DEF Known, Key
        <5>3. CASE venue # "BIST"
          <6>1. venue = "NASDAQ" /\ ~market_map_full BY <2>3, <5>3 DEF Owned, IInv, ExchangeType
          <6> QED BY <2>1, <2>3, <3>2, <5>1, <6>1 DEF Known, Key, Found
        <5> QED BY <5>2, <5>3
      <4> QED BY <1>1, <2>1, <3>1, <3>2, <4>1
    <3>3. CASE Known(k[1], k[2])
      <4>1. /\ SlotOf(k[1], k[2]) \in Slots /\ OrderOf(k) = order_pool_[SlotOf(k[1], k[2])]
            /\ OrderOf(k).order_id = k[1] /\ OrderOf(k).side = k[2]
            /\ OrderOf(k).price = live[k].price /\ Key(k[1], k[2]) = OrderKey(k[1], k[2])
            BY <2>3, <3>3, KnownOrder, KnownMirror
      <4>2. slot \in Slots BY <2>3 DEF IInv, StoreType
      <4>3. order_pool_'[slot] = IF slot = SlotOf(k[1], k[2]) THEN o ELSE order_pool_[slot]
            BY <1>1, <3>3, <4>2 DEF IInv, StoreType
      <4>4. CASE slot = SlotOf(k[1], k[2])
        <5>1. order_pool_[slot].order_id = j[1] /\ order_pool_[slot].side = j[2]
              BY <2>3 DEF IInv, SlotInv, OrderKey
        <5>2. j = k
          <6>1. j[1] = k[1] /\ j[2] = k[2] BY <4>1, <4>4, <5>1
          <6> QED BY <2>1, <6>1, LiveKey DEF IInv
        <5>3. DOMAIN live' # DOMAIN live \ {k} BY <5>2
        <5> QED BY <2>3, <3>3, <4>1, <4>3, <4>4, <5>2, <5>3
      <4>5. CASE slot # SlotOf(k[1], k[2])
        <5>1. j # k BY <4>1, <4>5 DEF SlotOf
        <5> QED BY <2>1, <3>1, <4>3, <4>5, <5>1
      <4> QED BY <4>4, <4>5
    <3> QED BY <3>2, <3>3
  <2>4. Same(j)' BY <1>0, <1>2, <2>3 DEF Same, OrderKey
  <2> QED BY <2>2, <2>4
<1>5. BookMatchesMarket'
  <2> SUFFICES ASSUME exact, NEW s \in Side, NEW p \in Prices
               PROVE  /\ ~market_map_full => Depth(s, p)' = Displayed(s, p)'
                      /\ venue = "BIST" => Depth(s, p)' >= Displayed(s, p)'
      BY <1>0 DEF BookMatchesMarket
  <2> DEFINE d == At(bid_ask_trees_[s], p)
             dd == At(bid_ask_trees_'[s], p)
             e == DisplayedIn(live, s, p)
             ee == DisplayedIn(live', s, p)
             share == Share(k, live[k].price, less, s, p)
  <2>1. Depth(s, p)' = dd /\ Displayed(s, p)' = ee
        BY DEF Depth, At, Displayed, DisplayedIn, AtPrice, LevelIn
  <2>2. Displays(live) /\ Displays(live')
    <3>1. IsFiniteSet(DOMAIN live') BY FS_Subset DEF ExchangeType
    <3> QED BY <3>1, LiveDisplays DEF IInv, Displays, ExchangeType
  <2>3. less \in Nat /\ live[k].qty \in Nat BY LiveKey, Constants DEF Qty, IInv
  <2>4. ee = e - share /\ e >= Share(k, live[k].price, live[k].qty, s, p)
        BY <2>2, <2>3, DisplayedLess
  <2>5. e \in Nat /\ share \in Nat /\ d \in Nat /\ e >= share
    <3>1. e \in Nat BY <2>2, DisplayedNat
    <3>2. d \in Nat BY AtType DEF IInv, BookType
    <3>3. share \in Nat /\ share <= Share(k, live[k].price, live[k].qty, s, p)
          BY <2>3 DEF Share
    <3>4. Share(k, live[k].price, live[k].qty, s, p) \in Nat BY <2>3 DEF Share
    <3> HIDE DEF e, share, d
    <3> QED BY <2>4, <3>1, <3>2, <3>3, <3>4
  <2>6. (~market_map_full => d = e) /\ (venue = "BIST" => d >= e)
        BY DepthIsAt, DisplayedIsIn DEF IInv, BookMatchesMarket
  <2>7. ~market_map_full => Known(k[1], k[2])
        BY DEF IInv, MirrorInv, Found, Known, Key, ExchangeType
  <2>8. CASE ~Known(k[1], k[2])
    <3>1. dd = d BY <1>1, <2>8
    <3> HIDE DEF d, dd, e, ee, share
    <3> QED BY <2>1, <2>4, <2>5, <2>6, <2>7, <2>8, <3>1
  <2>9. CASE Known(k[1], k[2]) /\ Owned
    <3>1. /\ o.side = k[2] /\ o.price = live[k].price /\ qty = less
          BY <2>9, KnownMirror
    <3>2. o.side \in Side /\ o.price \in Prices /\ qty \in QtyRange BY <2>9, KnownOrder
    <3>3. Tree(bid_ask_trees_[o.side]) BY <3>2 DEF IInv, BookType
    <3>4. /\ \A x : x # o.price => At(Taken(bid_ask_trees_[o.side], o.price, qty), x) = At(bid_ask_trees_[o.side], x)
          /\ At(Taken(bid_ask_trees_[o.side], o.price, qty), o.price) =
                 IF At(bid_ask_trees_[o.side], o.price) <= qty THEN 0 ELSE At(bid_ask_trees_[o.side], o.price) - qty
          BY <3>2, <3>3, TakenEffect
    <3>5. CASE s = k[2] /\ p = live[k].price
      <4>1. share = less BY <3>5 DEF Share
      <4>2. dd = IF d <= less THEN 0 ELSE d - less BY <1>1, <2>9, <3>1, <3>4, <3>5
      <4> HIDE DEF d, dd, e, ee, share
      <4> QED BY <2>1, <2>3, <2>4, <2>5, <2>6, <4>1, <4>2
    <3>6. CASE ~(s = k[2] /\ p = live[k].price)
      <4>1. share = 0 BY <3>6 DEF Share
      <4>2. dd = d BY <1>1, <2>9, <3>1, <3>4, <3>6
      <4> HIDE DEF d, dd, e, ee, share
      <4> QED BY <2>1, <2>4, <2>5, <2>6, <4>1, <4>2
    <3> QED BY <3>5, <3>6
  <2>10. CASE ~Owned BY <2>10 DEF Owned
  <2> QED BY <2>8, <2>9, <2>10
<1> QED BY <1>1, <1>4, <1>5 DEF IInv

\* What the exchange has left of an order.
LEMMA LiveLessEffect ==
  ASSUME ExchangeType, NEW k \in DOMAIN live, NEW qty \in Qty, qty <= live[k].qty, NEW filled \in Nat,
         live' = LiveLess(k, qty, filled), UNCHANGED <<venue, used>>, exact' \in BOOLEAN
  PROVE  /\ ExchangeType'
         /\ \/ DOMAIN live' = DOMAIN live \ {k} /\ qty = live[k].qty
            \/ DOMAIN live' = DOMAIN live /\ live'[k].price = live[k].price /\ live'[k].qty = live[k].qty - qty
         /\ \A x \in DOMAIN live : x # k => live'[x] = live[x]
<1>0. live \in [DOMAIN live -> LiveRec] /\ live[k] \in LiveRec BY DEF ExchangeType
<1>1. CASE live[k].qty = qty
  <2>1. live' = Without(live, k) BY <1>1 DEF LiveLess
  <2>2. /\ live' \in [DOMAIN live \ {k} -> LiveRec] /\ DOMAIN live' = DOMAIN live \ {k}
        /\ \A x \in DOMAIN live : x # k => live'[x] = live[x]
        BY <1>0, <2>1 DEF Without, Restrict
  <2>3. ExchangeType' BY <2>2 DEF ExchangeType
  <2> QED BY <1>1, <2>2, <2>3
<1>2. CASE live[k].qty # qty
  <2> DEFINE r == [price |-> live[k].price, qty |-> live[k].qty - qty, filled |-> live[k].filled + filled]
  <2>1. live' = [live EXCEPT ![k].qty = @ - qty, ![k].filled = @ + filled] BY <1>2 DEF LiveLess
  <2>2. live[k].qty \in 1..MaxQty /\ qty \in 1..MaxQty BY <1>0 DEF LiveRec, Qty
  <2>3. live[k].qty - qty \in 1..MaxQty BY <1>2, <2>2, Constants
  <2>4. live[k].filled + filled \in Nat BY <1>0 DEF LiveRec
  <2>5. /\ DOMAIN live' = DOMAIN live /\ \A x \in DOMAIN live : x # k => live'[x] = live[x]
        /\ live'[k].price = live[k].price /\ live'[k].qty = live[k].qty - qty
        BY <1>0, <2>1 DEF LiveRec
  <2>6. live'[k] \in LiveRec BY <1>0, <2>1, <2>3, <2>4 DEF LiveRec, Qty
  <2>7. live' \in [DOMAIN live' -> LiveRec] BY <1>0, <2>1, <2>5, <2>6
  <2>8. ExchangeType' BY <2>5, <2>7 DEF ExchangeType
  <2> QED BY <2>5, <2>8
<1> QED BY <1>1, <1>2

LEMMA QtyIsRange == \A qty \in Qty : qty \in QtyRange /\ qty \in Nat
  BY Constants DEF Qty, QtyRange

\* Quantities are taken off modulo 2^32: exactly, if there is as much.
LEMMA SubEffect == \A a, b \in QtyRange : Sub(a, b) \in QtyRange /\ (b <= a => Sub(a, b) = a - b)
<1> SUFFICES ASSUME NEW a \in QtyRange, NEW b \in QtyRange
             PROVE  Sub(a, b) \in QtyRange /\ (b <= a => Sub(a, b) = a - b)
    OBVIOUS
<1>1. a \in Nat /\ b \in Nat /\ a < QtyMod /\ a - b \in Int BY Constants DEF QtyRange
<1>2. (a - b) % QtyMod \in QtyRange BY <1>1, ModRange
<1>3. ASSUME b <= a PROVE (a - b) % QtyMod = a - b
  <2>1. a - b \in Nat /\ a - b < QtyMod BY <1>1, <1>3, Constants
  <2> QED BY <2>1, ModSmall
<1> QED BY <1>2, <1>3 DEF Sub

LEMMA FilledOrder ==
  ASSUME NEW r \in OrderRec, NEW qty \in Qty
  PROVE  LET o == fill_itch_exec_report(r, qty)
         IN /\ o \in OrderRec /\ o.order_id = r.order_id /\ o.side = r.side /\ o.venue = r.venue
            /\ o.price = r.price /\ o.remaining_quantity = Sub(r.remaining_quantity, qty)
<1>1. r.remaining_quantity \in QtyRange /\ r.filled_quantity \in QtyRange BY DEF OrderRec
<1>2. Sub(r.remaining_quantity, qty) \in QtyRange BY <1>1, QtyIsRange, SubEffect
<1>3. r.filled_quantity + qty \in Int BY <1>1, QtyIsRange, Constants DEF QtyRange
<1>4. (r.filled_quantity + qty) % QtyMod \in QtyRange BY <1>3, ModRange
<1> QED BY <1>2, <1>4 DEF fill_itch_exec_report, OrderRec

LEMMA ExecNext == ASSUME IInv, NEW k \in DOMAIN live, NEW qty \in Qty, Exec(k, qty) PROVE IInv'
<1> DEFINE o == fill_itch_exec_report(OrderOf(k), qty)
<1>1. /\ qty <= live[k].qty /\ live' = LiveLess(k, qty, qty) /\ Apply(k, o, qty)
      /\ UNCHANGED <<venue, exact, used, maps>>
      BY DEF Exec
<1>2. ExchangeType /\ exact' \in BOOLEAN /\ qty \in Nat BY <1>1, QtyIsRange DEF IInv, ExchangeType
<1>3. /\ ExchangeType'
      /\ \/ DOMAIN live' = DOMAIN live \ {k} /\ qty = live[k].qty
         \/ DOMAIN live' = DOMAIN live /\ live'[k].price = live[k].price /\ live'[k].qty = live[k].qty - qty
      /\ \A x \in DOMAIN live : x # k => live'[x] = live[x]
      BY <1>1, <1>2, LiveLessEffect
<1>4. ASSUME Known(k[1], k[2])
      PROVE  /\ o \in OrderRec /\ qty \in QtyRange
             /\ o.order_id = OrderOf(k).order_id /\ o.side = OrderOf(k).side /\ o.venue = OrderOf(k).venue
             /\ o.price = OrderOf(k).price /\ o.remaining_quantity = Sub(OrderOf(k).remaining_quantity, qty)
  <2>1. OrderOf(k) \in OrderRec BY <1>4, KnownOrder
  <2> QED BY <2>1, FilledOrder, QtyIsRange
<1>5. ASSUME exact, Owned, Known(k[1], k[2]) PROVE o.remaining_quantity = live[k].qty - qty
  <2>1. OrderOf(k).remaining_quantity = live[k].qty BY <1>5, KnownMirror
  <2>2. live[k].qty \in QtyRange /\ qty \in QtyRange BY LiveKey, QtyIsRange DEF IInv
  <2> QED BY <1>1, <1>4, <1>5, <2>1, <2>2, SubEffect
<1> HIDE DEF o
<1> QED BY <1>1, <1>3, <1>4, <1>5, ReduceEffect

LEMMA CancelNext == ASSUME IInv, NEW k \in DOMAIN live, NEW qty \in Qty, Cancel(k, qty) PROVE IInv'
<1> DEFINE o == [OrderOf(k) EXCEPT !.remaining_quantity = Sub(@, qty)]
<1>1. /\ qty < live[k].qty /\ live' = LiveLess(k, qty, 0) /\ Apply(k, o, qty)
      /\ UNCHANGED <<venue, exact, used, maps>>
      BY DEF Cancel
<1>2. ExchangeType /\ exact' \in BOOLEAN /\ qty \in Nat BY <1>1, QtyIsRange DEF IInv, ExchangeType
<1>6. qty <= live[k].qty
  <2>1. live[k].qty \in Nat BY <1>2, LiveKey, QtyIsRange
  <2> QED BY <1>1, <1>2, <2>1
<1>3. /\ ExchangeType'
      /\ \/ DOMAIN live' = DOMAIN live \ {k} /\ qty = live[k].qty
         \/ DOMAIN live' = DOMAIN live /\ live'[k].price = live[k].price /\ live'[k].qty = live[k].qty - qty
      /\ \A x \in DOMAIN live : x # k => live'[x] = live[x]
      BY <1>1, <1>2, <1>6, LiveLessEffect
<1>4. ASSUME Known(k[1], k[2])
      PROVE  /\ o \in OrderRec /\ qty \in QtyRange
             /\ o.order_id = OrderOf(k).order_id /\ o.side = OrderOf(k).side /\ o.venue = OrderOf(k).venue
             /\ o.price = OrderOf(k).price /\ o.remaining_quantity = Sub(OrderOf(k).remaining_quantity, qty)
  <2>1. OrderOf(k) \in OrderRec BY <1>4, KnownOrder
  <2>2. OrderOf(k).remaining_quantity \in QtyRange BY <2>1 DEF OrderRec
  <2>3. Sub(OrderOf(k).remaining_quantity, qty) \in QtyRange BY <2>2, QtyIsRange, SubEffect
  <2> QED BY <2>1, <2>3, QtyIsRange DEF OrderRec
<1>5. ASSUME exact, Owned, Known(k[1], k[2]) PROVE o.remaining_quantity = live[k].qty - qty
  <2>1. OrderOf(k).remaining_quantity = live[k].qty BY <1>5, KnownMirror
  <2>2. live[k].qty \in QtyRange /\ qty \in QtyRange BY LiveKey, QtyIsRange DEF IInv
  <2> QED BY <1>4, <1>5, <1>6, <2>1, <2>2, SubEffect
<1> HIDE DEF o
<1> QED BY <1>1, <1>3, <1>4, <1>5, <1>6, ReduceEffect

LEMMA DeleteNext == ASSUME IInv, NEW k \in DOMAIN live, Delete(k) PROVE IInv'
<1> DEFINE o == OrderOf(k)
           less == live[k].qty
<1>1. /\ live' = Without(live, k) /\ Apply(k, o, o.remaining_quantity)
      /\ UNCHANGED <<venue, exact, used, maps>>
      BY DEF Delete
<1>2. less \in Qty /\ less <= live[k].qty
  <2>1. less \in Qty BY LiveKey DEF IInv
  <2>2. less \in Nat BY <2>1, QtyIsRange
  <2> QED BY <2>1, <2>2
<1>3. /\ ExchangeType' /\ DOMAIN live' = DOMAIN live \ {k} /\ \A x \in DOMAIN live : x # k => live'[x] = live[x]
      BY <1>1 DEF IInv, ExchangeType, Without, Restrict
<1>4. ASSUME Known(k[1], k[2]) PROVE o \in OrderRec /\ o.remaining_quantity \in QtyRange
      BY <1>4, KnownOrder DEF OrderRec
<1>5. ASSUME exact, Owned, Known(k[1], k[2]) PROVE o.remaining_quantity = less
      BY <1>5, KnownMirror
<1> HIDE DEF less
<1>6. less = live[k].qty BY DEF less
<1> QED BY <1>1, <1>2, <1>3, <1>4, <1>5, <1>6, ReduceEffect

LEMMA ExecWithPriceNext ==
  ASSUME IInv, NEW k \in DOMAIN live, NEW qty \in Qty, NEW price \in Prices, ExecWithPrice(k, qty, price)
  PROVE  IInv'
<1> DEFINE f == fill_itch_exec_report(OrderOf(k), qty)
           o == [f EXCEPT !.price = price]
<1>1. /\ qty <= live[k].qty /\ live' = LiveLess(k, qty, qty) /\ Apply(k, o, qty)
      /\ UNCHANGED <<venue, used, maps>> /\ exact' = FALSE
      BY DEF ExecWithPrice
<1>2. ExchangeType /\ exact' \in BOOLEAN /\ qty \in Nat BY <1>1, QtyIsRange DEF IInv, ExchangeType
<1>3. ExchangeType' BY <1>1, <1>2, LiveLessEffect
<1>4. ASSUME Known(k[1], k[2])
      PROVE  /\ o \in OrderRec /\ qty \in QtyRange /\ o.price \in Prices
             /\ o.order_id = OrderOf(k).order_id /\ o.side = OrderOf(k).side /\ o.venue = OrderOf(k).venue
  <2>1. OrderOf(k) \in OrderRec BY <1>4, KnownOrder
  <2>2. /\ f \in OrderRec /\ f.order_id = OrderOf(k).order_id /\ f.side = OrderOf(k).side
        /\ f.venue = OrderOf(k).venue
        BY <2>1, FilledOrder
  <2> HIDE DEF f
  <2> QED BY <2>2, QtyIsRange DEF OrderRec
<1> HIDE DEF o
<1>5. StoreType' /\ BookType' /\ BestMatchesBook' /\ SlotInv' /\ BoundInv'
      BY <1>1, <1>4, ApplyEffect
<1>6. MirrorInv' /\ BookMatchesMarket' BY <1>1 DEF MirrorInv, BookMatchesMarket
<1> QED BY <1>3, <1>5, <1>6 DEF IInv

-----------------------------------------------------------------------------
(* New orders *)

\* An order of the exchange is new: its id was not given out, on either side
\* for NASDAQ, and all levels have room for it.
LEMMA FreshEffect ==
  ASSUME IInv, NEW id \in Ids, NEW side \in Side, Fresh(id, side), used' = used \cup {<<id, side>>}
  PROVE  /\ <<id, side>> \notin used /\ used' \subseteq Ids \X Side /\ IsFiniteSet(used')
         /\ Cardinality(used) \in Nat /\ Cardinality(used') = Cardinality(used) + 1
         /\ Cardinality(used') * MaxQty = Cardinality(used) * MaxQty + MaxQty
         /\ Cardinality(used) * MaxQty \in Nat
         /\ Cardinality(used) * MaxQty + MaxQty < QtyMod
         /\ venue = "NASDAQ" => \A k \in used : k[1] # id
<1>1. <<id, side>> \notin used /\ (venue = "NASDAQ" => \A s \in Side : <<id, s>> \notin used)
      BY DEF Fresh, GivenOut, IInv, ExchangeType
<1>2. used \subseteq Ids \X Side /\ IsFiniteSet(used) BY DEF IInv, ExchangeType
<1>3. IsFiniteSet(used') /\ Cardinality(used') = Cardinality(used) + 1 BY <1>1, <1>2, FS_AddElement
<1>4. Cardinality(used) \in Nat BY <1>2, FS_CardinalityType
<1> DEFINE c == Cardinality(used)
<1>5. c < MaxOrders BY DEF Fresh
<1> HIDE DEF c
<1>6. c \in Nat BY <1>4 DEF c
<1>7. (c + 1) * MaxQty = c * MaxQty + MaxQty /\ c * MaxQty \in Nat BY <1>6, Constants
<1>8. c * MaxQty + MaxQty <= MaxOrders * MaxQty
  <2>1. CASE MaxQty = 0 BY <1>6, <2>1, Constants
  <2>2. CASE MaxQty > 0
    <3>1. MaxOrders >= c + 1 BY <1>5, <1>6, Constants
    <3>2. MaxQty * MaxOrders >= MaxQty * c + MaxQty BY <1>6, <2>2, <3>1, Constants, MulMono
    <3>3. MaxQty * MaxOrders = MaxOrders * MaxQty /\ MaxQty * c = c * MaxQty BY <1>6, Constants
    <3>4. MaxQty * MaxOrders \in Int /\ MaxQty * c \in Int BY <1>6, Constants
    <3> QED BY <3>2, <3>3, <3>4, Constants
  <2> QED BY <2>1, <2>2, Constants
<1>9. c * MaxQty + MaxQty < QtyMod
  <2>1. MaxOrders * MaxQty \in Int BY Constants
  <2>2. MaxOrders * MaxQty < QtyMod BY LevelAssumption
  <2> QED BY <1>7, <1>8, <2>1, <2>2, Constants
<1>10. venue = "NASDAQ" => \A k \in used : k[1] # id BY <1>1, <1>2
<1>11. used' \subseteq Ids \X Side BY <1>2
<1> QED BY <1>1, <1>3, <1>4, <1>7, <1>9, <1>10, <1>11 DEF c

\* What add_market_order does: the slot it takes is in the pool, and no key
\* that stays leads there, unless the keys are already left behind.
LEMMA SlotTaken ==
  ASSUME IInv, NEW key \in Keys, NEW side \in Side, NEW price \in Prices, NEW qty \in Qty,
         add_market_order(key, side, price, qty)
  PROVE  /\ NextSlot \in Slots /\ market_next_slot' = NextSlot + 1
         /\ market_map_full' \in BOOLEAN /\ (~market_map_full' => ~market_map_full /\ NextSlot = market_next_slot)
         /\ order_pool_' \in [Slots -> OrderRec] /\ \A x \in Slots : x # NextSlot => order_pool_'[x] = order_pool_[x]
         /\ order_pool_'[NextSlot].order_id = key[1] /\ order_pool_'[NextSlot].side = side
         /\ order_pool_'[NextSlot].venue = venue /\ order_pool_'[NextSlot].price = price
         /\ order_pool_'[NextSlot].remaining_quantity = qty
         /\ market_orders_' \in [DOMAIN market_orders_' -> Slots]
         /\ key \in DOMAIN market_orders_' /\ market_orders_'[key] = NextSlot
         /\ \A x \in DOMAIN market_orders_' : x # key => x \in DOMAIN market_orders_ /\ market_orders_'[x] = market_orders_[x]
         /\ ~market_map_full' => \A x \in DOMAIN market_orders_ : x \in DOMAIN market_orders_'
         /\ venue = "BIST" \/ (exact /\ ~market_map_full') =>
               \A x \in DOMAIN market_orders_' : x # key => market_orders_[x] # NextSlot
<1> DEFINE slot == NextSlot
           full == market_map_full'
           kept == Evicted(slot, full)
<1>0. StoreType /\ ExchangeType BY DEF IInv
<1>1. slot \in Slots /\ (~full => ~market_map_full /\ slot = market_next_slot)
  <2>1. full = (market_map_full \/ market_next_slot >= MARKETORDER_LAST_INDEX)
        BY DEF add_market_order
  <2>2. market_next_slot \in 0..MARKETORDER_LAST_INDEX BY <1>0 DEF StoreType
  <2>3. CASE market_next_slot >= MARKETORDER_LAST_INDEX
    <3>1. full BY <2>1, <2>3
    <3>2. slot = 0 BY <2>3 DEF NextSlot
    <3>3. 0 \in 0..MARKETORDER_LAST_INDEX - 1 BY Constants
    <3> QED BY <3>1, <3>2, <3>3 DEF Slots
  <2>4. CASE ~(market_next_slot >= MARKETORDER_LAST_INDEX)
    <3>1. ~full => ~market_map_full BY <2>1, <2>4
    <3>2. slot = market_next_slot BY <2>4 DEF NextSlot
    <3>3. market_next_slot \in 0..MARKETORDER_LAST_INDEX - 1 BY <2>2, <2>4, Constants
    <3> QED BY <3>1, <3>2, <3>3 DEF Slots
  <2> QED BY <2>3, <2>4
<1>2. market_next_slot' = slot + 1 /\ market_map_full' \in BOOLEAN /\ market_orders_' = With(kept, key, slot)
      BY <1>0 DEF add_market_order, StoreType
<1>3. order_pool_' = [order_pool_ EXCEPT ![slot] = [@ EXCEPT !.order_id = key[1], !.side = side, !.venue = venue,
                                                      !.price = price, !.remaining_quantity = qty]]
      BY DEF add_market_order
<1>4. key[1] \in Ids /\ qty \in QtyRange /\ venue \in {"BIST", "NASDAQ"}
      BY <1>0, QtyIsRange DEF Keys, ExchangeType
<1>5. order_pool_ \in [Slots -> OrderRec] /\ order_pool_[slot] \in OrderRec BY <1>0, <1>1 DEF StoreType
<1> HIDE DEF slot
<1>6. order_pool_' \in [Slots -> OrderRec] /\ \A x \in Slots : x # slot => order_pool_'[x] = order_pool_[x]
  <2> DEFINE r == [order_pool_[slot] EXCEPT !.order_id = key[1], !.side = side, !.venue = venue,
                                            !.price = price, !.remaining_quantity = qty]
  <2>1. r \in OrderRec BY <1>4, <1>5 DEF OrderRec
  <2>2. order_pool_' = [order_pool_ EXCEPT ![slot] = r] BY <1>3
  <2> HIDE DEF r
  <2> QED BY <1>1, <1>5, <2>1, <2>2
<1>7. /\ order_pool_'[slot].order_id = key[1] /\ order_pool_'[slot].side = side
      /\ order_pool_'[slot].venue = venue /\ order_pool_'[slot].price = price
      /\ order_pool_'[slot].remaining_quantity = qty
      BY <1>1, <1>3, <1>5 DEF OrderRec
<1>8. market_orders_ \in [DOMAIN market_orders_ -> Slots] BY <1>0 DEF StoreType
<1>9. /\ kept \in [DOMAIN kept -> Slots] /\ DOMAIN kept \subseteq DOMAIN market_orders_
      /\ \A x \in DOMAIN kept : kept[x] = market_orders_[x]
      /\ ~full => kept = market_orders_
      /\ full => SlotKey(order_pool_[slot]) \notin DOMAIN kept
      BY <1>8 DEF Evicted, Without, Restrict
<1> HIDE DEF kept, full
<1>10. /\ market_orders_' \in [DOMAIN market_orders_' -> Slots] /\ DOMAIN market_orders_' = DOMAIN kept \cup {key}
       /\ market_orders_'[key] = slot /\ \A x \in DOMAIN kept : x # key => market_orders_'[x] = kept[x]
       BY <1>1, <1>2, <1>9 DEF With
<1>11. ASSUME venue = "BIST" \/ (exact /\ ~full), NEW x \in DOMAIN market_orders_', x # key, market_orders_[x] = slot
       PROVE  FALSE
  <2>1. x \in DOMAIN kept /\ x \in DOMAIN market_orders_ BY <1>9, <1>10, <1>11
  <2>2. CASE ~full
    <3>1. market_orders_[x] < market_next_slot BY <1>1, <2>1, <2>2 DEF IInv, SlotInv
    <3>2. market_next_slot \in Int BY <1>0, Constants DEF StoreType
    <3> QED BY <1>1, <1>11, <2>2, <3>1, <3>2
  <2>3. CASE full /\ venue = "BIST"
    <3>1. /\ order_pool_[slot].order_id = x[1] /\ order_pool_[slot].side = x[2]
          /\ order_pool_[slot].venue = "BIST"
          BY <1>11, <2>1, <2>3 DEF IInv, SlotInv, Owned
    <3>2. x = <<x[1], x[2], "BIST">> BY <1>0, <2>1 DEF StoreType, Keys
    <3>3. SlotKey(order_pool_[slot]) = x BY <3>1, <3>2 DEF SlotKey
    <3> QED BY <1>9, <2>1, <2>3, <3>3
  <2> QED BY <1>11, <2>2, <2>3
<1>12. \A x \in DOMAIN market_orders_' : x # key => x \in DOMAIN market_orders_ /\ market_orders_'[x] = market_orders_[x]
       BY <1>9, <1>10
<1>13. ~full => \A x \in DOMAIN market_orders_ : x \in DOMAIN market_orders_' BY <1>9, <1>10
<1>14. venue = "BIST" \/ (exact /\ ~full) => \A x \in DOMAIN market_orders_' : x # key => market_orders_[x] # slot
       BY <1>11
<1> QED BY <1>1, <1>2, <1>6, <1>7, <1>10, <1>12, <1>13, <1>14 DEF slot, full

LEMMA AddNext ==
  ASSUME IInv, NEW id \in Ids, NEW side \in Side, NEW price \in Prices, NEW qty \in Qty, Add(id, side, price, qty)
  PROVE  IInv'
<1> DEFINE k == <<id, side>>
           key == OrderKey(id, side)
           slot == NextSlot
           tree == bid_ask_trees_[side]
<1>0. ExchangeType /\ StoreType /\ BookType /\ BestMatchesBook BY DEF IInv
<1>1. /\ Fresh(id, side) /\ used' = used \cup {k} /\ venue' = venue /\ exact' = exact
      /\ live' = With(live, k, [price |-> price, qty |-> qty, filled |-> 0])
      /\ add_market_order(key, side, price, qty)
      /\ nq_itch_refnum_ordkey_' = IF venue = "BIST" THEN nq_itch_refnum_ordkey_
                                   ELSE With(nq_itch_refnum_ordkey_, id, key)
      /\ add_order([side |-> side, price |-> price], qty)
      BY DEF Add
<1>2. key \in Keys /\ key[1] = id /\ key[2] = side /\ k[1] = id /\ k[2] = side BY DEF Keys, OrderKey
<1>3. /\ k \notin used /\ used' \subseteq Ids \X Side /\ IsFiniteSet(used')
      /\ Cardinality(used') * MaxQty = Cardinality(used) * MaxQty + MaxQty
      /\ Cardinality(used) * MaxQty \in Nat
      /\ Cardinality(used) * MaxQty + MaxQty < QtyMod
      /\ venue = "NASDAQ" => \A x \in used : x[1] # id
      BY <1>1, FreshEffect
<1>4. /\ slot \in Slots /\ market_next_slot' = slot + 1
      /\ market_map_full' \in BOOLEAN /\ (~market_map_full' => ~market_map_full /\ slot = market_next_slot)
      /\ order_pool_' \in [Slots -> OrderRec] /\ \A x \in Slots : x # slot => order_pool_'[x] = order_pool_[x]
      /\ order_pool_'[slot].order_id = id /\ order_pool_'[slot].side = side
      /\ order_pool_'[slot].venue = venue /\ order_pool_'[slot].price = price
      /\ order_pool_'[slot].remaining_quantity = qty
      /\ market_orders_' \in [DOMAIN market_orders_' -> Slots]
      /\ key \in DOMAIN market_orders_' /\ market_orders_'[key] = slot
      /\ \A x \in DOMAIN market_orders_' : x # key => x \in DOMAIN market_orders_ /\ market_orders_'[x] = market_orders_[x]
      /\ ~market_map_full' => \A x \in DOMAIN market_orders_ : x \in DOMAIN market_orders_'
      /\ venue = "BIST" \/ (exact /\ ~market_map_full') =>
            \A x \in DOMAIN market_orders_' : x # key => market_orders_[x] # slot
      BY <1>1, <1>2, SlotTaken
<1> HIDE DEF key, slot
<1>5. /\ live' \in [DOMAIN live' -> LiveRec] /\ DOMAIN live' = DOMAIN live \cup {k}
      /\ live'[k].price = price /\ live'[k].qty = qty /\ k \notin DOMAIN live
      /\ \A x \in DOMAIN live : live'[x] = live[x]
  <2>1. k \notin DOMAIN live BY <1>0, <1>3 DEF ExchangeType
  <2>2. [price |-> price, qty |-> qty, filled |-> 0] \in LiveRec BY DEF LiveRec
  <2> QED BY <1>0, <1>1, <2>1, <2>2 DEF ExchangeType, With
<1>6. ExchangeType' BY <1>0, <1>1, <1>3, <1>5 DEF ExchangeType
<1>7. /\ nq_itch_refnum_ordkey_' \in [DOMAIN nq_itch_refnum_ordkey_' -> Keys]
      /\ DOMAIN nq_itch_refnum_ordkey_' \subseteq Ids
      /\ venue # "BIST" => /\ id \in DOMAIN nq_itch_refnum_ordkey_' /\ nq_itch_refnum_ordkey_'[id] = key
                           /\ \A x \in DOMAIN nq_itch_refnum_ordkey_ :
                                 x # id => /\ x \in DOMAIN nq_itch_refnum_ordkey_'
                                           /\ nq_itch_refnum_ordkey_'[x] = nq_itch_refnum_ordkey_[x]
      BY <1>0, <1>1, <1>2 DEF StoreType, With
<1>8. StoreType'
  <2>1. market_next_slot' \in 0..MARKETORDER_LAST_INDEX BY <1>4, Constants DEF Slots
  <2>2. DOMAIN market_orders_' \subseteq Keys BY <1>0, <1>2, <1>4 DEF StoreType
  <2> QED BY <1>4, <1>7, <2>1, <2>2 DEF StoreType
<1>9. SlotInv'
  <2> SUFFICES ASSUME NEW x \in DOMAIN market_orders_'
               PROVE  LET o == order_pool_'[market_orders_'[x]]
                      IN /\ o.side \in Side /\ o.price \in Prices
                         /\ ~market_map_full' => market_orders_'[x] < market_next_slot'
                         /\ Owned' => o.order_id = x[1] /\ o.side = x[2]
                         /\ venue' = "BIST" => o.venue = "BIST"
      BY DEF SlotInv
  <2>0. slot \in Int /\ slot < slot + 1 BY <1>4, Constants DEF Slots
  <2>1. CASE x = key BY <1>1, <1>2, <1>4, <2>0, <2>1
  <2>2. CASE x # key
    <3>1. x \in DOMAIN market_orders_ /\ market_orders_'[x] = market_orders_[x] /\ market_orders_[x] \in Slots
          BY <1>0, <1>4, <2>2 DEF StoreType
    <3>2. Owned' => market_orders_[x] # slot BY <1>1, <1>4, <2>2 DEF Owned
    <3>3. ~market_map_full' => market_orders_'[x] < market_next_slot'
      <4>1. SUFFICES ASSUME ~market_map_full' PROVE market_orders_[x] < slot + 1 BY <1>4, <3>1
      <4>2. market_orders_[x] < slot BY <1>4, <3>1, <4>1 DEF IInv, SlotInv
      <4>3. market_orders_[x] \in Int BY <3>1, Constants DEF Slots
      <4> QED BY <2>0, <4>2, <4>3
    <3>4. CASE market_orders_[x] = slot BY <1>1, <1>4, <3>1, <3>2, <3>3, <3>4
    <3>5. CASE market_orders_[x] # slot
      <4>1. order_pool_'[market_orders_'[x]] = order_pool_[market_orders_[x]] BY <1>4, <3>1, <3>5
      <4>2. Owned' => Owned BY <1>1, <1>4 DEF Owned
      <4> QED BY <1>1, <3>1, <3>3, <4>1, <4>2 DEF IInv, SlotInv
    <3> QED BY <3>4, <3>5
  <2> QED BY <2>1, <2>2
<1>10. MirrorInv'
  <2> SUFFICES ASSUME exact, NEW j \in DOMAIN live'
               PROVE  Found(j)' /\ Same(j)'
      BY <1>1 DEF MirrorInv
  <2>1. CASE j = k
    <3>1. OrderKey(j[1], j[2]) = key BY <1>2, <2>1 DEF key
    <3>2. Found(j)' BY <1>1, <1>2, <1>4, <1>7, <2>1, <3>1 DEF Found, OrderKey
    <3>3. Same(j)' BY <1>4, <1>5, <2>1, <3>1 DEF Same, OrderKey
    <3> QED BY <3>2, <3>3
  <2>2. CASE j # k
    <3>1. j \in DOMAIN live /\ live'[j] = live[j] /\ Found(j) /\ Same(j) BY <1>5, <2>2 DEF IInv, MirrorInv
    <3>2. OrderKey(j[1], j[2]) # key
      <4>1. j = <<j[1], j[2]>> BY <1>0, <3>1, LiveKey
      <4> QED BY <2>2, <4>1 DEF OrderKey, key
    <3>3. Found(j)'
      <4> SUFFICES ASSUME ~market_map_full'
                   PROVE  /\ OrderKey(j[1], j[2]) \in DOMAIN market_orders_'
                          /\ venue = "NASDAQ" => /\ j[1] \in DOMAIN nq_itch_refnum_ordkey_'
                                                 /\ nq_itch_refnum_ordkey_'[j[1]] = OrderKey(j[1], j[2])
          BY <1>1 DEF Found, OrderKey
      <4>1. venue = "NASDAQ" => j[1] # id BY <1>0, <1>3, <3>1 DEF ExchangeType
      <4> QED BY <1>4, <1>7, <3>1, <4>1 DEF Found
    <3>4. Same(j)'
      <4> SUFFICES ASSUME Owned', OrderKey(j[1], j[2]) \in DOMAIN market_orders_'
                   PROVE  LET o == order_pool_'[market_orders_'[OrderKey(j[1], j[2])]]
                          IN o.price = live[j].price /\ o.remaining_quantity = live[j].qty
          BY <3>1 DEF Same, OrderKey
      <4>1. /\ OrderKey(j[1], j[2]) \in DOMAIN market_orders_
            /\ market_orders_'[OrderKey(j[1], j[2])] = market_orders_[OrderKey(j[1], j[2])]
            /\ market_orders_[OrderKey(j[1], j[2])] \in Slots
            BY <1>0, <1>4, <3>2 DEF StoreType
      <4>2. market_orders_[OrderKey(j[1], j[2])] # slot BY <1>1, <1>4, <3>2 DEF Owned
      <4>3. Owned BY <1>1, <1>4 DEF Owned
      <4> QED BY <1>4, <3>1, <4>1, <4>2, <4>3 DEF Same
    <3> QED BY <3>3, <3>4
  <2> QED BY <2>1, <2>2
<1> DEFINE more == Added(tree, price, qty)
<1>11. Tree(tree) /\ qty \in QtyRange /\ qty \in Nat /\ qty <= MaxQty
       BY <1>0, QtyIsRange, Constants DEF BookType, Qty
<1>12. /\ Tree(more) /\ DOMAIN more = DOMAIN tree \cup {price}
       /\ \A p : p # price => At(more, p) = At(tree, p)
       /\ At(more, price) <= At(tree, price) + qty
       /\ At(tree, price) + qty < QtyMod => At(more, price) = At(tree, price) + qty
       BY <1>11, AddedEffect
<1>13. PutBook(side, more, price \notin DOMAIN tree) BY <1>1 DEF add_order
<1> HIDE DEF more
<1>14. ~(price \notin DOMAIN tree) => DOMAIN more = DOMAIN tree BY <1>12
<1>15. /\ BookType' /\ BestMatchesBook' /\ bid_ask_trees_'[side] = more
       /\ \A s \in Side : s # side => bid_ask_trees_'[s] = bid_ask_trees_[s]
       BY <1>0, <1>12, <1>13, <1>14, PutBookEffect
<1>16. At(tree, price) + qty < QtyMod /\ At(tree, price) \in Nat
  <2>1. At(tree, price) <= Cardinality(used) * MaxQty BY DepthIsAt DEF IInv, BoundInv
  <2>2. At(tree, price) \in Nat BY <1>11, AtType
  <2> QED BY <1>3, <1>11, <2>1, <2>2, Constants
<1>17. \A s \in Side, p \in Prices : /\ At(bid_ask_trees_'[s], p) = At(bid_ask_trees_[s], p) + Share(k, price, qty, s, p)
                                     /\ At(bid_ask_trees_[s], p) \in Nat
  <2> SUFFICES ASSUME NEW s \in Side, NEW p \in Prices
               PROVE  /\ At(bid_ask_trees_'[s], p) = At(bid_ask_trees_[s], p) + Share(k, price, qty, s, p)
                      /\ At(bid_ask_trees_[s], p) \in Nat
      OBVIOUS
  <2>1. At(bid_ask_trees_[s], p) \in Nat BY <1>0, AtType DEF BookType
  <2>2. CASE s = side /\ p = price BY <1>2, <1>12, <1>15, <1>16, <2>1, <2>2 DEF Share
  <2>3. CASE s = side /\ p # price BY <1>2, <1>12, <1>15, <2>1, <2>3 DEF Share
  <2>4. CASE s # side BY <1>2, <1>15, <2>1, <2>4 DEF Share
  <2> QED BY <2>2, <2>3, <2>4
<1>18. BoundInv'
  <2> SUFFICES ASSUME NEW s \in Side, NEW p \in Prices
               PROVE  Depth(s, p)' <= Cardinality(used') * MaxQty
      BY DEF BoundInv
  <2>1. Depth(s, p)' = At(bid_ask_trees_'[s], p) BY DEF Depth, At
  <2>2. At(bid_ask_trees_[s], p) <= Cardinality(used) * MaxQty BY DepthIsAt DEF IInv, BoundInv
  <2>3. Share(k, price, qty, s, p) \in Nat /\ Share(k, price, qty, s, p) <= MaxQty
        BY <1>11, Constants DEF Share
  <2> QED BY <1>3, <1>17, <2>1, <2>2, <2>3, Constants
<1>19. BookMatchesMarket'
  <2> SUFFICES ASSUME exact, NEW s \in Side, NEW p \in Prices
               PROVE  /\ ~market_map_full' => Depth(s, p)' = Displayed(s, p)'
                      /\ venue = "BIST" => Depth(s, p)' >= Displayed(s, p)'
      BY <1>1 DEF BookMatchesMarket
  <2> DEFINE d == At(bid_ask_trees_[s], p)
             e == DisplayedIn(live, s, p)
             share == Share(k, price, qty, s, p)
  <2>1. Depth(s, p)' = d + share BY <1>17 DEF Depth, At
  <2>2. Displays(live) /\ Displays(live')
    <3>1. IsFiniteSet(DOMAIN live') BY <1>6, FS_Subset DEF ExchangeType
    <3> QED BY <1>0, <1>5, <3>1, LiveDisplays DEF Displays
  <2>3. Displayed(s, p)' = DisplayedIn(live', s, p) BY DEF Displayed, DisplayedIn, AtPrice, LevelIn
  <2>4. DisplayedIn(live', s, p) = e + Share(k, live'[k].price, live'[k].qty, s, p)
        BY <1>5, <2>2, DisplayedMore
  <2>5. Displayed(s, p)' = e + share BY <1>5, <2>3, <2>4
  <2>6. (~market_map_full => d = e) /\ (venue = "BIST" => d >= e)
        BY DepthIsAt, DisplayedIsIn DEF IInv, BookMatchesMarket
  <2>7. d \in Nat /\ e \in Nat /\ share \in Nat BY <1>11, <1>17, <2>2, DisplayedNat DEF Share
  <2> HIDE DEF d, e, share
  <2> QED BY <1>4, <2>1, <2>5, <2>6, <2>7
<1> QED BY <1>6, <1>8, <1>9, <1>10, <1>15, <1>18, <1>19 DEF IInv

LEMMA ReplaceNext ==
  ASSUME IInv, NEW k \in DOMAIN live, NEW id \in Ids, NEW price \in Prices, NEW qty \in Qty, Replace(k, id, price, qty)
  PROVE  IInv'
<1> DEFINE j == <<id, k[2]>>
           o == OrderOf(k)
           slot == SlotOf(k[1], k[2])
           tree == bid_ask_trees_[o.side]
           left == Taken(tree, o.price, o.remaining_quantity)
           more == Added(left, price, qty)
<1>0. ExchangeType /\ StoreType /\ BookType /\ BestMatchesBook BY DEF IInv
<1>1. /\ Fresh(id, k[2]) /\ used' = used \cup {j} /\ venue' = venue /\ exact' = FALSE /\ venue # "BIST"
      /\ live' = With(Without(live, k), j, [price |-> price, qty |-> qty, filled |-> 0])
      /\ market_next_slot' = market_next_slot /\ market_map_full' = market_map_full
      /\ market_orders_' = market_orders_ /\ nq_itch_refnum_ordkey_' = nq_itch_refnum_ordkey_
      BY DEF Replace, Sends, VenueKinds, maps
<1>2. k[2] \in Side BY <1>0, LiveKey
<1>3. /\ used' \subseteq Ids \X Side /\ IsFiniteSet(used')
      /\ Cardinality(used') * MaxQty = Cardinality(used) * MaxQty + MaxQty
      /\ Cardinality(used) * MaxQty \in Nat
      BY <1>1, <1>2, FreshEffect
<1>4. ExchangeType'
  <2>1. [price |-> price, qty |-> qty, filled |-> 0] \in LiveRec BY DEF LiveRec
  <2>2. Without(live, k) \in [DOMAIN live \ {k} -> LiveRec] BY <1>0 DEF Without, Restrict, ExchangeType
  <2>3. live' \in [(DOMAIN live \ {k}) \cup {j} -> LiveRec] BY <1>1, <2>1, <2>2 DEF With
  <2>4. DOMAIN live' = (DOMAIN live \ {k}) \cup {j} BY <2>3
  <2> QED BY <1>0, <1>1, <1>3, <2>3, <2>4 DEF ExchangeType
<1>5. MirrorInv' /\ BookMatchesMarket' BY <1>1 DEF MirrorInv, BookMatchesMarket
<1>6. ~Owned' BY <1>1 DEF Owned
<1>7. CASE ~Known(k[1], k[2])
  <2>1. UNCHANGED <<order_pool_, bid_ask_trees_, best>> BY <1>7 DEF Replace, book
  <2>2. StoreType' BY <1>0, <1>1, <2>1 DEF StoreType
  <2>3. BookType' /\ BestMatchesBook' BY <1>0, <2>1 DEF BookType, BestMatchesBook
  <2>4. SlotInv' BY <1>1, <1>6, <2>1 DEF IInv, SlotInv
  <2>5. BoundInv'
    <3> SUFFICES ASSUME NEW s \in Side, NEW p \in Prices
                 PROVE  Depth(s, p)' <= Cardinality(used') * MaxQty
        BY DEF BoundInv
    <3>1. Depth(s, p)' = At(bid_ask_trees_[s], p) BY <2>1 DEF Depth, At
    <3>2. At(bid_ask_trees_[s], p) <= Cardinality(used) * MaxQty BY DepthIsAt DEF IInv, BoundInv
    <3>3. At(bid_ask_trees_[s], p) \in Nat BY <1>0, AtType DEF BookType
    <3> QED BY <1>3, <3>1, <3>2, <3>3, Constants
  <2> QED BY <1>4, <1>5, <2>2, <2>3, <2>4, <2>5 DEF IInv
<1>8. CASE Known(k[1], k[2])
  <2>1. /\ slot \in Slots /\ o = order_pool_[slot] /\ o \in OrderRec /\ o.side \in Side /\ o.price \in Prices
        BY <1>8, KnownOrder
  <2>2. /\ order_pool_' = [order_pool_ EXCEPT ![slot] =
              [@ EXCEPT !.order_id = id, !.price = price, !.remaining_quantity = qty, !.filled_quantity = 0]]
        /\ PutBook(o.side, more, DOMAIN left # DOMAIN tree \/ price \notin DOMAIN left)
        BY <1>8 DEF Replace
  <2>3. qty \in QtyRange /\ qty \in Nat /\ qty <= MaxQty /\ 0 \in QtyRange
        BY QtyIsRange, Constants DEF Qty, QtyRange
  <2>4. order_pool_' \in [Slots -> OrderRec]
    <3> DEFINE r == [o EXCEPT !.order_id = id, !.price = price, !.remaining_quantity = qty, !.filled_quantity = 0]
    <3> HIDE DEF o, slot
    <3>1. r \in OrderRec BY <2>1, <2>3 DEF OrderRec
    <3>2. order_pool_' = [order_pool_ EXCEPT ![slot] = r] BY <2>1, <2>2
    <3> HIDE DEF r
    <3> QED BY <1>0, <3>1, <3>2 DEF StoreType
  <2>5. \A x \in Slots : /\ x # slot => order_pool_'[x] = order_pool_[x]
                         /\ x = slot => order_pool_'[x].side = o.side /\ order_pool_'[x].price = price
    <3> HIDE DEF o, slot
    <3> QED BY <1>0, <2>1, <2>2 DEF StoreType, OrderRec
  <2>6. StoreType' BY <1>0, <1>1, <2>4 DEF StoreType
  <2>7. SlotInv'
    <3> SUFFICES ASSUME NEW x \in DOMAIN market_orders_
                 PROVE  LET q == order_pool_'[market_orders_[x]]
                        IN /\ q.side \in Side /\ q.price \in Prices
                           /\ ~market_map_full => market_orders_[x] < market_next_slot
        BY <1>1, <1>6 DEF SlotInv
    <3>1. market_orders_[x] \in Slots BY <1>0 DEF StoreType
    <3> HIDE DEF o, slot
    <3> QED BY <2>1, <2>5, <3>1 DEF IInv, SlotInv
  <2> HIDE DEF o
  <2>8. Tree(tree) /\ o.remaining_quantity \in QtyRange BY <1>0, <2>1 DEF BookType, OrderRec
  <2>9. /\ Tree(left) /\ DOMAIN left \subseteq DOMAIN tree
        /\ \A p : p # o.price => At(left, p) = At(tree, p)
        /\ At(left, o.price) = IF At(tree, o.price) <= o.remaining_quantity THEN 0
                               ELSE At(tree, o.price) - o.remaining_quantity
        BY <2>1, <2>8, TakenEffect
  <2>10. \A p : At(left, p) <= At(tree, p) /\ At(left, p) \in Nat /\ At(tree, p) \in Nat
    <3> SUFFICES ASSUME NEW p PROVE At(left, p) <= At(tree, p) /\ At(left, p) \in Nat /\ At(tree, p) \in Nat
        OBVIOUS
    <3>1. At(tree, p) \in Nat /\ At(left, p) \in Nat BY <2>8, <2>9, AtType
    <3>2. o.remaining_quantity \in Nat BY <2>8, Constants DEF QtyRange
    <3> HIDE DEF left, tree
    <3>3. CASE p = o.price BY <2>9, <3>1, <3>2, <3>3
    <3>4. CASE p # o.price BY <2>9, <3>1, <3>4
    <3> QED BY <3>1, <3>3, <3>4
  <2> HIDE DEF left
  <2>11. /\ Tree(more) /\ DOMAIN more = DOMAIN left \cup {price}
         /\ \A p : p # price => At(more, p) = At(left, p)
         /\ At(more, price) <= At(left, price) + qty
         BY <2>3, <2>9, AddedEffect
  <2> HIDE DEF more
  <2> DEFINE changed == DOMAIN left # DOMAIN tree \/ price \notin DOMAIN left
  <2>12. changed \in BOOLEAN /\ (~changed => DOMAIN more = DOMAIN tree) BY <2>11
  <2>13. PutBook(o.side, more, changed) BY <2>2
  <2> HIDE DEF changed
  <2>14. /\ BookType' /\ BestMatchesBook' /\ bid_ask_trees_'[o.side] = more
         /\ \A s \in Side : s # o.side => bid_ask_trees_'[s] = bid_ask_trees_[s]
         BY <1>0, <2>1, <2>11, <2>12, <2>13, PutBookEffect
  <2>15. BoundInv'
    <3> SUFFICES ASSUME NEW s \in Side, NEW p \in Prices
                 PROVE  Depth(s, p)' <= Cardinality(used') * MaxQty
        BY DEF BoundInv
    <3>1. Depth(s, p)' = At(bid_ask_trees_'[s], p) BY DEF Depth, At
    <3>2. At(bid_ask_trees_[s], p) <= Cardinality(used) * MaxQty BY DepthIsAt DEF IInv, BoundInv
    <3>3. At(bid_ask_trees_[s], p) \in Nat BY <1>0, AtType DEF BookType
    <3>4. CASE s # o.side BY <1>3, <2>14, <3>1, <3>2, <3>3, <3>4, Constants
    <3>5. CASE s = o.side
      <4>1. At(more, p) \in Nat BY <2>11, AtType
      <4>2. At(more, p) <= At(left, p) + qty
        <5>1. CASE p = price BY <2>11, <5>1
        <5>2. CASE p # price BY <2>3, <2>10, <2>11, <5>2
        <5> QED BY <5>1, <5>2
      <4>3. At(left, p) <= At(bid_ask_trees_[s], p) /\ At(left, p) \in Nat BY <2>10, <3>5
      <4>4. Depth(s, p)' = At(more, p) BY <2>14, <3>1, <3>5
      <4> QED BY <1>3, <2>3, <3>2, <3>3, <4>1, <4>2, <4>3, <4>4, Constants
    <3> QED BY <3>4, <3>5
  <2> QED BY <1>4, <1>5, <2>6, <2>7, <2>14, <2>15 DEF IInv
<1> QED BY <1>7, <1>8

LEMMA FlushNext == ASSUME IInv, Flush PROVE IInv'
<1>0. ExchangeType /\ StoreType /\ BookType BY DEF IInv
<1>1. /\ live' = <<>> /\ bid_ask_trees_' = [s \in Side |-> <<>>]
      /\ UNCHANGED <<venue, exact, used, best, order_pool_, market_next_slot, market_map_full,
                     market_orders_, nq_itch_refnum_ordkey_>>
      BY DEF Flush, store
<1>2. DOMAIN live' = {} /\ \A s \in Side : DOMAIN bid_ask_trees_'[s] = {} BY <1>1
<1>3. ExchangeType'
  <2>1. live' \in [DOMAIN live' -> LiveRec] BY <1>1, <1>2
  <2> QED BY <1>0, <1>1, <1>2, <2>1 DEF ExchangeType
<1>4. StoreType' BY <1>0, <1>1 DEF StoreType
<1>5. BookType'
  <2>1. \A s \in Side : Tree(bid_ask_trees_'[s]) BY <1>1, <1>2 DEF Tree
  <2> QED BY <1>0, <1>1, <2>1 DEF BookType
<1>6. SlotInv' BY <1>1 DEF IInv, SlotInv, Owned
<1>7. BestMatchesBook' BY <1>2 DEF BestMatchesBook
<1>8. MirrorInv' BY <1>2 DEF MirrorInv
<1>9. \A s \in Side, p \in Prices : Depth(s, p)' = 0 BY <1>2 DEF Depth
<1>10. BoundInv'
  <2>1. Cardinality(used) \in Nat BY <1>0, FS_CardinalityType DEF ExchangeType
  <2>2. Cardinality(used') * MaxQty >= 0
    <3> DEFINE c == Cardinality(used)
    <3>1. c \in Nat BY <2>1
    <3> HIDE DEF c
    <3>2. c * MaxQty >= 0 BY <3>1, Constants
    <3> QED BY <1>1, <3>2 DEF c
  <2> QED BY <1>9, <2>2 DEF BoundInv
<1>11. BookMatchesMarket'
  <2>1. ASSUME NEW s \in Side, NEW p \in Prices PROVE Displayed(s, p)' = 0
    <3>1. LevelIn(live', s, p) = {} BY <1>2 DEF LevelIn
    <3>2. DisplayedIn(live', s, p) = 0 BY <3>1, TotalEmpty DEF DisplayedIn
    <3> QED BY <3>2 DEF Displayed, DisplayedIn, AtPrice, LevelIn
  <2> QED BY <1>9, <2>1 DEF BookMatchesMarket
<1> QED BY <1>3, <1>4, <1>5, <1>6, <1>7, <1>8, <1>10, <1>11 DEF IInv

-----------------------------------------------------------------------------
(* The theorems *)

LEMMA StutterInv == IInv /\ UNCHANGED vars => IInv'
<1> SUFFICES ASSUME IInv, UNCHANGED vars PROVE IInv'
    OBVIOUS
<1> USE DEF vars, store, book
<1>1. ExchangeType' /\ StoreType' /\ BookType' BY DEF IInv, ExchangeType, StoreType, BookType
<1>2. SlotInv' /\ BestMatchesBook' BY DEF IInv, SlotInv, BestMatchesBook, Owned
<1>3. MirrorInv' BY DEF IInv, MirrorInv, Found, Same, Owned
<1>4. BoundInv' BY DEF IInv, BoundInv, Depth
<1>5. BookMatchesMarket'
      BY DEF IInv, BookMatchesMarket, Depth, Displayed, AtPrice
<1> QED BY <1>1, <1>2, <1>3, <1>4, <1>5 DEF IInv

\* The inductive invariant holds at every step of the market-data path.
THEOREM InductiveInvariant == Spec => []IInv
<1>1. ASSUME IInv, [Next]_vars PROVE IInv'
      BY <1>1, AddNext, ExecNext, CancelNext, ExecWithPriceNext, DeleteNext, ReplaceNext, FlushNext, StutterInv
         DEF Next
<1> QED BY InitInv, <1>1, PTL DEF Spec

\* Quantities stay in the range of a uint32_t, slots in the pool, and the maps
\* hold keys and slots of the market half of order_pool_.
THEOREM TypeCorrect == Spec => []TypeOK
<1>1. IInv => TypeOK
  <2> SUFFICES ASSUME IInv PROVE TypeOK
      OBVIOUS
  <2>1. ExchangeType /\ StoreType /\ BookType BY DEF IInv
  <2>2. /\ DOMAIN live \subseteq Ids \X Side /\ used \subseteq Ids \X Side
        /\ \A k \in DOMAIN live : live[k] \in [price : Prices, qty : Qty, filled : Nat]
        BY <2>1 DEF ExchangeType, LiveRec
  <2>3. \A s \in Slots : /\ order_pool_[s].remaining_quantity \in 0..QtyMod - 1
                         /\ order_pool_[s].filled_quantity \in 0..QtyMod - 1
        BY <2>1 DEF StoreType, OrderRec, QtyRange
  <2>4. /\ DOMAIN order_pool_ = Slots /\ market_next_slot \in 0..MARKETORDER_LAST_INDEX
        /\ market_map_full \in BOOLEAN /\ DOMAIN market_orders_ \subseteq Ids \X Side \X {"BIST"}
        /\ \A key \in DOMAIN market_orders_ : market_orders_[key] \in Slots
        BY <2>1 DEF StoreType, Keys
  <2>5. \A s \in Side, p \in Prices : p \in DOMAIN bid_ask_trees_[s] => bid_ask_trees_[s][p] \in 0..QtyMod - 1
        BY <2>1 DEF BookType, Tree, QtyRange
  <2> QED BY <2>2, <2>3, <2>4, <2>5 DEF TypeOK
<1> QED BY <1>1, InductiveInvariant, PTL

\* A message of BIST is never applied to another order than its own, however
\* often the slots of the pool are used again.
THEOREM OwnSlotHolds == Spec => []OwnSlot
<1>1. IInv => OwnSlot
  <2> SUFFICES ASSUME IInv, venue = "BIST", NEW key \in DOMAIN market_orders_
               PROVE  SlotKey(order_pool_[market_orders_[key]]) = key
      BY DEF OwnSlot
  <2>1. key = <<key[1], key[2], "BIST">> BY DEF IInv, StoreType, Keys
  <2> QED BY <2>1 DEF IInv, SlotInv, Owned, SlotKey
<1> QED BY <1>1, InductiveInvariant, PTL

\* The published best price and quantity are those of the book on every side
\* that has a level.
THEOREM BestMatches == Spec => []BestMatchesBook
<1>1. IInv => BestMatchesBook BY DEF IInv
<1> QED BY <1>1, InductiveInvariant, PTL

\* The book is the aggregation of what the exchange displays, level by level,
\* up to the first Replace or execution with a price; for BIST it never shows
\* less, even when the pool has wrapped and orders were forgotten.
THEOREM BookMatches == Spec => []BookMatchesMarket
<1>1. IInv => BookMatchesMarket BY DEF IInv
<1> QED BY <1>1, InductiveInvariant, PTL
=============================================================================
