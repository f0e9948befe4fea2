------------------------------ MODULE OwnOrders ------------------------------
(***************************************************************************)
(* The life of our own orders: strategy, check_risk, Builder_Dispatch, the *)
(* exchange and back through OrderManager::update_order of BIST FIX, BIST  *)
(* OUCH and NASDAQ OUCH with their fillers.                                *)
(*                                                                         *)
(* Four threads meet in an Order: the strategy fills a free slot and asks  *)
(* for cancels, the risk and builder threads mark that they are done with  *)
(* it, the store thread writes what the exchange says.  The builder hands  *)
(* the message to the sender first and puts the order into                 *)
(* awaitingAck_orders_ after that.                                         *)
(*                                                                         *)
(* The strategy and the exchange are external.  The strategy enters orders *)
(* and asks to cancel those it was told of; replacing is left out, since   *)
(* the repository does not say what the strategy writes into the order.    *)
(* The connection delivers in order (TCP; for FIX see FixSession).         *)
(***************************************************************************)
EXTENDS Integers, Sequences, FiniteSets, Functions, SequencesExt, Sums

CONSTANTS Flows,      \* the protocols to consider, one per behaviour
          Slots,      \* our half of order_pool_
          nullptr,
          FreeCaps,   \* how many slots fit into the queue of free slots, one per behaviour
          MaxOrders,  \* bound: orders the strategy enters
          Quantities, \* quantities the strategy orders
          MaxCancels, \* bound: cancels the strategy asks for
          MaxWire,    \* bound: messages of the exchange on their way
          AwaitCap,   \* max_load of awaitingAck_orders_
          QtyMod      \* 2^32: quantities are uint32_t

ASSUME FlowAssumption == Flows \subseteq {"FIX", "BIST", "NASDAQ"}
ASSUME SlotAssumption == /\ IsFiniteSet(Slots) /\ nullptr \notin Slots
                         /\ FreeCaps \subseteq 0..Cardinality(Slots)
ASSUME BoundAssumption == /\ MaxOrders \in Nat /\ MaxCancels \in Nat
                          /\ MaxWire \in Nat /\ AwaitCap \in Nat /\ QtyMod \in Nat \ {0}
                          /\ Quantities \subseteq 1..QtyMod - 1

VARIABLES flow,                   \* the protocol of this behaviour
          order_pool_,            \* slot -> Order
          free,                   \* store_to_strategy_free_slot_
          held,                   \* strategy: slots risk gave back
          entered, cancels,       \* strategy: orders entered (the last token), cancels asked for
          strategy_to_risk_, risk_to_builder_, store_to_risk_,
          building,               \* builder: the order that was sent and not yet registered
          user_ref_num,           \* builder: the next reference number of NASDAQ
          wire_out, wire_in,      \* the two directions of the connection
          ex,                     \* exchange: its orders, in the order of their ids
          awaitingAck_orders_,    \* token -> slot
          our_orders_,            \* id -> slot
          our_orders_wtokenkey_,  \* token -> slot
          nq_ouch_refnum_ordkey_, \* NASDAQ reference number -> id
          pending_to_strategy_,   \* messages parked while canModify is 0
          crashed,                \* the store thread has dereferenced end()
          missed                  \* history: tokens a message of which found no order or was overtaken

strategy == <<free, held, entered, cancels>>
builder  == <<building, user_ref_num>>
exchange == <<wire_out, ex>>
maps     == <<our_orders_, our_orders_wtokenkey_, nq_ouch_refnum_ordkey_>>
vars == <<flow, order_pool_, strategy, strategy_to_risk_, risk_to_builder_, store_to_risk_, builder,
          exchange, wire_in, awaitingAck_orders_, maps, pending_to_strategy_, crashed, missed>>

-----------------------------------------------------------------------------
Without(f, x) == Restrict(f, DOMAIN f \ {x})
With(f, x, v) == [y \in DOMAIN f \cup {x} |-> IF y = x THEN v ELSE f[y]]
Find(f, x) == IF x \in DOMAIN f THEN f[x] ELSE nullptr
Sub(a, b) == (a - b) % QtyMod

DONE == {"STRATEGY", "RISK", "BUILDER"}

NoOrder == [status |-> "Unknown", message_type |-> "Enter", quantity |-> 0, filled_quantity |-> 0,
            remaining_quantity |-> 0, client_order_id |-> 0, user_ref_num |-> 0, order_id |-> 0,
            canModify |-> DONE, syncState |-> "WaitingNew"]

\* What the exchange says of one order; filled and leaves are the fields of a
\* FIX execution report.
Said(type, token, urn, id, qty, filled, leaves) ==
    [type |-> type, token |-> token, urn |-> urn, id |-> id, qty |-> qty,
     filled |-> filled, leaves |-> leaves]

-----------------------------------------------------------------------------
(* The fillers *)

fill_accepted(o, m) ==
    [o EXCEPT !.quantity = m.qty, !.remaining_quantity = m.qty, !.status = "New", !.order_id = m.id,
              !.filled_quantity = IF flow = "NASDAQ" THEN 0 ELSE @,
              !.syncState = IF flow = "FIX" THEN "NewSeen" ELSE @]

fill_executed_AsTotal(o, m) ==
    [o EXCEPT !.filled_quantity = m.qty, !.remaining_quantity = Sub(o.quantity, m.qty),
              !.status = IF m.qty < o.quantity THEN "Partial" ELSE "Filled"]
\* FIX reports carry totals, OUCH messages what was traded.
fill_executed(o, m) ==
    IF flow = "FIX"
    THEN [o EXCEPT !.filled_quantity = m.filled, !.remaining_quantity = m.leaves,
                   !.status = IF m.leaves > 0 THEN "Partial" ELSE "Filled"]
    ELSE [o EXCEPT !.filled_quantity = @ + m.qty, !.remaining_quantity = Sub(@, m.qty),
                   !.status = IF o.filled_quantity + m.qty < o.quantity THEN "Partial" ELSE "Filled"]

\* NASDAQ may take back a part; its test for a negative rest is unsigned and
\* only true for zero.
fill_cancelled(o, m) ==
    CASE flow = "NASDAQ" -> [o EXCEPT !.remaining_quantity = Sub(@, m.qty), !.status = "Cancelled"]
      [] flow = "BIST"   -> [o EXCEPT !.remaining_quantity = 0, !.status = "Deleted"]
      [] flow = "FIX"    -> [o EXCEPT !.remaining_quantity = 0, !.status = "Deleted",
                                      !.filled_quantity = m.filled]

fill_rejected_Always(s) == free' = Append(free, s) /\ UNCHANGED order_pool_
\* A rejected new order gives its slot back; a rejected request leaves the
\* order to be released by strategy, risk and builder.
fill_rejected(s) ==
    IF order_pool_[s].status = "Unknown"
    THEN free' = Append(free, s) /\ UNCHANGED order_pool_
    ELSE order_pool_' = [order_pool_ EXCEPT ![s].canModify = {}] /\ UNCHANGED free

-----------------------------------------------------------------------------
(* update_order: one handler per protocol *)

\* Nobody knows the order: return.
Drop(m) == /\ missed' = missed \cup {m.token}
           /\ UNCHANGED <<order_pool_, free, awaitingAck_orders_, maps, store_to_risk_, crashed>>

\* canModify == 0: the message waits until everybody is done with the order.
Park(m, s, rest) == /\ pending_to_strategy_' = Append(rest, [msg |-> m, order |-> s])
                    /\ UNCHANGED <<order_pool_, free, awaitingAck_orders_, maps, store_to_risk_, crashed, missed>>

\* A filler's result, told to risk (and to the strategy and the database).
Fill(s, o, rest) ==
    /\ order_pool_' = [order_pool_ EXCEPT ![s] = o]
    /\ store_to_risk_' = Append(store_to_risk_, s)
    /\ missed' = IF Len(rest) = Len(pending_to_strategy_)
                 THEN missed \cup {rest[i].msg.token : i \in {j \in 1..Len(rest) : rest[j].order = s}}
                 ELSE missed
    /\ UNCHANGED <<free, crashed>>

Register_BuilderNumber(s, m) ==
    /\ our_orders_' = With(our_orders_, m.id, s)
    /\ nq_ouch_refnum_ordkey_' = With(nq_ouch_refnum_ordkey_, user_ref_num, m.id)
    /\ awaitingAck_orders_' = Without(awaitingAck_orders_, m.token)
    /\ UNCHANGED our_orders_wtokenkey_
\* add_our_order and the maps of the protocol.  OUR_ORDER_MAP_THRESHOLD is
\* beyond the number of slots the strategy ever gets, so nothing is released.
Register(s, m) ==
    /\ our_orders_' = With(our_orders_, m.id, s)
    /\ IF flow = "BIST"
       THEN our_orders_wtokenkey_' = With(our_orders_wtokenkey_, order_pool_[s].client_order_id, s)
       ELSE UNCHANGED our_orders_wtokenkey_
    /\ IF flow = "NASDAQ"
       THEN nq_ouch_refnum_ordkey_' = With(nq_ouch_refnum_ordkey_, order_pool_[s].user_ref_num, m.id)
       ELSE UNCHANGED nq_ouch_refnum_ordkey_
    /\ awaitingAck_orders_' = Without(awaitingAck_orders_, m.token)

Filled(o, m) == CASE m.type = "Accepted"  -> fill_accepted(o, m)
                  [] m.type = "Executed"  -> fill_executed(o, m)
                  [] m.type = "Cancelled" -> fill_cancelled(o, m)

\* BIST OUCH: Accepted and Cancelled carry the id, Executed and Rejected only
\* the token.
update_BIST(m, rest) ==
    LET byKey == m.type \in {"Accepted", "Cancelled"}
        known == CASE m.type = "Accepted" -> nullptr
                   [] m.type = "Cancelled" -> Find(our_orders_, m.id)
                   [] OTHER -> Find(our_orders_wtokenkey_, m.token)
        s == IF known # nullptr THEN known ELSE Find(awaitingAck_orders_, m.token)
    IN \/ s = nullptr /\ Drop(m) /\ pending_to_strategy_' = rest
       \/ known # nullptr /\ order_pool_[s].canModify = {} /\ Park(m, s, rest)
       \/ /\ s # nullptr /\ (known # nullptr => order_pool_[s].canModify # {})
          /\ pending_to_strategy_' = rest
          /\ \/ known = nullptr /\ byKey /\ Register(s, m)
             \/ known = nullptr /\ ~byKey /\ UNCHANGED maps
                /\ awaitingAck_orders_' = Without(awaitingAck_orders_, m.token)
             \/ known # nullptr /\ UNCHANGED <<maps, awaitingAck_orders_>>
          /\ \/ m.type # "Rejected" /\ Fill(s, Filled(order_pool_[s], m), rest)
             \/ m.type = "Rejected" /\ fill_rejected(s) /\ UNCHANGED <<store_to_risk_, missed, crashed>>

\* NASDAQ OUCH: after the Accepted message orders are found by their
\* reference number, without a test that it is there.  A Rejected message only
\* finds new orders, so canModify is never 0 and nothing is parked.
update_NASDAQ(m) ==
    LET new == Find(awaitingAck_orders_, m.token)
    IN \/ /\ m.type \in {"Accepted", "Rejected"} /\ new = nullptr
          /\ Drop(m) /\ UNCHANGED pending_to_strategy_
       \/ /\ m.type = "Accepted" /\ new # nullptr /\ UNCHANGED pending_to_strategy_
          /\ Register(new, m) /\ Fill(new, Filled(order_pool_[new], m), pending_to_strategy_)
       \/ /\ m.type = "Rejected" /\ new # nullptr /\ UNCHANGED pending_to_strategy_
          /\ awaitingAck_orders_' = Without(awaitingAck_orders_, m.token)
          /\ fill_rejected(new) /\ UNCHANGED <<maps, store_to_risk_, missed, crashed>>
       \/ /\ m.type \in {"Executed", "Cancelled"} /\ m.urn \notin DOMAIN nq_ouch_refnum_ordkey_
          /\ crashed' = TRUE
          /\ UNCHANGED <<order_pool_, free, awaitingAck_orders_, maps, store_to_risk_, missed, pending_to_strategy_>>
       \/ /\ m.type \in {"Executed", "Cancelled"} /\ m.urn \in DOMAIN nq_ouch_refnum_ordkey_
          /\ LET s == our_orders_[nq_ouch_refnum_ordkey_[m.urn]]
             IN Fill(s, Filled(order_pool_[s], m), pending_to_strategy_)
          /\ UNCHANGED <<maps, awaitingAck_orders_, pending_to_strategy_>>

\* BIST FIX: every report carries the id; the first one for an order moves it
\* to our_orders_, a reject of a new order frees its slot and leaves the entry
\* in awaitingAck_orders_.  Nothing sets canModify to 0, so nothing is parked.
update_FIX(m) ==
    LET known == Find(our_orders_, m.id)
        s == IF known # nullptr THEN known ELSE Find(awaitingAck_orders_, m.token)
    IN \/ s = nullptr /\ Drop(m) /\ UNCHANGED pending_to_strategy_
       \/ /\ s # nullptr /\ known = nullptr /\ m.type = "Rejected" /\ UNCHANGED pending_to_strategy_
          /\ free' = Append(free, s)
          /\ UNCHANGED <<order_pool_, awaitingAck_orders_, maps, store_to_risk_, crashed, missed>>
       \/ /\ s # nullptr /\ ~(known = nullptr /\ m.type = "Rejected")
          /\ \/ known = nullptr /\ our_orders_' = With(our_orders_, m.id, s)
             \/ known # nullptr /\ UNCHANGED our_orders_
          /\ UNCHANGED <<our_orders_wtokenkey_, nq_ouch_refnum_ordkey_>>
          /\ UNCHANGED pending_to_strategy_
          /\ \/ /\ m.type = "CancelReject"
                /\ UNCHANGED <<order_pool_, free, awaitingAck_orders_, store_to_risk_, crashed, missed>>
             \/ /\ m.type # "CancelReject" /\ Fill(s, Filled(order_pool_[s], m), pending_to_strategy_)
                /\ awaitingAck_orders_' = Without(awaitingAck_orders_, m.token)

update_order(m) ==
    \/ flow = "BIST" /\ update_BIST(m, pending_to_strategy_)
    \/ flow = "NASDAQ" /\ update_NASDAQ(m)
    \/ flow = "FIX" /\ update_FIX(m)

\* store(): the parked message in front goes first once everybody is done with
\* its order, else the next one from the parser.  Only BIST OUCH parks.
ParkedReady == /\ pending_to_strategy_ # <<>>
               /\ order_pool_[Head(pending_to_strategy_).order].canModify = DONE

store ==
    /\ ~crashed
    /\ \/ /\ ParkedReady
          /\ update_BIST(Head(pending_to_strategy_).msg, Tail(pending_to_strategy_))
          /\ UNCHANGED wire_in
       \/ /\ ~ParkedReady /\ wire_in # <<>>
          /\ update_order(Head(wire_in))
          /\ wire_in' = Tail(wire_in)
    /\ UNCHANGED <<flow, held, entered, cancels, strategy_to_risk_, risk_to_builder_, builder, exchange>>

-----------------------------------------------------------------------------
(* The strategy (external) *)

Submit(s, o) == /\ order_pool_' = [order_pool_ EXCEPT ![s] = o]
                /\ strategy_to_risk_' = Append(strategy_to_risk_, s)
                /\ UNCHANGED <<flow, risk_to_builder_, store_to_risk_, builder, exchange, wire_in,
                               awaitingAck_orders_, maps, pending_to_strategy_, crashed, missed>>

\* A new order in a free slot, or in one that risk refused, under a new token.
EnterOrder(q) ==
    /\ entered < MaxOrders
    /\ entered' = entered + 1
    /\ \E s \in Slots :
          /\ \/ free # <<>> /\ s = Head(free) /\ free' = Tail(free) /\ UNCHANGED held
             \/ s \in held /\ held' = held \ {s} /\ UNCHANGED free
          /\ Submit(s, [order_pool_[s] EXCEPT !.message_type = "Enter", !.quantity = q,
                                              !.client_order_id = entered + 1])
    /\ UNCHANGED cancels

\* A cancel of what is left of an acknowledged order, in the order's own slot.
RequestCancel(s) ==
    /\ cancels < MaxCancels /\ order_pool_[s].order_id # 0
    /\ order_pool_[s].remaining_quantity > 0
    /\ cancels' = cancels + 1
    /\ Submit(s, [order_pool_[s] EXCEPT !.message_type = "Cancel", !.status = "CancelRequest",
                                        !.canModify = @ \cup {"STRATEGY"}])
    /\ UNCHANGED <<free, held, entered>>

-----------------------------------------------------------------------------
(* Risk and builder *)

\* check_risk: what passes goes on; a refused order goes back to the strategy,
\* a cancel that does not pass is dropped.
check_risk ==
    /\ strategy_to_risk_ # <<>>
    /\ strategy_to_risk_' = Tail(strategy_to_risk_)
    /\ LET s == Head(strategy_to_risk_)
       IN \/ /\ order_pool_' = [order_pool_ EXCEPT ![s].canModify = @ \cup {"RISK"}]
             /\ risk_to_builder_' = Append(risk_to_builder_, s)
             /\ UNCHANGED held
          \/ /\ held' = IF order_pool_[s].order_id = 0 THEN held \cup {s} ELSE held
             /\ UNCHANGED <<order_pool_, risk_to_builder_>>
    /\ UNCHANGED <<flow, free, entered, cancels, store_to_risk_, builder, exchange, wire_in,
                   awaitingAck_orders_, maps, pending_to_strategy_, crashed, missed>>

\* update_risk, as far as the order is concerned.  A FIX order is left alone
\* until its New report has come; after that its status is overwritten by
\* StatusesPreNew, which the New report has cleared.
update_risk ==
    /\ store_to_risk_ # <<>>
    /\ store_to_risk_' = Tail(store_to_risk_)
    /\ LET s == Head(store_to_risk_)
           waits == flow = "FIX" /\ order_pool_[s].syncState = "WaitingNew"
       IN order_pool_' = IF waits THEN order_pool_
                         ELSE [order_pool_ EXCEPT ![s].canModify = @ \cup {"RISK"},
                                                  ![s].status = IF flow = "FIX" THEN "Unknown" ELSE @]
    /\ UNCHANGED <<flow, strategy, strategy_to_risk_, risk_to_builder_, builder, exchange, wire_in,
                   awaitingAck_orders_, maps, pending_to_strategy_, crashed, missed>>

\* How a message names the order it is about: NASDAQ takes the builder's
\* counter, also for a cancel.
RefOf(o) == IF flow = "NASDAQ" THEN user_ref_num ELSE o.client_order_id

\* The first half of dispatch: build and hand to the sender.
Build ==
    /\ building = nullptr /\ risk_to_builder_ # <<>>
    /\ LET s == Head(risk_to_builder_)
           o == order_pool_[s]
           numbers == flow = "NASDAQ" /\ o.message_type = "Enter"
       IN /\ wire_out' = Append(wire_out, [type |-> o.message_type, ref |-> RefOf(o), qty |-> o.quantity,
                                           token |-> o.client_order_id])
          /\ order_pool_' = [order_pool_ EXCEPT ![s].canModify = @ \cup {"BUILDER"},
                                                ![s].user_ref_num = IF numbers THEN user_ref_num ELSE @]
          /\ user_ref_num' = IF numbers THEN user_ref_num + 1 ELSE user_ref_num
          /\ building' = s
    /\ risk_to_builder_' = Tail(risk_to_builder_)
    /\ UNCHANGED <<flow, strategy, strategy_to_risk_, store_to_risk_, ex, wire_in,
                   awaitingAck_orders_, maps, pending_to_strategy_, crashed, missed>>

\* The second half: a new order is put into awaitingAck_orders_; that the map
\* may be full is not noticed.
add_awaitingAck_order ==
    /\ building # nullptr
    /\ building' = nullptr
    /\ LET o == order_pool_[building]
       IN IF o.order_id = 0 /\ Cardinality(DOMAIN awaitingAck_orders_) < AwaitCap
          THEN awaitingAck_orders_' = With(awaitingAck_orders_, o.client_order_id, building)
          ELSE UNCHANGED awaitingAck_orders_
    /\ UNCHANGED <<flow, order_pool_, strategy, strategy_to_risk_, risk_to_builder_, store_to_risk_,
                   user_ref_num, exchange, wire_in, maps, pending_to_strategy_, crashed, missed>>

-----------------------------------------------------------------------------
(* The exchange (external) *)

Says(m) == /\ Len(wire_in) < MaxWire
           /\ wire_in' = Append(wire_in, m)
           /\ UNCHANGED <<flow, order_pool_, strategy, strategy_to_risk_, risk_to_builder_, store_to_risk_,
                          builder, awaitingAck_orders_, maps, pending_to_strategy_, crashed, missed>>

\* What the exchange knows an order by.
ExRef(i) == IF flow = "NASDAQ" THEN ex[i].urn ELSE ex[i].token

Answer(type, i, q) == Said(type, ex[i].token, ex[i].urn, i, q, ex[i].filled, ex[i].leaves)

ExchangeAccepts ==
    /\ wire_out # <<>> /\ Head(wire_out).type = "Enter"
    /\ wire_out' = Tail(wire_out)
    /\ LET e == Head(wire_out)
       IN \/ /\ ex' = Append(ex, [token |-> e.token, urn |-> e.ref, filled |-> 0, leaves |-> e.qty])
             /\ Says(Said("Accepted", e.token, e.ref, Len(ex) + 1, e.qty, 0, e.qty))
          \/ /\ Says(Said("Rejected", e.token, e.ref, 0, 0, 0, 0))
             /\ UNCHANGED ex

\* The rest of order i, or for NASDAQ a part, is taken back.
TakeBack(i, q) == /\ ex' = [ex EXCEPT ![i].leaves = @ - q]
                  /\ Says(Answer("Cancelled", i, q))

\* A cancel: of a live order it succeeds or is refused; a cancel of something
\* else is refused, by NASDAQ without a word.
ExchangeCancels ==
    /\ wire_out # <<>> /\ Head(wire_out).type = "Cancel"
    /\ wire_out' = Tail(wire_out)
    /\ LET c == Head(wire_out)
           about == {i \in 1..Len(ex) : ExRef(i) = c.ref}
           refusal == IF flow = "FIX" THEN "CancelReject" ELSE "Rejected"
       IN \/ \E i \in about : ex[i].leaves > 0 /\ TakeBack(i, ex[i].leaves)
          \/ /\ flow # "NASDAQ" /\ \E i \in about : Says(Answer(refusal, i, 0))
             /\ UNCHANGED ex
          \/ /\ flow = "NASDAQ" /\ about = {}
             /\ UNCHANGED <<flow, order_pool_, strategy, strategy_to_risk_, risk_to_builder_, store_to_risk_,
                            builder, ex, wire_in, awaitingAck_orders_, maps, pending_to_strategy_, crashed, missed>>

ExchangeTrades(i) ==
    \E q \in 1..ex[i].leaves :
        LET filled == ex[i].filled + q
            leaves == ex[i].leaves - q
        IN /\ ex' = [ex EXCEPT ![i].filled = filled, ![i].leaves = leaves]
           /\ Says(Said("Executed", ex[i].token, ex[i].urn, i, q, filled, leaves))
           /\ UNCHANGED wire_out

ExchangeTakesBack(i) ==
    /\ ex[i].leaves > 0
    /\ \E q \in (IF flow = "NASDAQ" THEN 1..ex[i].leaves ELSE {ex[i].leaves}) : TakeBack(i, q)
    /\ UNCHANGED wire_out

-----------------------------------------------------------------------------
Init ==
    /\ flow \in Flows
    /\ order_pool_ = [s \in Slots |-> NoOrder]
    /\ \E n \in FreeCaps : free = SubSeq(SetToSeq(Slots), 1, n)
    /\ held = {} /\ entered = 0 /\ cancels = 0
    /\ strategy_to_risk_ = <<>> /\ risk_to_builder_ = <<>> /\ store_to_risk_ = <<>>
    /\ building = nullptr /\ user_ref_num = 1
    /\ wire_out = <<>> /\ wire_in = <<>> /\ ex = <<>>
    /\ awaitingAck_orders_ = <<>> /\ our_orders_ = <<>>
    /\ our_orders_wtokenkey_ = <<>> /\ nq_ouch_refnum_ordkey_ = <<>>
    /\ pending_to_strategy_ = <<>> /\ crashed = FALSE /\ missed = {}

Next == \/ store \/ check_risk \/ update_risk \/ Build \/ add_awaitingAck_order
        \/ \E q \in Quantities : EnterOrder(q)
        \/ \E s \in Slots : RequestCancel(s)
        \/ ExchangeAccepts \/ ExchangeCancels
        \/ \E i \in 1..Len(ex) : ExchangeTrades(i) \/ ExchangeTakesBack(i)

Spec == Init /\ [][Next]_vars

-----------------------------------------------------------------------------
(* Properties *)

\* A slot on the free list is nobody's: it is there once, the strategy holds
\* no other order in it, it is in no queue, the builder is not at work on it,
\* none of the maps lead to it (awaitingAck_orders_ of FIX excepted) and the
\* exchange has no live order that was entered from it.
SlotOwnedOnce ==
    /\ IsInjective(free)
    /\ \A s \in Range(free) :
          /\ s \notin held \cup {building}
          /\ s \notin Range(strategy_to_risk_) \cup Range(risk_to_builder_)
          /\ s \notin Range(our_orders_) \cup Range(our_orders_wtokenkey_)
          /\ flow # "FIX" => s \notin Range(awaitingAck_orders_)
          /\ \A i \in 1..Len(ex) : ex[i].leaves > 0 => ex[i].token # order_pool_[s].client_order_id

\* Every map leads from an identifier of the exchange to the slot from which
\* that order was entered, although slots are given back and used again; and
\* with OUCH what is in awaitingAck_orders_ is awaited: its order is on the way
\* to the exchange or the answer on the way back, unless that answer came
\* before the builder had registered the order.
KeysLeadHome ==
    /\ \A id \in DOMAIN our_orders_ : order_pool_[our_orders_[id]].client_order_id = ex[id].token
    /\ \A t \in DOMAIN our_orders_wtokenkey_ : order_pool_[our_orders_wtokenkey_[t]].client_order_id = t
    /\ \A u \in DOMAIN nq_ouch_refnum_ordkey_ : ex[nq_ouch_refnum_ordkey_[u]].urn = u
    /\ flow # "FIX" => \A t \in DOMAIN awaitingAck_orders_ \ missed :
          /\ order_pool_[awaitingAck_orders_[t]].client_order_id = t
          /\ \/ \E i \in 1..Len(wire_out) : wire_out[i].type = "Enter" /\ wire_out[i].token = t
             \/ \E i \in 1..Len(wire_in) : wire_in[i].type \in {"Accepted", "Rejected"} /\ wire_in[i].token = t

\* What the messages of q behind the k-th change of order id.
Behind(q, k, id, types) ==
    Total([j \in 1..Len(q) |-> IF j > k /\ q[j].id = id /\ q[j].type \in types THEN q[j].qty ELSE 0])

\* What the messages about order id that were not handled yet will change.
Parked == [k \in 1..Len(pending_to_strategy_) |-> pending_to_strategy_[k].msg]
Transit(id, types) == Behind(wire_in, 0, id, types) + Behind(Parked, 0, id, types)

\* An order known to the store is what the exchange says it is, up to the
\* messages on their way: no fill is lost, counted twice or taken off the
\* wrong order, and no quantity wraps.  For OUCH this ends with the first
\* message of the order that came before the order was registered or overtook
\* a parked one; FIX recovers, because its reports carry totals.
StoreFollowsExchange ==
    ~crashed => \A id \in DOMAIN our_orders_ :
        LET o == order_pool_[our_orders_[id]]
        IN flow = "FIX" \/ ex[id].token \notin missed =>
             /\ o.filled_quantity + Transit(id, {"Executed"}) = ex[id].filled
             /\ o.remaining_quantity = ex[id].leaves + Transit(id, {"Executed", "Cancelled"})

\* A cancel names an order the exchange got from us, the one it is to cancel.
CancelNamesItsOrder ==
    \A k \in 1..Len(wire_out) : wire_out[k].type = "Cancel" =>
        \E i \in 1..Len(ex) : ExRef(i) = wire_out[k].ref /\ ex[i].token = wire_out[k].token
=============================================================================
