# TradingEngine in TLA+

TLA+ modules, TLC configurations and TLAPS proofs for the C++ trading engine in
this repository. Paths are relative to the repository's `src/` directory; the
`map` in `PROJECT.json` says which lines each definition stands for.

## The system

The engine receives market data (ITCH over UDP) and order messages (OUCH over
SoupBinTCP, FIX over TCP) from two venues (BIST, NASDAQ), keeps a book and its
own orders, checks risk and sends orders. Each thread runs
`while (running_) if (!work()) _mm_pause();` (`flows/*.cpp`) around one
operation, and the threads are joined by pointer queues:

| thread | operation | reads | writes |
|---|---|---|---|
| network | `NetworkIO::recv_send` | sockets, `builder_to_sender_` | `receiver_to_parser_`, sockets |
| parser | `Parser_Dispatch::dispatch` | `receiver_to_parser_` | `parser_to_store_`, `parser_to_fixbuilder_rx_/tx_`, `free_pkt_list_` |
| store | `OrderManager::store` | `parser_to_store_` | order maps, `MarketBook`, `store_to_risk_`, `store_to_strategy_`, `store_to_db_` |
| risk update / risk check | `RiskEngine::update_risk`, `check_risk` | `store_to_risk_`, orders of the strategy | exposures, `risk_to_builder_` |
| builder | `Builder_Dispatch::dispatch` | `risk_to_builder_`, the FIX session queues | `builder_to_sender_`, `awaitingAck_orders_` |
| database | ClickHouse writer | `store_to_db_` | `db_to_parser_` |

The strategy is not implemented in the repository.

## Inventory

| component | state | operations | what is hard | what makes it correct |
|---|---|---|---|---|
| `CustomSpscQueue` | slots, two plain indices | push, pop, full, empty, reset_unsafe | check-then-act without a lock, cache-line remapping, wrap of `size_t` | bounded FIFO |
| `ConcurrentFixedFlatMap` | slots with key, value, state; a counter | insert (builder), find and erase (store), clear | half-written entries, probing past erased slots, counter behind the slots | an acknowledged order is found whole |
| FIX session | sequence numbers, pending map, login flags, two queues | parseFIX, proceedPendingFIX, handle_sesMsg, resend_logic, buildFIX, LoginAttempt | lost, repeated, reordered messages; three threads on one counter; sleeping between test and use | order and uniqueness at the store, fresh outbound numbers, bounded logins |
| received packets | packet pool, free list, parser queue, pend_read | recv_send, releasePacket, dispatch | two producers on a single-producer queue, full queue, failed receives | one owner, order |
| market data | order pool ring, key maps, price levels, best prices | update_order(ITCH), fillers, MarketBook | reused slots, replaced identities, levels and best prices kept apart | the book is the aggregate of displayed orders |
| own orders (`OrderManager`, OUCH/FIX fillers) | our_orders_, awaitingAck_orders_, pending_to_strategy_ | update_order(OUCH, FIX), add_our_order, release_order | acknowledgement before the order is entered, canModify handshake, slot reuse | quantities, one owner per slot, nothing waits for ever |
| `RiskEngine` | books of account, symbol and self-trade levels; flags | update_risk, check_risk | two threads, pointers to orders the store goes on writing, division, unsigned counters | position, open orders, margin and profit follow the booked fills |
| messages (ITCH, OUCH) | pools of objects, free lists, three rings, three queues | ItchPacketHandler, the handlers of each type, update_order, ClickhouseWriter::store, flush_DbQueue | offsets by hand, rings reused in turn, pools that run dry, full queues | what was sent is what is stored, in order; one place per object |
| building, sending, connecting | builder buffers, ring of TxPackets, pending_write_, active_pkt, socket flags | buildOUCH, trySend, send, handleEINPROGRESS, reconnect, closeSocket | buffers and packets used again, partial writes, edge-triggered events, failing connections | messages hold their own order, bytes leave whole and in order, nothing waits unwatched |
| SoupBinTCP | partial packets, sequence number | SBTPacketHandler, pkt_handler | frames across receives | every frame once |
| FIX text, hash tables, logger, start-up | - | formatting, I/O | - | not modelled |

`PROJECT.json` lists the hazards at their lines, each with the properties that
would catch it, or the reason why none does yet.

## Modules

* `Fifo` - what a queue promises: a bounded FIFO whose push fails only when it
  is full and whose pop fails only when it is empty.
* `CustomSpscQueue` - the queue, one step per access to shared memory: load of
  the slot, store into the slot, increment of the thread's own index.
  `reset_unsafe` needs both threads idle, as its name says. The indices wrap at
  `IdxMod`, which stands for 2^64. `Contents` is the refinement mapping to `Fifo`.
* `ConcurrentFixedFlatMap` - the table of orders waiting for an acknowledgement.
  The builder's insert writes key, value and state in three steps; the store
  thread probes state and key in two.
* `FixSession` - both directions of a FIX session. `log` is what the (external,
  conforming) exchange has sent; any of it may arrive at any time, and session
  messages may be replaced by a gap fill. The parser's actions are the branches
  of `parseFIX` and one iteration of its pending loop; the builder's actions
  follow `buildFIX`. `Builder_FIX::build` is two steps, the read of
  `my_next_seqnum` and its increment. `login_retry_count` is a plain integer of
  three threads: the increment may lose the parser's reset.
* `RxPackets` - the life of an `RxPacket`. `free_pkt_list_` is modelled step by
  step because two threads push on it; `receiver_to_parser_` is the FIFO that
  `CustomSpscQueue` is proved to be. The increment of `write_idx_` is a data
  race, so it may lose the other thread's increment.
* `MarketData` - `update_order` for ITCH with the fillers, the ring of market
  orders and `MarketBook`, for one instrument; a behaviour has one venue. The feed
  is in order and complete; `Kinds` chooses the messages the exchange uses, and
  ids, which the code only compares, are given out in order.
* `OwnOrders` - the life of our orders over BIST FIX, BIST OUCH and NASDAQ OUCH
  (a behaviour has one of them), from the strategy through `check_risk` and the
  builder to the exchange and back through `update_order` and the fillers. The
  strategy and the exchange are external; TCP keeps the order of messages.
  `Build` and `add_awaitingAck_order` are the two halves of
  `Builder_Dispatch::dispatch`: an answer may be handled between them. `store` is
  one call of `OrderManager::store`: a parked message whose order is free again,
  or the next one from the parser. Slots of rejected orders are used again.
  `check_risk` passes or refuses as it likes. `missed` is a history variable: the
  tokens of orders for which a message found no order, or overtook a parked one.
  `crashed` stands for the dereference of `end()` in the NASDAQ handler. Maps of
  the code are functions here; that `awaitingAck_orders_` behaves like one is the
  subject of `ConcurrentFixedFlatMap`.
* `RiskEngine` - `update_risk` (one step per book: symbol, self-trade level,
  account, and the status it clears for FIX) and `check_risk` (every limit) for
  one account and symbol, with the store writing the orders that
  `store_to_risk_` points to. The fillers are actions: `Executed`, `Cancelled`,
  `Expired`, and four ways an order is replaced: `Replaced` (new quantity and new
  limit price), `Modified` (NASDAQ, quantity only), `ReplacedOffBook` (BIST,
  order_state 2: the filler returns at once and the unchanged order is pushed all
  the same) and `ReplacedFix` (FIX reports a replace with the status the order
  has, so it is filled in as New, Partial or Filled). Profit and loss of symbol
  (`AfterFill`, `Marked`) and account (`RealizedAccount`, `MarkedAccount`) are
  written by definitions of their own, as by statements of their own in the code.
  History variables: `drift`, the orders of which an update was overwritten before
  it was booked or lost in a full queue; `again`, the orders and the status that
  risk was given a second time; `seen`, what risk found when it last booked an
  order, and the prices it booked it at; `flat`, the value of the trades when a
  sell last closed the position. `stopped` stands for a division by zero and for a
  search for a free slot that does not end.
* `Endian`, `ITCH_BIST`, `ITCH_NASDAQ`, `OUCH_BIST`, `OUCH_NASDAQ` - the readers
  of `Endian.h` as places of bytes, and each handler of the four parsers as the
  places it reads; `Layout` is the generated table of the message's fields.
* `MessageFlow` - a message from its packet through the object of a pool, the
  ring of `MessageWithVenue`, the store, the ring of `DbData`, the database
  thread and back to the free list. `overrun` is a history variable: an entry of
  a ring was handed out while a queue still pointed to it. `crashed` ends a
  behaviour: a null pointer was followed, or a packet had more messages than its
  array of 32 offsets (`MAX_APP_MSG_IN_ONE_DATA`; nobody compares `msg_count` with
  it) or a type the generated headers do not list, whose size is read from behind
  the table (`Undefined`). What the engine does after that is undefined.
* `OUCHBuilders` - each OUCH builder as the places it writes into its ring of
  buffers; a byte is the number of the message that wrote it last. `TxLayout` is
  the layout of the generated headers; of a token or symbol the order has only
  its first `Real` bytes, and what the buffer holds behind them is `Padding`.
* `Sending` - orders through `OUCHBuilders` and the ring of TxPackets to the
  sockets. The network thread is alone on its state, so a handler is one step:
  operators from the state of the two threads to the set of states the handler
  may leave, one for each outcome of its system calls (connect, getsockopt, send,
  each with the error strategies of `GeneratedErrorMap.h`). The loop over
  `pending_write_` is the only RECURSIVE operator of the project. The history
  variables `early` and `reused` name the orders set aside while connecting and
  say that a packet was taken from the ring while in use.
* `Sums` - the sum of a function as the number of its units, which the books of
  `MarketData` and `RiskEngine` and what is under way in `OwnOrders` are stated with.
* `Lemmas` - facts about remainders, sums and cardinalities; `CustomSpscQueueProofs`,
  `ConcurrentFixedFlatMapProofs`, `FixSessionProofs`, `RxPacketsProofs`,
  `MarketDataProofs`, `RiskEngineProofs`, `OwnOrdersProofs` - the theorems.
* `MC*` modules instantiate these; each `.cfg` is one run.

Memory is sequentially consistent in all modules: the code publishes pointers
with release stores and reads them with acquire loads, and every plain variable
is either private to a thread or modelled with the outcomes of its race.

## Runs

| run | instance | shows |
|---|---|---|
| `spsc_queue` | 8 slots (the least the code allows), 2 rounds until the index wraps, 2 pointers | type, contiguity, no lost update, stable answers of full/empty, refinement of `Fifo`; a full queue becomes usable, if the consumer keeps polling |
| `awaiting_ack_map` | 4 slots, colliding keys | no half-written entry is returned, no false miss, room is found, the counter is safe to test |
| `fix_session` | 4 messages of the exchange, at most 2 not accepted yet, of the 5 kinds that carry orders, log in, log out and want an answer, 2 of ours, one Logon allowed until the exchange accepts it (a Reject is handled like a TestRequest, a ResendRequest changes nothing the module keeps) | order and uniqueness at the store; never waiting for a message that is there; nothing is passed over but a message right behind a Logon or SequenceReset; login budget, the race on the counter included; resend requests cover their gap |
| `fix_outbound` | small | violated: see below |
| `rx_packets` | 3 packets, 4 chunks, queue of 1 | one owner; chunks parsed in order |
| `market_data` | both venues, 3 orders, 2 slots, 2 prices, quantities to 2, all messages | keys of BIST lead to their own orders; best prices are those of the book; the book is the aggregate of the market up to the first Replace or priced execution, and never shows less than BIST displays after the pool has wrapped |
| `own_orders` | 3 protocols, 2 slots of which 1 or 2 fit into the queue, 2 orders of quantity 2, 2 cancels, 2 messages on the wire | a free slot has no other owner; keys lead to the right order and what awaits an acknowledgement is awaited; the quantities of an order are the exchange's, up to messages on their way |
| `own_cancel` | NASDAQ | violated: see below |
| `risk` | 3 protocols, 2 orders (a buy of 2, a sell of 1), prices 1 and 2, queue of 2, one move of the market, 2 slots; one replace or cancel request (over OUCH two), or one order with overwritten or lost updates (`Bounds`) | position, open orders, margin, cost, profit and loss and the self-trade levels follow what was booked, up to a status given again; overwritten updates leave the account's profit and loss that of its symbol and no self-trade slot lost or shared |
| `message_flow` | every pair of messages of each feed, in one packet or two; six messages of two types through pools, rings and queues of 2 to 4; packets of up to three messages, unknown types among them, with room for two offsets | fields are decoded where the layout has them, messages are stored once and in the order they were sent, also within a packet, an object is in one place, the engine stops only when a pool is dry or a packet has too many messages or an unknown type |
| `message_reuse` | capacities in the proportions of the code, one type | violated: see below |
| `sending` | 4 orders for one session or 2 for two, ring of 3, 2 sockets, with an exchange; every 3 OUCH messages in a row without one | packets whole and in order behind the login, write event armed exactly while needed, messages hold their own order, and behind a short token or symbol blanks or what an earlier message of the ring left there (at BIST only a longer token); a packet partly sent does not stay so |

Why the bounds are enough. The queue's steps depend only on the slot at an index,
so one more round than the ring exercises every wrap. A gap needs two messages
behind it, one that fills it and one that waits: four messages allow a gap with a
gap fill inside; `MaxAhead`, the number of messages the exchange is ahead of the
parser, bounds the gap. What lies beyond this instance of `FixSession` is covered
by its theorems, which hold for every value of the constants. The pool with
fewer slots than orders wraps; two prices
per side make a best level come and go. Two of our orders in one slot show a slot
used again, in two slots the crossing of their messages; with quantity 2 an order
is filled in one or two executions. A buffer
of a builder is used again by the message after the next; a packet of two chunks
is the shortest that can be sent in part, and a ring of three packets comes round
with the fourth order. A buy of 2 and a sell of 1 open, reduce and flatten a
position in both directions; with two prices a trade is at or better than the
limit and a replace reprices; with two amendments, over OUCH, an order is replaced
twice, or replaced and then cancelled; the theorems hold for every `Bounds`.
Deadlock checking is off where the bound on orders, messages or chunks ends every
behaviour.

Fairness. Every thread polls in a loop, so an enabled step of a call that has
begun is taken: weak fairness on the consumer (`spsc_queue`). In `sending` the
constructor runs to its end, and for each session weak fairness on a writable
event that moves a packet on: an exchange that reads makes the kernel take bytes
again, which raises the event. Nothing is assumed of the connection being made,
of the login or of the strategy.

### Violations

* `fix_outbound`: three threads share `my_next_seqnum`; two messages get one
  number.
* `own_cancel`: a NASDAQ cancel carries the number of the next order, not that of
  the order to cancel.
* `message_reuse`: entries of the ring of `MessageWithVenue` are reused before
  flush_DbQueue follows them; an object is released twice and rewritten before
  the store has read it.

The other deviations have no run of their own; the properties of the passing runs
say how far the code is right in spite of them. `FixSession`: a TestRequest is
answered only when the strategy sends an order (`TakeOrder`). `RxPackets`: two
producers push on the single-producer `free_pkt_list_` and a packet is
overwritten (`OneOwner` says that none is owned twice). `MarketData`: after a
NASDAQ Replace no map knows the new reference. `Sending`: orders set aside while
connecting stay there until a later order is sent in part (`early`); the packet
of a second login keeps its old offset; a send that fails while waiting packets
are flushed leaves the network thread in `modEpoll` for ever (`pc = "spin"`);
`reconnect` does not put the new socket into `socks_`; NASDAQ's buffers are blanked
once and serve all kinds of messages in turn, so behind a short token or symbol
stand bytes of an earlier message, where the builders' unit tests, which build one
message, expect blanks (`MessageIsItsOrder` says which bytes and from which messages).
`MessageFlow`: a packet with more than 32 messages writes behind `offsets`, and an
unknown ITCH type reads behind `ITCHSizeOfs` (`StopsOnlyWhenDry` excepts both).
`RiskEngine`: a buy that flattens a short divides by zero, and self-trade levels
left behind by repriced orders fill the pool (`stopped`); a cancel passes only when
its rate limit is exceeded; a BIST replace with order_state 2 books a Partial or a
New a second time, and a FIX replace of an order without fills another New
(`again`; `PositionMatchesFills` excepts only the Partial, `OpenOrdersMatch` only
the New); a flushed order stays open for risk; a sell that closes the position
leaves the last mark in `unrealized_pnl`.

In `FixSession` a Logon that resets the numbers, and a SequenceReset, set
`expected_seqnum` and have it increased once more; the message with that number is
dropped. `SkipsOnlyBehindSession` says that no other message is.

In `OwnOrders` these are visible and have no run of their own: an answer that
comes before `add_awaitingAck_order` is dropped, and the order is unknown from
then on (`missed`); after a rejected cancel of BIST OUCH `canModify` is 0 and a
message is parked until all three bits are set, while the next one passes with
one bit, so it overtakes (`missed`); NASDAQ executions for an unknown number
dereference `end()` (`crashed`); a FIX reject leaves its entry in
`awaitingAck_orders_`, which then leads to a free slot (`SlotOwnedOnce` excepts
it); `update_risk` ends with the status of a FIX order set to Unknown; slots of
finished orders do not come back to the strategy.

Three more deviations are visible in `MarketData` and listed as hazards without a
run of their own: an execution at another price is taken off the level of that
price, `flush` leaves the best prices of the book that is gone, and an order in a
reused slot starts with the `filled_quantity` of the one before it.
`BookMatchesMarket` therefore stops (history variable `exact`) at the first
Replace or priced execution, and `BestMatchesBook` speaks of sides with a level.

## Proofs

`CustomSpscQueueProofs` proves, for every number of slots that is a multiple of
8, every set of pointers and every `IdxMod` that is a multiple of the number of
slots (the assumptions named in `CustomSpscQueue`):

* `TypeCorrect` - the type invariant;
* `CheckThenActSafe` - between the load and the store of push (pop) the slot
  stays empty (full);
* `HintsStable` - what full() or empty() promised is still true when its thread
  acts;
* `RingContiguous` - the occupied slots are those between the two positions;
* `Refinement` - `Spec => Queue!Spec`.

None of the last four is inductive. The inductive invariant says where each
thread is: the consumer's position and the producer's position, each counted as
already moved when its thread has stored but not yet incremented, are at most N
apart, and a slot is non-null exactly if it lies between them. Its core is
that `remap` is injective on the N indices of a round, which is proved from
the arithmetic of division by 8, and that two positions of a window of N indices
never meet modulo `IdxMod`. Each step of the queue is then shown to be a step of
`Fifo` or a stutter: the store of push is `Push`, the store of pop is `Pop`, the
increments stutter.

`FixSessionProofs` proves, for all kinds of message, bounds, queue capacities and
limits (the assumptions named in `FixSession`):

* `TypeCorrect` - the type invariant;
* `OrderedStore` - the store gets each sequence number at most once, in order;
* `PendingNotStuck` - between two chunks the parser never waits for a message
  that is in `pending_to_store_map_`;
* `GapCovered` - a queued ResendRequest still covers what the parser waits for;
* `SkipsBounded` - the parser passes over no application message but one right
  behind a session message;
* `LoginsBounded` - `login_retry_count` stays within the budget.

`StoreInOrder` is not inductive, since a message with the expected number is
stored without a look at the earlier ones: `OrderInv` adds that every stored
number is behind `expected_seqnum` and that a waiting SequenceReset leads
forward, so that the expectation only grows. `SkipInv` adds to
`SkipsOnlyBehindSession` that waiting messages tell the truth about what the
exchange has sent, and that a number passed too early, which the exchange may not
even have used, lies behind a session message. `LoginBudget` is not inductive
because test and increment are separate steps: `LoginInv` adds that the network
thread's attempt is over before the exchange says anything, that only what it
says makes the builder log in again, and that between LoginDecider's test and
the increment the counter is the value seen, or less if the parser has reset it.

`ConcurrentFixedFlatMapProofs` proves, for every number of slots, set of keys,
hash function and width of `size_t` above the number of slots, the type invariant
and

* `ReaderSeesWhole` - the store thread never sees a half-written entry;
* `LookupFinds` - a look-up does not miss an order that was there when it began;
* `InsertSucceeds` - the lagging, wrapping counter is right whenever it is
  tested, and an insert finds a slot.

The invariant follows the two probes along the path of their key: the slot the
builder fills stays Empty until it is published, an Empty slot (an entry that was
there, for the store thread) lies in the part of the path not looked at yet, and
`size_` is the number of Valid slots plus the erase and minus the insert not yet
counted, modulo its width. An insert under way has a slot reserved, without which
the room an erase makes would be counted twice.

`RxPacketsProofs` proves, for every pool, queue capacity and number of chunks, the
type invariant and

* `OneOwnerHolds` - no packet is in two places, although two threads push on a
  queue made for one;
* `ParsedInOrderHolds` - chunks are parsed in the order received, none twice.

`OneOwner` counts places; the invariant (`OwnerInv`) says which places of the
free list, the queue, `pend_read` and the two hands can be equal: only the slot
that pop has loaded and not yet cleared still holds what the network thread has.
`OrderInv` orders the chunks along the pipeline.

`MarketDataProofs` proves, for all ids, prices and quantities, every pool size and
number of orders (assumed: what is displayed at one price fits a `uint32_t`,
`LevelAssumption`), the type invariant and

* `OwnSlotHolds` - keys of BIST lead to their own orders across the reuse of slots;
* `BestMatches` - the published best prices are those of the book;
* `BookMatches` - the book is the sum of what the exchange displays at each price,
  until the first Replace or priced execution; for BIST it never shows less.

The sums are handled by `TotalChange` (one term changed) of `Lemmas`. `MirrorInv`
says that a displayed order that can be found is in its slot as displayed, and
`BoundInv` bounds a level by all orders there ever were, so that no addition wraps.

`RiskEngineProofs` proves, for any orders, prices, quantities, limits, number of
slots and capacity of the queue (assumed: there are fewer orders than the account
can count, `CountAssumption`), the type invariant and

* `PositionMatches` - the position is the sum of the booked fills, unless an update
  was overwritten or lost or a Partial given again;
* `OpenOrders` - the counts of open orders are those of the orders that are open,
  unless an update was overwritten or a New given again; and so is the margin in
  use, as long as every order keeps the price it was entered at (`even`);
* `TradesAccounted` - since a sell last closed the position, cost basis less
  realized profit is the value of the booked trades; the account has the realized
  and the marked profit of its symbol after every step;
* `LevelsGuarded` - no self-trade slot is lost or shared, and a level only one
  order was booked at is guarded until the order ends there.

None of these is inductive. `Life` says what the store's order and the exchange's
have in common; `Owed` what the queue still owes risk: an order that waits differs
from what risk last booked by exactly what its status says (`Due`), or is the one
risk has booked, in a status it was given again (`Same`, `Known`); any other order
does not differ at all (`Done`). `Lived` holds whatever became of the queue and ties
the prices of store, exchange and risk together while the order is `even`.
`KeyInv` follows the levels of an order through repricing. Since update_risk books
the symbol and the account in two steps, the invariants about the account speak of
`Account`, the books as the step under way will leave them. Behaviours with an
overwritten update (`drift`) are part of the proof: types, slots and the totals of
profit and loss hold there too.

`OwnOrdersProofs` proves, for BIST FIX, BIST OUCH and NASDAQ OUCH, for any number
of slots, orders, cancels and messages on the wires, any capacity of
`awaitingAck_orders_` and any modulus of the quantities,

* `SlotsOwnedOnce` - a slot given back to the strategy is nobody's;
* `KeysHome` - every map leads from an identifier of the exchange to the slot its
  order was entered from, and with OUCH what is awaited is on the wires or was
  missed;
* `StoreFollows` - what the store holds of an order is what the exchange says of
  it, up to the messages on the wire or parked;
* `CancelsNamed` - with both protocols of BIST a cancel names the order it is to
  cancel (NASDAQ is the subject of `own_cancel`).

The first two are not inductive: that a slot may be given back depends on where the refused
order is. The invariant (`IInv`) follows a token: it is sent once, and is then on
its way to the exchange (`Ordered`), in its book (`Taken`) or on the way back as a
refusal (`Refused`), in one of the three (`WireInv`). `PlaceInv` says that an order
that was not acknowledged is in one place of free list, held slots, queues and
builder; `SlotInv` that its token is not yet sent there, and that an acknowledged
order is in the exchange's book; `MapInv` that an order is awaited only between
the builder's registration and the acknowledgement. FIX is the exception this
brings to light: a refused order keeps its entry in `awaitingAck_orders_`, so the
entry leads home only while its token is still under way. `MessageInv` says which
refusals concern a new order and which a cancel; the second kind, in OUCH of BIST,
always finds its order by token, so it frees no slot.

`StoreFollowsExchange` needs a second invariant (`LedgerInv`), proved from the
first and valid until the store thread ends. It says why the order of messages
cannot hurt: the Accepted message of an order is handled before all its others
(`FirstInv`), and an order at the exchange is registered, will be by a message on
the wire, or was missed (`RegInv`). A FIX report carries totals, so a report still on
the wire must tell the state of the book up to the messages behind it (`AheadInv`);
a Cancelled message of BIST carries no quantity the filler uses, so behind a parked
one nothing of the order may be left (`ParkInv`). `NameInv` (each token and each
NASDAQ number reached the exchange once) excludes that a fill is taken off another
order, `SizeInv` and the last conjunct of `BalanceInv` that a rest wraps. The sums are
those of `Sums`; `BehindAppend` and `BehindTail` say what a message that is said or
handled adds to them or takes off, `TotalShift` of `Lemmas` carries the second. The
proof has one lemma per action; those of the store come down to three outcomes of a
message: it is parked (`ParkLedger`), it changes no quantity (`StoreKeeps`), or a
filler applies it (`FillLedger`).

Only model-checked: liveness (fairness and ENABLED are out of the prover's
reach); `Sending` (its loop over `pending_write_` is a RECURSIVE operator);
`MessageFlow`, which folds over the messages of a packet and the items of a batch
(what a fold computes is an induction over data); and the expected violations.

## Not modelled

The text of FIX messages (tags, checksum, partial messages), hash tables filled
at start-up, logging, `ClickhouseWriter::insert` (no caller), multicast sockets
and socket options, SoupBinTCP frames cut by a receive and its heartbeats.
`MarketBook::modify_order` has no caller and code that is commented out is not
modelled (`check_order_rate_limit` among it). In `OwnOrders` replacing and expiry
are left out: the repository does not say what the strategy writes into an order
to be replaced; what the store writes is in `RiskEngine`. Halt flags are any value
in `RiskEngine`. In `FixSession` the pool of message objects and retransmission
from the history are left out (a resend changes no state that the module keeps).
In `Sending` the two threads take packets from the ring one after the other; two
that read `next_txPkt` at the same moment get the same packet, which counts as
`reused`. Time is left out everywhere: intervals and rate windows end at any
moment.

## Plan

1. `SoupBinFraming`: SBTPacketHandler against a reference that splits the stream.
2. Composition: `OwnOrders` with the step-by-step map of `ConcurrentFixedFlatMap`.
3. Proofs about `MessageFlow`, with its folds stated as functions of the position.
