----------------------------- MODULE MessageFlow -----------------------------
(***************************************************************************)
(* The life of an ITCH or OUCH message between the parser thread, which    *)
(* finds the messages of a packet and decodes each into an object of the   *)
(* pool of its type, the store thread, which applies it, the database      *)
(* thread, which has nothing to do with it yet, and back to the parser     *)
(* thread, which releases the objects once every DB_QUEUE_THRESHOLD        *)
(* packets.  The threads hand each other pointers into three rings whose   *)
(* entries are reused in turn, whether or not somebody still points there. *)
(* How the store applies a message is OwnOrders' and MarketData's matter;  *)
(* a message that OrderManager parks is followed in OwnOrders.             *)
(***************************************************************************)
EXTENDS Integers, Sequences, SequencesExt, FiniteSets, FiniteSetsExt

CONSTANTS Traffic,      \* what may come in: [feed, types, perPacket, budget], one per behaviour
          PoolCap,      \* POOL_CAPACITY of every type of message
          MwvCap,       \* MESSAGE_POOL_CAPACITY of MessageWithVenuePool<MessageTypes_t>
          TypedCap,     \* and of the MessageWithVenuePool of one feed
          DbDataCap,    \* DBDATA_POOL_CAPACITY
          MsgQueueCap,  \* MESSAGE_QUEUE_CAPACITY
          DbQueueCap,   \* DB_QUEUE_CAPACITY
          Threshold,    \* DB_QUEUE_THRESHOLD, in packets
          MAX_APP_MSG_IN_ONE_DATA,  \* offsets an RxPacket has room for
          Unknown       \* a type the generated headers do not list

Feeds == {"ITCH_BIST", "ITCH_NASDAQ", "OUCH_BIST", "OUCH_NASDAQ"}

BI == INSTANCE ITCH_BIST
NI == INSTANCE ITCH_NASDAQ
BO == INSTANCE OUCH_BIST
NO == INSTANCE OUCH_NASDAQ

ASSUME CapsAreSizes == /\ {PoolCap, MwvCap, TypedCap, DbDataCap, Threshold} \subseteq Nat \ {0}
                       /\ {MsgQueueCap, DbQueueCap, MAX_APP_MSG_IN_ONE_DATA} \subseteq Nat \ {0}
ASSUME TrafficIsKnown ==
    \A t \in Traffic : /\ t.feed \in Feeds /\ {t.perPacket, t.budget} \subseteq Nat
                       /\ t.types \ {Unknown} \subseteq DOMAIN (CASE t.feed = "ITCH_BIST"   -> BI!Layout
                                                                  [] t.feed = "ITCH_NASDAQ" -> NI!Layout
                                                                  [] t.feed = "OUCH_BIST"   -> BO!Layout
                                                                  [] t.feed = "OUCH_NASDAQ" -> NO!Layout)

VARIABLES traffic,            \* what comes in in this behaviour
          sent,               \* the messages of the packets taken so far
          pkt,                \* the packet the parser is at: its messages, their offsets, msg_index
          PktCount,
          pool_, free_list_,  \* per type of message
          mwv, next_mwv,      \* the ring of MessageWithVenue<MessageTypes_t>
          typed, next_typed,  \* the ring of MessageWithVenue of this feed
          dbd, next_dbd,      \* the ring of DbData
          parser_to_store_, store_to_db_, db_to_parser_,
          stored,             \* history: what the store found, and what it should have found
          lost,               \* objects nobody points to any more
          dropped,            \* how many messages found parser_to_store_ full
          overrun,            \* an entry of a ring was handed out while somebody still pointed to it
          crashed             \* a null pointer was followed, or memory read or written behind
                              \* an array: what the engine does then is not followed

objects == <<pool_, free_list_>>
rings == <<mwv, next_mwv, typed, next_typed, dbd, next_dbd>>
queues == <<parser_to_store_, store_to_db_, db_to_parser_>>
vars == <<traffic, sent, pkt, PktCount, objects, rings, queues, stored, lost, dropped, overrun, crashed>>
-----------------------------------------------------------------------------
(* A packet on the wire.                                                   *)

Layout(type) == IF type = Unknown THEN [message_type |-> <<0, 1>>]
                ELSE CASE traffic.feed = "ITCH_BIST"   -> BI!Layout[type]
                       [] traffic.feed = "ITCH_NASDAQ" -> NI!Layout[type]
                       [] traffic.feed = "OUCH_BIST"   -> BO!Layout[type]
                       [] traffic.feed = "OUCH_NASDAQ" -> NO!Layout[type]

WireLen(type) == Max({Layout(type)[f][1] + Layout(type)[f][2] : f \in DOMAIN Layout(type)})

IsOUCH == traffic.feed \in {"OUCH_BIST", "OUCH_NASDAQ"}

\* SoupBinTCP puts a length of two bytes and a type of one before each OUCH message.
SBT_HEADER == IF IsOUCH THEN 3 ELSE 0

SumBefore(sizes, i) == FoldLeft(+, 0, SubSeq(sizes, 1, i - 1))

\* Where the i-th message of a packet starts, its own header not counted.
Start(types, i) == SumBefore([j \in DOMAIN types |-> SBT_HEADER + WireLen(types[j])], i) + SBT_HEADER

\* The message's fields as the exchange wrote them.
Sent(packet, types, i) ==
    [packet |-> packet, type |-> types[i],
     fields |-> [f \in DOMAIN Layout(types[i]) |->
                   LET at == Layout(types[i])[f]
                   IN [b \in 1..at[2] |-> Start(types, i) + at[1] + b - 1]]]
-----------------------------------------------------------------------------
(* The parser thread.                                                      *)

NoPacket == [types |-> <<>>, offsets |-> <<>>, msg_index |-> 1]

MessageHandlers(type, data) == CASE traffic.feed = "ITCH_BIST"   -> BI!MessageHandlers(type, data)
                                 [] traffic.feed = "ITCH_NASDAQ" -> NI!MessageHandlers(type, data)
                                 [] traffic.feed = "OUCH_BIST"   -> BO!MessageHandlers(type, data)
                                 [] traffic.feed = "OUCH_NASDAQ" -> NO!MessageHandlers(type, data)

\* Of a type it does not know, itchMessageIndex says 99, behind the end of the
\* table (Undefined): any size stands for what is read there.
ITCHSizeOfs(type) == IF type = Unknown THEN 0 ELSE IF traffic.feed = "ITCH_BIST" THEN BI!ITCHSizeOfs[type] ELSE NI!ITCHSizeOfs[type]

\* ITCH: the size of the messages before it.
ItchPacketHandler(types) == [i \in DOMAIN types |-> SumBefore([j \in DOMAIN types |-> ITCHSizeOfs(types[j])], i)]

\* OUCH: the lengths SoupBinTCP gives, which SBTPacketHandler has added up.
SbtOffsets(types) == [i \in DOMAIN types |-> Start(types, i) - SBT_HEADER]

\* Neither handler compares msg_count with the array: one offset too many goes
\* over last_pkt_remaining_len, the next over msg_count, and so on.  And ITCH
\* takes the size of an unknown type from behind the table.
Undefined(types) == \/ Len(types) > MAX_APP_MSG_IN_ONE_DATA
                    \/ ~IsOUCH /\ \E i \in DOMAIN types : types[i] = Unknown

\* CustomQueue: a ring of N that holds N - 1.
CustomQueue_push(q, o) == IF Len(q) < PoolCap - 1 THEN Append(q, o) ELSE q

\* &pool[next++ & (CAPACITY - 1)]
Following(next, cap) == (next + 1) % cap
Entry(ring, next, v) == [ring EXCEPT ![next] = v]
Pointed(q, entry) == \E i \in DOMAIN q : q[i].entry = entry

\* Release what the entries of db_to_parser_ point to now.
flush_DbQueue ==
    /\ db_to_parser_' = <<>>
    /\ free_list_' = FoldLeft(LAMBDA fl, item : LET o == typed[dbd[item.entry].mwv]
                                                IN [fl EXCEPT ![o.type] = CustomQueue_push(@, o.obj)],
                              free_list_, db_to_parser_)

dispatch(types) ==
    /\ ~crashed /\ pkt = NoPacket
    /\ Len(sent) + Len(types) <= traffic.budget
    /\ sent' = sent \o [i \in DOMAIN types |-> Sent(Len(sent), types, i)]
    /\ IF PktCount % Threshold = 0 THEN flush_DbQueue /\ PktCount' = 1
                                   ELSE PktCount' = PktCount + 1 /\ UNCHANGED <<free_list_, db_to_parser_>>
    /\ pkt' = [types |-> types, msg_index |-> 1,
               offsets |-> IF IsOUCH THEN SbtOffsets(types) ELSE ItchPacketHandler(types)]
    /\ crashed' = Undefined(types)
    /\ UNCHANGED <<traffic, pool_, rings, parser_to_store_, store_to_db_, stored, lost, dropped, overrun>>

\* The loop over the messages of a packet takes their offsets in turn.
Turn_Backwards == Len(pkt.types) + 1 - pkt.msg_index
Turn == pkt.msg_index

\* The message parse() is called for, as sent, and the place it reads.
Current == sent[Len(sent) - Len(pkt.types) + Turn]
Data == pkt.offsets[Turn] + SBT_HEADER

\* pop leaves the pointer null when the free list is empty, and a byte that is
\* not a type leaves the variant without an object: both are followed.
NothingToFill(type) == type # Unknown => free_list_[type] = <<>> \/ Data # Start(pkt.types, Turn)

Full(q, cap) == Len(q) >= cap

\* ++msg_index, and the packet is released after its last message.
NextMessage == IF pkt.msg_index = Len(pkt.types) THEN NoPacket ELSE [pkt EXCEPT !.msg_index = @ + 1]

parse_Crash ==
    /\ ~crashed /\ pkt # NoPacket /\ NothingToFill(Current.type)
    /\ crashed' = TRUE
    /\ UNCHANGED <<traffic, sent, pkt, PktCount, objects, rings, queues, stored, lost, dropped, overrun>>

parseMessage ==
    /\ ~crashed /\ pkt # NoPacket /\ ~NothingToFill(Current.type)
    /\ LET type == Current.type
           o == Head(free_list_[type])
       IN /\ free_list_' = [free_list_ EXCEPT ![type] = Tail(@)]
          /\ pool_' = [pool_ EXCEPT ![type][o] = [packet |-> Current.packet, type |-> type,
                                                  fields |-> MessageHandlers(type, Data)]]
          /\ mwv' = Entry(mwv, next_mwv, [type |-> type, obj |-> o])
          /\ next_mwv' = Following(next_mwv, MwvCap)
          /\ overrun' = (overrun \/ Pointed(parser_to_store_, next_mwv))
          /\ \/ /\ ~Full(parser_to_store_, MsgQueueCap)
                /\ parser_to_store_' = Append(parser_to_store_,
                                             [entry |-> next_mwv, msg |-> Current])
                /\ UNCHANGED <<lost, dropped>>
             \/ /\ Full(parser_to_store_, MsgQueueCap)   \* push's answer is not looked at
                /\ lost' = lost \cup {[type |-> type, obj |-> o]}
                /\ dropped' = dropped + 1
                /\ UNCHANGED parser_to_store_
    /\ pkt' = NextMessage
    /\ UNCHANGED <<traffic, sent, PktCount, typed, next_typed, dbd, next_dbd, store_to_db_, db_to_parser_, stored, crashed>>

parseITCH_BIST == traffic.feed = "ITCH_BIST" /\ parseMessage
parseITCH_NASDAQ == traffic.feed = "ITCH_NASDAQ" /\ parseMessage
parseOUCH_BIST == traffic.feed = "OUCH_BIST" /\ parseMessage
parseOUCH_NASDAQ == traffic.feed = "OUCH_NASDAQ" /\ parseMessage
-----------------------------------------------------------------------------
(* The store thread.                                                       *)

\* What update_order may make of a message of a type: return early, because it
\* finds no order, the order is our own or there is no slot; hand on a changed
\* order and the message; or hand on the message alone.
update_order_ITCH_BIST(type) ==
    IF type \in {"A", "E", "C", "D", "P"} THEN {"return", "order"} ELSE {"message"}
update_order_ITCH_NASDAQ(type) ==
    IF type \in {"A", "F", "X", "E", "C", "D", "U", "P"} THEN {"return", "order"} ELSE {"message"}
update_order_OUCH_BIST(type) == IF type = "J" THEN {"return", "message"} ELSE {"return", "order"}
update_order_OUCH_NASDAQ(type) == CASE type \in {"A", "U"}      -> {"return", "order"}
                                    [] type = "J"               -> {"return", "message"}
                                    [] type \in {"C", "E", "M"} -> {"order"}
                                    [] OTHER                    -> {"message"}
update_order(type) == CASE traffic.feed = "ITCH_BIST"   -> update_order_ITCH_BIST(type)
                        [] traffic.feed = "ITCH_NASDAQ" -> update_order_ITCH_NASDAQ(type)
                        [] traffic.feed = "OUCH_BIST"   -> update_order_OUCH_BIST(type)
                        [] traffic.feed = "OUCH_NASDAQ" -> update_order_OUCH_NASDAQ(type)

InDb == store_to_db_ \o db_to_parser_
TypedInUse == \E i \in DOMAIN InDb : dbd[InDb[i].entry] = [order |-> FALSE, mwv |-> next_typed]

\* store_to_db_.push(get_DbData(data)): the entry is taken, and kept, whether or
\* not the queue has room.
PushDb(st, data, msg) ==
    [next  |-> Following(st.next, DbDataCap),
     ring  |-> Entry(st.ring, st.next, data),
     over  |-> st.over \/ Pointed(st.queue \o db_to_parser_, st.next),
     full  |-> Full(st.queue, DbQueueCap),
     queue |-> IF Full(st.queue, DbQueueCap) THEN st.queue ELSE Append(st.queue, [entry |-> st.next, msg |-> msg])]

\* The order, if there is one, then the message.
PushAll(outcome, msg) ==
    FoldLeft(LAMBDA st, order : PushDb(st, [order |-> order, mwv |-> next_typed], msg),
             [next |-> next_dbd, ring |-> dbd, over |-> overrun \/ TypedInUse, full |-> FALSE, queue |-> store_to_db_],
             IF outcome = "order" THEN <<TRUE, FALSE>> ELSE <<FALSE>>)

store(outcome) ==
    /\ ~crashed /\ parser_to_store_ # <<>>
    /\ LET q == Head(parser_to_store_)
           o == mwv[q.entry]
           st == PushAll(outcome, q.msg)
       IN /\ outcome \in update_order(o.type)
          /\ parser_to_store_' = Tail(parser_to_store_)
          /\ stored' = Append(stored, [found |-> pool_[o.type][o.obj], msg |-> q.msg])
          /\ typed' = Entry(typed, next_typed, o)
          /\ next_typed' = Following(next_typed, TypedCap)
          /\ \/ /\ outcome # "return"
                /\ dbd' = st.ring /\ next_dbd' = st.next /\ store_to_db_' = st.queue /\ overrun' = st.over
                /\ lost' = lost \cup IF st.full THEN {o} ELSE {}
             \/ /\ outcome = "return"
                /\ overrun' = (overrun \/ TypedInUse)
                /\ lost' = lost \cup {o}
                /\ UNCHANGED <<dbd, next_dbd, store_to_db_>>
    /\ UNCHANGED <<traffic, sent, pkt, PktCount, objects, mwv, next_mwv, db_to_parser_, dropped, crashed>>
-----------------------------------------------------------------------------
(* The database thread: orders go no further, messages back to the parser. *)

ClickhouseWriter_store_Orders ==
    /\ ~crashed /\ store_to_db_ # <<>> /\ ~Full(db_to_parser_, DbQueueCap)
    /\ db_to_parser_' = Append(db_to_parser_, Head(store_to_db_))
    /\ store_to_db_' = Tail(store_to_db_)
    /\ UNCHANGED <<traffic, sent, pkt, PktCount, objects, rings, parser_to_store_, stored, lost, dropped, overrun, crashed>>

ClickhouseWriter_store ==
    /\ ~crashed /\ store_to_db_ # <<>>
    /\ LET item == Head(store_to_db_)
           data == dbd[item.entry]
       IN \/ /\ data.order
             /\ UNCHANGED <<db_to_parser_, lost>>
          \/ /\ ~data.order /\ ~Full(db_to_parser_, DbQueueCap)
             /\ db_to_parser_' = Append(db_to_parser_, item)
             /\ UNCHANGED lost
          \/ /\ ~data.order /\ Full(db_to_parser_, DbQueueCap)
             /\ lost' = lost \cup {typed[data.mwv]}
             /\ UNCHANGED db_to_parser_
    /\ store_to_db_' = Tail(store_to_db_)
    /\ UNCHANGED <<traffic, sent, pkt, PktCount, objects, rings, parser_to_store_, stored, dropped, overrun, crashed>>
-----------------------------------------------------------------------------
\* The types there is a pool for.
Types == traffic.types \ {Unknown}

NoMessage == [packet |-> 0, type |-> "none", fields |-> <<>>]
NoObject == [type |-> "none", obj |-> 0]

\* initialize pushes every object; the last one finds the free list full.
initialize == FoldLeft(LAMBDA fl, o : CustomQueue_push(fl, o), <<>>, [i \in 1..PoolCap |-> i])

Init == /\ traffic \in Traffic
        /\ sent = <<>> /\ pkt = NoPacket /\ PktCount = 1
        /\ pool_ = [t \in Types |-> [i \in 1..PoolCap |-> NoMessage]]
        /\ free_list_ = [t \in Types |-> initialize]
        /\ mwv = [e \in 0..MwvCap - 1 |-> NoObject] /\ next_mwv = 0
        /\ typed = [e \in 0..TypedCap - 1 |-> NoObject] /\ next_typed = 0
        /\ dbd = [e \in 0..DbDataCap - 1 |-> [order |-> TRUE, mwv |-> 0]] /\ next_dbd = 0
        /\ parser_to_store_ = <<>> /\ store_to_db_ = <<>> /\ db_to_parser_ = <<>>
        /\ stored = <<>> /\ dropped = 0 /\ overrun = FALSE /\ crashed = FALSE
        /\ lost = {[type |-> t, obj |-> PoolCap] : t \in Types}

Packets == UNION {[1..n -> traffic.types] : n \in 1..traffic.perPacket}

Next == \/ \E types \in Packets : dispatch(types)
        \/ parseITCH_BIST \/ parseITCH_NASDAQ \/ parseOUCH_BIST \/ parseOUCH_NASDAQ
        \/ parse_Crash \/ ClickhouseWriter_store
        \/ \E outcome \in {"return", "order", "message"} : store(outcome)

Spec == Init /\ [][Next]_vars
-----------------------------------------------------------------------------
\* The objects somebody will still read: queued for the store, or on their way
\* through the database thread back to the free list.
MessagesInDb == SelectSeq(InDb, LAMBDA item : ~dbd[item.entry].order)
InFlight == [i \in DOMAIN parser_to_store_ |-> mwv[parser_to_store_[i].entry]]
              \o [i \in DOMAIN MessagesInDb |-> typed[dbd[MessagesInDb[i].entry].mwv]]

\* Until an entry of a ring is reused too early, every message that waits for
\* the store or the database thread is, field by field, the one the exchange
\* sent: the offsets and widths the parser uses are those of the generated
\* header, the messages of a packet are told apart, and an object is not
\* filled again while it waits.
DecodedAsSent ==
    ~overrun => LET waiting == parser_to_store_ \o MessagesInDb
                IN \A i \in DOMAIN waiting : pool_[InFlight[i].type][InFlight[i].obj] = waiting[i].msg

\* Message m was sent before n: in an earlier packet, or at a lower offset of
\* the same one.
SentBefore(m, n) == \/ m.packet < n.packet
                    \/ m.packet = n.packet /\ m.fields.message_type[1] < n.fields.message_type[1]

\* The store finds the messages in the order of the packets, and those of one
\* packet in the order of their offsets, each one once, with what it carried,
\* less those for which parser_to_store_ had no room.
StoredInOrder ==
    ~overrun => /\ \A i \in DOMAIN stored : stored[i].found = stored[i].msg
                /\ LET seen == [i \in DOMAIN stored |-> stored[i].msg]
                                 \o [i \in DOMAIN parser_to_store_ |-> parser_to_store_[i].msg]
                       unparsed == Len(pkt.types) - (IF pkt = NoPacket THEN 0 ELSE pkt.msg_index - 1)
                   IN /\ Len(seen) + dropped + unparsed = Len(sent)
                      /\ \A i, j \in DOMAIN seen : i < j => SentBefore(seen[i], seen[j])

\* Until an entry of a ring is reused too early, an object is in one place: in
\* the free list of its type, on its way, or lost for good.
ObjectInOnePlace ==
    ~overrun => \A t \in Types, i \in 1..PoolCap :
                  Cardinality({k \in DOMAIN free_list_[t] : free_list_[t][k] = i})
                    + Cardinality({k \in DOMAIN InFlight : InFlight[k] = [type |-> t, obj |-> i]})
                    + (IF [type |-> t, obj |-> i] \in lost THEN 1 ELSE 0) = 1

\* The engine comes to its end only in a packet with more messages than
\* offsets has room for, in one with a type the generated headers do not list,
\* or when the pool of a type has run dry.  In all other packets the offsets
\* that ItchPacketHandler adds up from its table of sizes, and SBTPacketHandler
\* from the lengths of the frames, are the beginnings of messages: none points
\* between two of them.
StopsOnlyWhenDry ==
    crashed => \/ Len(pkt.types) > MAX_APP_MSG_IN_ONE_DATA
               \/ \E i \in DOMAIN pkt.types : pkt.types[i] = Unknown
               \/ free_list_[Current.type] = <<>>

\* A message object is read-only once the parser has filled it: the object the
\* parser is about to fill is not one the store has yet to read.
ReadOnlyOnceFilled ==
    pkt # NoPacket /\ ~crashed /\ ~NothingToFill(Current.type) =>
      \A i \in DOMAIN parser_to_store_ :
        mwv[parser_to_store_[i].entry] # [type |-> Current.type, obj |-> Head(free_list_[Current.type])]
=============================================================================
