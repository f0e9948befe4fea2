----------------------------- MODULE ITCH_BIST ------------------------------
(***************************************************************************)
(* BIST ITCH: the messages as the generated header lays them out, each     *)
(* field at an offset and with a length, and what the parser reads into    *)
(* the fields of the object it took from the pool of that message.         *)
(***************************************************************************)
EXTENDS Endian

ITCHSecondsMessage == [second |-> <<1, 4>>, message_type |-> <<0, 1>>]
ITCHOrderBookDirectoryMessage ==
   [nominal_value |-> <<105, 8>>, timestamp_ns |-> <<1, 4>>, order_book_id |-> <<5, 4>>, odd_lot_size |-> <<93, 4>>,
    round_lot_size |-> <<97, 4>>, block_lot_size |-> <<101, 4>>, underlying_order_book_id |-> <<114, 4>>,
    strike_price |-> <<118, 4>>, expiration_date |-> <<122, 4>>, decimals_in_price |-> <<89, 2>>,
    decimals_in_nominal |-> <<91, 2>>, decimals_in_strike_price |-> <<126, 2>>, financial_product |-> <<85, 1>>,
    number_of_legs |-> <<113, 1>>, put_or_call |-> <<128, 1>>, ranking_type |-> <<129, 1>>,
    message_type |-> <<0, 1>>, isin |-> <<73, 12>>, symbol |-> <<9, 32>>, long_name |-> <<41, 32>>,
    trading_currency |-> <<86, 3>>]
ITCHCombinationOrderBookLegMessage ==
   [timestamp_ns |-> <<1, 4>>, combination_order_book_id |-> <<5, 4>>, leg_order_book_id |-> <<9, 4>>,
    leg_ratio |-> <<14, 4>>, message_type |-> <<0, 1>>, leg_side |-> <<13, 1>>]
ITCHTickSizeTableEntryMessage ==
   [tick_size |-> <<9, 8>>, timestamp_ns |-> <<1, 4>>, order_book_id |-> <<5, 4>>, price_from |-> <<17, 4>>,
    price_to |-> <<21, 4>>, message_type |-> <<0, 1>>]
ITCHShortSellStatusMessage ==
   [timestamp_ns |-> <<1, 4>>, order_book_id |-> <<5, 4>>, short_sale_restriction |-> <<9, 1>>,
    message_type |-> <<0, 1>>]
ITCHSystemEventMessage == [timestamp_ns |-> <<1, 4>>, message_type |-> <<0, 1>>, event_code |-> <<5, 1>>]
ITCHOrderBookStateMessage ==
   [timestamp_ns |-> <<1, 4>>, order_book_id |-> <<5, 4>>, message_type |-> <<0, 1>>, state_name |-> <<9, 20>>]
ITCHAddOrderMessage ==
   [order_id |-> <<5, 8>>, quantity |-> <<22, 8>>, ranking_time |-> <<37, 8>>, timestamp_ns |-> <<1, 4>>,
    order_book_id |-> <<13, 4>>, ranking_seq_number |-> <<18, 4>>, price |-> <<30, 4>>,
    order_attributes |-> <<34, 2>>, lot_type |-> <<36, 1>>, message_type |-> <<0, 1>>, side |-> <<17, 1>>]
ITCHOrderExecutedMessage ==
   [order_id |-> <<5, 8>>, executed_quantity |-> <<18, 8>>, match_id |-> <<26, 8>>, timestamp_ns |-> <<1, 4>>,
    order_book_id |-> <<13, 4>>, combo_group_id |-> <<34, 4>>, message_type |-> <<0, 1>>, side |-> <<17, 1>>,
    reserved1 |-> <<38, 7>>, reserved2 |-> <<45, 7>>]
ITCHOrderExecutedWithPriceMessage ==
   [order_id |-> <<5, 8>>, executed_quantity |-> <<18, 8>>, match_id |-> <<26, 8>>, timestamp_ns |-> <<1, 4>>,
    order_book_id |-> <<13, 4>>, combo_group_id |-> <<34, 4>>, trade_price |-> <<52, 4>>, message_type |-> <<0, 1>>,
    side |-> <<17, 1>>, reserved1 |-> <<38, 7>>, reserved2 |-> <<45, 7>>, occurred_at_cross |-> <<56, 1>>,
    printable |-> <<57, 1>>]
ITCHOrderDeleteMessage ==
   [order_id |-> <<5, 8>>, timestamp_ns |-> <<1, 4>>, order_book_id |-> <<13, 4>>, message_type |-> <<0, 1>>,
    side |-> <<17, 1>>]
ITCHOrderBookFlushMessage == [timestamp_ns |-> <<1, 4>>, order_book_id |-> <<5, 4>>, message_type |-> <<0, 1>>]
ITCHTradeMessage ==
   [match_id |-> <<5, 8>>, quantity |-> <<18, 8>>, timestamp_ns |-> <<1, 4>>, combo_group_id |-> <<13, 4>>,
    order_book_id |-> <<26, 4>>, trade_price |-> <<30, 4>>, message_type |-> <<0, 1>>, side |-> <<17, 1>>,
    reserved1 |-> <<34, 7>>, reserved2 |-> <<41, 7>>, printable |-> <<48, 1>>, occurred_at_cross |-> <<49, 1>>]
ITCHEquilibriumPriceUpdateMessage ==
   [available_bid_quantity |-> <<9, 8>>, available_ask_quantity |-> <<17, 8>>, best_bid_quantity |-> <<37, 8>>,
    best_ask_quantity |-> <<45, 8>>, timestamp_ns |-> <<1, 4>>, order_book_id |-> <<5, 4>>,
    equilibrium_price |-> <<25, 4>>, best_bid_price |-> <<29, 4>>, best_ask_price |-> <<33, 4>>,
    message_type |-> <<0, 1>>]
-----------------------------------------------------------------------------
parseSeconds(data) == [second |-> read_u32_be(data + 1), message_type |-> byte(data)]
parseOrderBookDirectory(data) ==
   [nominal_value |-> read_u64_be(data + 105), timestamp_ns |-> read_u32_be(data + 1),
    order_book_id |-> read_u32_be(data + 5), odd_lot_size |-> read_u32_be(data + 93),
    round_lot_size |-> read_u32_be(data + 97), block_lot_size |-> read_u32_be(data + 101),
    underlying_order_book_id |-> read_u32_be(data + 114), strike_price |-> read_i32_be(data + 118),
    expiration_date |-> read_u32_be(data + 122), decimals_in_price |-> read_u16_be(data + 89),
    decimals_in_nominal |-> read_u16_be(data + 91), decimals_in_strike_price |-> read_u16_be(data + 126),
    financial_product |-> byte(data + 85), number_of_legs |-> byte(data + 113), put_or_call |-> byte(data + 128),
    ranking_type |-> byte(data + 129), message_type |-> byte(data), isin |-> memcpy(data + 73, 12),
    symbol |-> memcpy(data + 9, 32), long_name |-> memcpy(data + 41, 32), trading_currency |-> memcpy(data + 86, 3)]
parseCombinationOrderBookLeg(data) ==
   [timestamp_ns |-> read_u32_be(data + 1), combination_order_book_id |-> read_u32_be(data + 5),
    leg_order_book_id |-> read_u32_be(data + 9), leg_ratio |-> read_u32_be(data + 14), message_type |-> byte(data),
    leg_side |-> byte(data + 13)]
parseTickSizeTableEntry(data) ==
   [tick_size |-> read_u64_be(data + 9), timestamp_ns |-> read_u32_be(data + 1),
    order_book_id |-> read_u32_be(data + 5), price_from |-> read_i32_be(data + 17),
    price_to |-> read_i32_be(data + 21), message_type |-> byte(data)]
parseShortSellStatus(data) ==
   [timestamp_ns |-> read_u32_be(data + 1), order_book_id |-> read_u32_be(data + 5),
    short_sale_restriction |-> byte(data + 9), message_type |-> byte(data)]
parseSystemEvent(data) ==
   [timestamp_ns |-> read_u32_be(data + 1), message_type |-> byte(data), event_code |-> byte(data + 5)]
parseOrderBookState(data) ==
   [timestamp_ns |-> read_u32_be(data + 1), order_book_id |-> read_u32_be(data + 5), message_type |-> byte(data),
    state_name |-> memcpy(data + 9, 20)]
parseAddOrder(data) ==
   [order_id |-> read_u64_be(data + 5), quantity |-> read_u64_be(data + 22),
    ranking_time |-> read_u64_be(data + 37), timestamp_ns |-> read_u32_be(data + 1),
    order_book_id |-> read_u32_be(data + 13), ranking_seq_number |-> read_u32_be(data + 18),
    price |-> read_i32_be(data + 30), order_attributes |-> read_u16_be(data + 34), lot_type |-> byte(data + 36),
    message_type |-> byte(data), side |-> byte(data + 17)]
parseOrderExecuted(data) ==
   [order_id |-> read_u64_be(data + 5), executed_quantity |-> read_u64_be(data + 18),
    match_id |-> read_u64_be(data + 26), timestamp_ns |-> read_u32_be(data + 1),
    order_book_id |-> read_u32_be(data + 13), combo_group_id |-> read_u32_be(data + 34),
    message_type |-> byte(data), side |-> byte(data + 17), reserved1 |-> memcpy(data + 38, 7),
    reserved2 |-> memcpy(data + 45, 7)]
parseOrderExecutedWithPrice(data) ==
   [order_id |-> read_u64_be(data + 5), executed_quantity |-> read_u64_be(data + 18),
    match_id |-> read_u64_be(data + 26), timestamp_ns |-> read_u32_be(data + 1),
    order_book_id |-> read_u32_be(data + 13), combo_group_id |-> read_u32_be(data + 34),
    trade_price |-> read_i32_be(data + 52), message_type |-> byte(data), side |-> byte(data + 17),
    reserved1 |-> memcpy(data + 38, 7), reserved2 |-> memcpy(data + 45, 7), occurred_at_cross |-> byte(data + 56),
    printable |-> byte(data + 57)]
parseOrderDelete(data) ==
   [order_id |-> read_u64_be(data + 5), timestamp_ns |-> read_u32_be(data + 1),
    order_book_id |-> read_u32_be(data + 13), message_type |-> byte(data), side |-> byte(data + 17)]
parseOrderBookFlush(data) ==
   [timestamp_ns |-> read_u32_be(data + 1), order_book_id |-> read_u32_be(data + 5), message_type |-> byte(data)]
parseTrade(data) ==
   [match_id |-> read_u64_be(data + 5), quantity |-> read_u64_be(data + 18), timestamp_ns |-> read_u32_be(data + 1),
    combo_group_id |-> read_u32_be(data + 13), order_book_id |-> read_u32_be(data + 26),
    trade_price |-> read_i32_be(data + 30), message_type |-> byte(data), side |-> byte(data + 17),
    reserved1 |-> memcpy(data + 34, 7), reserved2 |-> memcpy(data + 41, 7), printable |-> byte(data + 48),
    occurred_at_cross |-> byte(data + 49)]
parseEquilibriumPriceUpdate(data) ==
   [available_bid_quantity |-> read_u64_be(data + 9), available_ask_quantity |-> read_u64_be(data + 17),
    best_bid_quantity |-> read_u64_be(data + 37), best_ask_quantity |-> read_u64_be(data + 45),
    timestamp_ns |-> read_u32_be(data + 1), order_book_id |-> read_u32_be(data + 5),
    equilibrium_price |-> read_i32_be(data + 25), best_bid_price |-> read_i32_be(data + 29),
    best_ask_price |-> read_i32_be(data + 33), message_type |-> byte(data)]
-----------------------------------------------------------------------------
Layout ==
   [T |-> ITCHSecondsMessage, R |-> ITCHOrderBookDirectoryMessage, M |-> ITCHCombinationOrderBookLegMessage,
    L |-> ITCHTickSizeTableEntryMessage, V |-> ITCHShortSellStatusMessage, S |-> ITCHSystemEventMessage,
    O |-> ITCHOrderBookStateMessage, A |-> ITCHAddOrderMessage, E |-> ITCHOrderExecutedMessage,
    C |-> ITCHOrderExecutedWithPriceMessage, D |-> ITCHOrderDeleteMessage, Y |-> ITCHOrderBookFlushMessage,
    P |-> ITCHTradeMessage, Z |-> ITCHEquilibriumPriceUpdateMessage]
MessageHandlers(type, data) ==
    CASE type = "T" -> parseSeconds(data)
      [] type = "R" -> parseOrderBookDirectory(data)
      [] type = "M" -> parseCombinationOrderBookLeg(data)
      [] type = "L" -> parseTickSizeTableEntry(data)
      [] type = "V" -> parseShortSellStatus(data)
      [] type = "S" -> parseSystemEvent(data)
      [] type = "O" -> parseOrderBookState(data)
      [] type = "A" -> parseAddOrder(data)
      [] type = "E" -> parseOrderExecuted(data)
      [] type = "C" -> parseOrderExecutedWithPrice(data)
      [] type = "D" -> parseOrderDelete(data)
      [] type = "Y" -> parseOrderBookFlush(data)
      [] type = "P" -> parseTrade(data)
      [] type = "Z" -> parseEquilibriumPriceUpdate(data)

ITCHSizeOfs_NoCross == [T |-> 5, R |-> 130, M |-> 18, L |-> 25, V |-> 10, S |-> 6, O |-> 29, A |-> 45,
                        E |-> 52, C |-> 58, D |-> 18, Y |-> 9, P |-> 49, Z |-> 53]
ITCHSizeOfs == [T |-> 5, R |-> 130, M |-> 18, L |-> 25, V |-> 10, S |-> 6, O |-> 29, A |-> 45,
                E |-> 52, C |-> 58, D |-> 18, Y |-> 9, P |-> 50, Z |-> 53]
=============================================================================
