---------------------------- MODULE ITCH_NASDAQ -----------------------------
(***************************************************************************)
(* NASDAQ ITCH: the messages as the generated header lays them out, each   *)
(* field at an offset and with a length, and what the parser reads into    *)
(* the fields of the object it took from the pool of that message.         *)
(***************************************************************************)
EXTENDS Endian

ITCHAddOrderMessage ==
   [timestamp |-> <<5, 6>>, order_ref |-> <<11, 8>>, shares |-> <<20, 4>>, price |-> <<32, 4>>,
    stock_locate |-> <<1, 2>>, tracking_number |-> <<3, 2>>, message_type |-> <<0, 1>>, side |-> <<19, 1>>,
    stock |-> <<24, 8>>]
ITCHAddOrderMPIDMessage ==
   [timestamp |-> <<5, 6>>, order_ref |-> <<11, 8>>, shares |-> <<20, 4>>, price |-> <<32, 4>>,
    stock_locate |-> <<1, 2>>, tracking_number |-> <<3, 2>>, message_type |-> <<0, 1>>, side |-> <<19, 1>>,
    stock |-> <<24, 8>>, mpid |-> <<36, 4>>]
ITCHCancelMessage ==
   [timestamp |-> <<5, 6>>, order_ref |-> <<11, 8>>, cancelled_shares |-> <<19, 4>>, stock_locate |-> <<1, 2>>,
    tracking_number |-> <<3, 2>>, message_type |-> <<0, 1>>]
ITCHExecutedMessage ==
   [timestamp |-> <<5, 6>>, order_ref |-> <<11, 8>>, match_number |-> <<23, 8>>, executed_shares |-> <<19, 4>>,
    stock_locate |-> <<1, 2>>, tracking_number |-> <<3, 2>>, message_type |-> <<0, 1>>]
ITCHExecutedWithPriceMessage ==
   [timestamp |-> <<5, 6>>, order_ref |-> <<11, 8>>, match_number |-> <<23, 8>>, executed_shares |-> <<19, 4>>,
    execution_price |-> <<32, 4>>, stock_locate |-> <<1, 2>>, tracking_number |-> <<3, 2>>,
    message_type |-> <<0, 1>>, printable |-> <<31, 1>>]
ITCHDeleteMessage ==
   [timestamp |-> <<5, 6>>, order_ref |-> <<11, 8>>, stock_locate |-> <<1, 2>>, tracking_number |-> <<3, 2>>,
    message_type |-> <<0, 1>>]
ITCHReplaceMessage ==
   [timestamp |-> <<5, 6>>, order_ref |-> <<11, 8>>, new_order_ref |-> <<19, 8>>, shares |-> <<27, 4>>,
    price |-> <<31, 4>>, stock_locate |-> <<1, 2>>, tracking_number |-> <<3, 2>>, message_type |-> <<0, 1>>]
ITCHTradeMessage ==
   [timestamp |-> <<5, 6>>, order_ref |-> <<11, 8>>, match_number |-> <<28, 8>>, shares |-> <<20, 4>>,
    price |-> <<24, 4>>, stock_locate |-> <<1, 2>>, tracking_number |-> <<3, 2>>, message_type |-> <<0, 1>>,
    side |-> <<19, 1>>, cross_type |-> <<36, 1>>]
ITCHSystemEventMessage ==
   [timestamp |-> <<5, 6>>, stock_locate |-> <<1, 2>>, tracking_number |-> <<3, 2>>, message_type |-> <<0, 1>>,
    event_code |-> <<11, 1>>]
ITCHStockDirectoryMessage ==
   [timestamp |-> <<5, 6>>, round_lot_size |-> <<21, 4>>, etp_leverage_factor |-> <<34, 4>>,
    stock_locate |-> <<1, 2>>, tracking_number |-> <<3, 2>>, message_type |-> <<0, 1>>, stock |-> <<11, 8>>,
    market_category |-> <<19, 1>>, financial_status_indicator |-> <<20, 1>>, round_lots_only |-> <<25, 1>>,
    issue_classification |-> <<26, 1>>, issue_sub_type |-> <<27, 2>>, authenticity |-> <<29, 1>>,
    short_sale_threshold_indicator |-> <<30, 1>>, ipo_flag |-> <<31, 1>>, luld_reference_price_tier |-> <<32, 1>>,
    etp_flag |-> <<33, 1>>, inverse_indicator |-> <<38, 1>>]
ITCHTradingStateMessage ==
   [timestamp |-> <<5, 6>>, stock_locate |-> <<1, 2>>, tracking_number |-> <<3, 2>>, message_type |-> <<0, 1>>,
    stock |-> <<11, 8>>, trading_state |-> <<19, 1>>, reserved |-> <<20, 1>>, reason |-> <<21, 4>>]
-----------------------------------------------------------------------------
parseAddOrder(data) ==
   [timestamp |-> read_u48_be(data + 5), order_ref |-> read_u64_be(data + 11), shares |-> read_u32_be(data + 20),
    price |-> read_u32_be(data + 32), stock_locate |-> read_u16_be(data + 1),
    tracking_number |-> read_u16_be(data + 3), message_type |-> byte(data), side |-> byte(data + 19),
    stock |-> memcpy(data + 24, 8)]
parseAddOrderMPID(data) ==
   [timestamp |-> read_u48_be(data + 5), order_ref |-> read_u64_be(data + 11), shares |-> read_u32_be(data + 20),
    price |-> read_u32_be(data + 32), stock_locate |-> read_u16_be(data + 1),
    tracking_number |-> read_u16_be(data + 3), message_type |-> byte(data), side |-> byte(data + 19),
    stock |-> memcpy(data + 24, 8), mpid |-> memcpy(data + 36, 4)]
parseCancel(data) ==
   [timestamp |-> read_u48_be(data + 5), order_ref |-> read_u64_be(data + 11),
    cancelled_shares |-> read_u32_be(data + 19), stock_locate |-> read_u16_be(data + 1),
    tracking_number |-> read_u16_be(data + 3), message_type |-> byte(data)]
parseExecuted(data) ==
   [timestamp |-> read_u48_be(data + 5), order_ref |-> read_u64_be(data + 11),
    match_number |-> read_u64_be(data + 23), executed_shares |-> read_u32_be(data + 19),
    stock_locate |-> read_u16_be(data + 1), tracking_number |-> read_u16_be(data + 3), message_type |-> byte(data)]
parseExecutedWithPrice(data) ==
   [timestamp |-> read_u48_be(data + 5), order_ref |-> read_u64_be(data + 11),
    match_number |-> read_u64_be(data + 23), executed_shares |-> read_u32_be(data + 19),
    execution_price |-> read_u32_be(data + 32), stock_locate |-> read_u16_be(data + 1),
    tracking_number |-> read_u16_be(data + 3), message_type |-> byte(data), printable |-> byte(data + 31)]
parseDelete(data) ==
   [timestamp |-> read_u48_be(data + 5), order_ref |-> read_u64_be(data + 11),
    stock_locate |-> read_u16_be(data + 1), tracking_number |-> read_u16_be(data + 3), message_type |-> byte(data)]
parseReplace_Narrow(data) ==
   [timestamp |-> read_u48_be(data + 5), order_ref |-> read_u64_be(data + 11),
    new_order_ref |-> read_u32_be(data + 19), shares |-> read_u32_be(data + 27), price |-> read_u32_be(data + 31),
    stock_locate |-> read_u16_be(data + 1), tracking_number |-> read_u16_be(data + 3), message_type |-> byte(data)]
parseReplace(data) ==
   [timestamp |-> read_u48_be(data + 5), order_ref |-> read_u64_be(data + 11),
    new_order_ref |-> read_u64_be(data + 19), shares |-> read_u32_be(data + 27), price |-> read_u32_be(data + 31),
    stock_locate |-> read_u16_be(data + 1), tracking_number |-> read_u16_be(data + 3), message_type |-> byte(data)]
parseTrade(data) ==
   [timestamp |-> read_u48_be(data + 5), order_ref |-> read_u64_be(data + 11),
    match_number |-> read_u64_be(data + 28), shares |-> read_u32_be(data + 20), price |-> read_u32_be(data + 24),
    stock_locate |-> read_u16_be(data + 1), tracking_number |-> read_u16_be(data + 3), message_type |-> byte(data),
    side |-> byte(data + 19), cross_type |-> byte(data + 36)]
parseSystemEvent(data) ==
   [timestamp |-> read_u48_be(data + 5), stock_locate |-> read_u16_be(data + 1),
    tracking_number |-> read_u16_be(data + 3), message_type |-> byte(data), event_code |-> byte(data + 11)]
parseStockDirectory(data) ==
   [timestamp |-> read_u48_be(data + 5), round_lot_size |-> read_u32_be(data + 21),
    etp_leverage_factor |-> read_u32_be(data + 34), stock_locate |-> read_u16_be(data + 1),
    tracking_number |-> read_u16_be(data + 3), message_type |-> byte(data), stock |-> memcpy(data + 11, 8),
    market_category |-> byte(data + 19), financial_status_indicator |-> byte(data + 20),
    round_lots_only |-> byte(data + 25), issue_classification |-> byte(data + 26),
    issue_sub_type |-> memcpy(data + 27, 2), authenticity |-> byte(data + 29),
    short_sale_threshold_indicator |-> byte(data + 30), ipo_flag |-> byte(data + 31),
    luld_reference_price_tier |-> byte(data + 32), etp_flag |-> byte(data + 33),
    inverse_indicator |-> byte(data + 38)]
parseTradingState(data) ==
   [timestamp |-> read_u48_be(data + 5), stock_locate |-> read_u16_be(data + 1),
    tracking_number |-> read_u16_be(data + 3), message_type |-> byte(data), stock |-> memcpy(data + 11, 8),
    trading_state |-> byte(data + 19), reserved |-> byte(data + 20), reason |-> memcpy(data + 21, 4)]
-----------------------------------------------------------------------------
Layout ==
   [A |-> ITCHAddOrderMessage, F |-> ITCHAddOrderMPIDMessage, X |-> ITCHCancelMessage, E |-> ITCHExecutedMessage,
    C |-> ITCHExecutedWithPriceMessage, D |-> ITCHDeleteMessage, U |-> ITCHReplaceMessage, P |-> ITCHTradeMessage,
    S |-> ITCHSystemEventMessage, R |-> ITCHStockDirectoryMessage, H |-> ITCHTradingStateMessage]
MessageHandlers(type, data) ==
    CASE type = "A" -> parseAddOrder(data)
      [] type = "F" -> parseAddOrderMPID(data)
      [] type = "X" -> parseCancel(data)
      [] type = "E" -> parseExecuted(data)
      [] type = "C" -> parseExecutedWithPrice(data)
      [] type = "D" -> parseDelete(data)
      [] type = "U" -> parseReplace(data)
      [] type = "P" -> parseTrade(data)
      [] type = "S" -> parseSystemEvent(data)
      [] type = "R" -> parseStockDirectory(data)
      [] type = "H" -> parseTradingState(data)

ITCHSizeOfs == [A |-> 36, F |-> 40, X |-> 23, E |-> 31, C |-> 36, D |-> 19, U |-> 35, P |-> 37,
                S |-> 12, R |-> 39, H |-> 25]
=============================================================================
