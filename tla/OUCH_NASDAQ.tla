---------------------------- MODULE OUCH_NASDAQ -----------------------------
(***************************************************************************)
(* NASDAQ OUCH: the messages as the generated header lays them out, each   *)
(* field at an offset and with a length, and what the parser reads into    *)
(* the fields of the object it took from the pool of that message.         *)
(***************************************************************************)
EXTENDS Endian

OUCHSystemEventMessage == [timestamp |-> <<1, 8>>, message_type |-> <<0, 1>>, event_code |-> <<9, 1>>]
OUCHOrderAcceptedMessage ==
   [timestamp |-> <<1, 8>>, price |-> <<26, 8>>, order_reference_number |-> <<36, 8>>, user_ref_num |-> <<9, 4>>,
    quantity |-> <<14, 4>>, appendage_length |-> <<62, 2>>, message_type |-> <<0, 1>>, side |-> <<13, 1>>,
    symbol |-> <<18, 8>>, time_in_force |-> <<34, 1>>, display |-> <<35, 1>>, capacity |-> <<44, 1>>,
    intermarket_sweep_eligibility |-> <<45, 1>>, cross_type |-> <<46, 1>>, order_state |-> <<47, 1>>,
    cl_ord_id |-> <<48, 14>>]
OUCHOrderReplacedMessage ==
   [timestamp |-> <<1, 8>>, price |-> <<30, 8>>, order_reference_number |-> <<40, 8>>,
    orig_user_ref_num |-> <<9, 4>>, user_ref_num |-> <<13, 4>>, quantity |-> <<18, 4>>,
    appendage_length |-> <<66, 2>>, message_type |-> <<0, 1>>, side |-> <<17, 1>>, symbol |-> <<22, 8>>,
    time_in_force |-> <<38, 1>>, order_state |-> <<51, 1>>, cl_ord_id |-> <<52, 14>>, display |-> <<39, 1>>,
    capacity |-> <<48, 1>>, intermarket_sweep_eligibility |-> <<49, 1>>, cross_type |-> <<50, 1>>]
OUCHOrderCancelledMessage ==
   [timestamp |-> <<1, 8>>, user_ref_num |-> <<9, 4>>, quantity |-> <<13, 4>>, appendage_length |-> <<18, 2>>,
    message_type |-> <<0, 1>>, reason |-> <<17, 1>>]
OUCHOrderExecutedMessage ==
   [timestamp |-> <<1, 8>>, price |-> <<17, 8>>, match_number |-> <<26, 8>>, user_ref_num |-> <<9, 4>>,
    quantity |-> <<13, 4>>, appendage_length |-> <<34, 2>>, message_type |-> <<0, 1>>, liquidity_flag |-> <<25, 1>>]
OUCHOrderRejectedMessage ==
   [timestamp |-> <<1, 8>>, user_ref_num |-> <<9, 4>>, reason |-> <<13, 2>>, appendage_length |-> <<29, 2>>,
    message_type |-> <<0, 1>>, cl_ord_id |-> <<15, 14>>]
OUCHBrokenTradeMessage ==
   [timestamp |-> <<1, 8>>, match_number |-> <<13, 8>>, user_ref_num |-> <<9, 4>>, appendage_length |-> <<36, 2>>,
    message_type |-> <<0, 1>>, reason |-> <<21, 1>>, cl_ord_id |-> <<22, 14>>]
OUCHOrderModifiedMessage ==
   [timestamp |-> <<1, 8>>, user_ref_num |-> <<9, 4>>, quantity |-> <<14, 4>>, appendage_length |-> <<18, 2>>,
    message_type |-> <<0, 1>>, side |-> <<13, 1>>]
OUCHCancelPendingMessage ==
   [timestamp |-> <<1, 8>>, user_ref_num |-> <<9, 4>>, appendage_length |-> <<13, 2>>, message_type |-> <<0, 1>>]
OUCHCancelRejectMessage ==
   [timestamp |-> <<1, 8>>, user_ref_num |-> <<9, 4>>, appendage_length |-> <<13, 2>>, message_type |-> <<0, 1>>]
OUCHAccountQueryResponse ==
   [timestamp |-> <<1, 8>>, next_user_ref_num |-> <<9, 4>>, appendage_length |-> <<13, 2>>,
    message_type |-> <<0, 1>>]
-----------------------------------------------------------------------------
parseSystemEvent(data) ==
   [timestamp |-> read_u64_be(data + 1), message_type |-> byte(data), event_code |-> byte(data + 9)]
parseOrderAccepted(data) ==
   [timestamp |-> read_u64_be(data + 1), user_ref_num |-> read_u32_be(data + 9), price |-> read_i64_be(data + 26),
    order_reference_number |-> read_u64_be(data + 36), quantity |-> read_u32_be(data + 14),
    appendage_length |-> read_u16_be(data + 62), message_type |-> byte(data), side |-> byte(data + 13),
    symbol |-> memcpy(data + 18, 8), time_in_force |-> byte(data + 34), display |-> byte(data + 35),
    capacity |-> byte(data + 44), intermarket_sweep_eligibility |-> byte(data + 45), cross_type |-> byte(data + 46),
    order_state |-> byte(data + 47), cl_ord_id |-> memcpy(data + 48, 14)]
parseOrderReplaced(data) ==
   [timestamp |-> read_u64_be(data + 1), price |-> read_i64_be(data + 30),
    order_reference_number |-> read_u64_be(data + 40), orig_user_ref_num |-> read_u32_be(data + 9),
    user_ref_num |-> read_u32_be(data + 13), quantity |-> read_u32_be(data + 18),
    appendage_length |-> read_u16_be(data + 66), message_type |-> byte(data), side |-> byte(data + 17),
    symbol |-> memcpy(data + 22, 8), time_in_force |-> byte(data + 38), order_state |-> byte(data + 51),
    cl_ord_id |-> memcpy(data + 52, 14), display |-> byte(data + 39), capacity |-> byte(data + 48),
    intermarket_sweep_eligibility |-> byte(data + 49), cross_type |-> byte(data + 50)]
parseOrderCancelled(data) ==
   [timestamp |-> read_u64_be(data + 1), user_ref_num |-> read_u32_be(data + 9),
    quantity |-> read_u32_be(data + 13), appendage_length |-> read_u16_be(data + 18), message_type |-> byte(data),
    reason |-> byte(data + 17)]
parseOrderExecuted(data) ==
   [timestamp |-> read_u64_be(data + 1), price |-> read_i64_be(data + 17), match_number |-> read_u64_be(data + 26),
    user_ref_num |-> read_u32_be(data + 9), quantity |-> read_u32_be(data + 13),
    appendage_length |-> read_u16_be(data + 34), message_type |-> byte(data), liquidity_flag |-> byte(data + 25)]
parseOrderRejected(data) ==
   [timestamp |-> read_u64_be(data + 1), user_ref_num |-> read_u32_be(data + 9), reason |-> read_u16_be(data + 13),
    appendage_length |-> read_u16_be(data + 29), message_type |-> byte(data), cl_ord_id |-> memcpy(data + 15, 14)]
parseBrokenTrade(data) ==
   [timestamp |-> read_u64_be(data + 1), match_number |-> read_u64_be(data + 13),
    user_ref_num |-> read_u32_be(data + 9), appendage_length |-> read_u16_be(data + 36),
    message_type |-> byte(data), reason |-> byte(data + 21), cl_ord_id |-> memcpy(data + 22, 14)]
parseOrderModified(data) ==
   [timestamp |-> read_u64_be(data + 1), user_ref_num |-> read_u32_be(data + 9),
    quantity |-> read_u32_be(data + 14), appendage_length |-> read_u16_be(data + 18), message_type |-> byte(data),
    side |-> byte(data + 13)]
parseCancelPending(data) ==
   [timestamp |-> read_u64_be(data + 1), user_ref_num |-> read_u32_be(data + 9),
    appendage_length |-> read_u16_be(data + 13), message_type |-> byte(data)]
parseCancelReject(data) ==
   [timestamp |-> read_u64_be(data + 1), user_ref_num |-> read_u32_be(data + 9),
    appendage_length |-> read_u16_be(data + 13), message_type |-> byte(data)]
parseAccountQueryResponse(data) ==
   [timestamp |-> read_u64_be(data + 1), next_user_ref_num |-> read_u32_be(data + 9),
    appendage_length |-> read_u16_be(data + 13), message_type |-> byte(data)]
-----------------------------------------------------------------------------
Layout ==
   [S |-> OUCHSystemEventMessage, A |-> OUCHOrderAcceptedMessage, U |-> OUCHOrderReplacedMessage,
    C |-> OUCHOrderCancelledMessage, E |-> OUCHOrderExecutedMessage, J |-> OUCHOrderRejectedMessage,
    B |-> OUCHBrokenTradeMessage, M |-> OUCHOrderModifiedMessage, P |-> OUCHCancelPendingMessage,
    I |-> OUCHCancelRejectMessage, Q |-> OUCHAccountQueryResponse]
MessageHandlers(type, data) ==
    CASE type = "S" -> parseSystemEvent(data)
      [] type = "A" -> parseOrderAccepted(data)
      [] type = "U" -> parseOrderReplaced(data)
      [] type = "C" -> parseOrderCancelled(data)
      [] type = "E" -> parseOrderExecuted(data)
      [] type = "J" -> parseOrderRejected(data)
      [] type = "B" -> parseBrokenTrade(data)
      [] type = "M" -> parseOrderModified(data)
      [] type = "P" -> parseCancelPending(data)
      [] type = "I" -> parseCancelReject(data)
      [] type = "Q" -> parseAccountQueryResponse(data)
=============================================================================
