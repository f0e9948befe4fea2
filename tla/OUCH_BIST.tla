----------------------------- MODULE OUCH_BIST ------------------------------
(***************************************************************************)
(* BIST OUCH: the messages as the generated header lays them out, each     *)
(* field at an offset and with a length, and what the parser reads into    *)
(* the fields of the object it took from the pool of that message.         *)
(***************************************************************************)
EXTENDS Endian

OUCHOrderAcceptedMessage ==
   [timestamp |-> <<1, 8>>, order_id |-> <<28, 8>>, quantity |-> <<36, 8>>, pre_trade_qty |-> <<114, 8>>,
    display_qty |-> <<122, 8>>, order_book_id |-> <<23, 4>>, price |-> <<44, 4>>, message_type |-> <<0, 1>>,
    order_token |-> <<9, 14>>, side |-> <<27, 1>>, time_in_force |-> <<48, 1>>, client_account |-> <<50, 16>>,
    customer_info |-> <<67, 15>>, exchange_info |-> <<82, 32>>, open_close |-> <<49, 1>>, order_state |-> <<66, 1>>,
    client_category |-> <<130, 1>>, offhours |-> <<131, 1>>, smp_level |-> <<132, 1>>, smp_method |-> <<133, 1>>,
    smp_ID |-> <<134, 3>>]
OUCHOrderRejectedMessage ==
   [timestamp |-> <<1, 8>>, reject_code |-> <<23, 4>>, message_type |-> <<0, 1>>, order_token |-> <<9, 14>>]
OUCHOrderReplacedMessage ==
   [timestamp |-> <<1, 8>>, order_id |-> <<42, 8>>, quantity |-> <<50, 8>>, pre_trade_qty |-> <<128, 8>>,
    order_book_id |-> <<37, 4>>, price |-> <<58, 4>>, message_type |-> <<0, 1>>,
    previous_order_token |-> <<23, 14>>, side |-> <<41, 1>>, time_in_force |-> <<62, 1>>, open_close |-> <<63, 1>>,
    order_state |-> <<80, 1>>, client_category |-> <<144, 1>>, order_token |-> <<9, 14>>,
    exchange_info |-> <<96, 32>>, client_account |-> <<64, 16>>, customer_info |-> <<81, 15>>,
    display_qty |-> <<136, 8>>]
OUCHOrderCancelledMessage ==
   [timestamp |-> <<1, 8>>, order_id |-> <<28, 8>>, order_book_id |-> <<23, 4>>, message_type |-> <<0, 1>>,
    order_token |-> <<9, 14>>, side |-> <<27, 1>>, reason |-> <<36, 1>>]
OUCHOrderExecutedMessage ==
   [timestamp |-> <<1, 8>>, traded_quantity |-> <<27, 8>>, order_book_id |-> <<23, 4>>, trade_price |-> <<35, 4>>,
    message_type |-> <<0, 1>>, order_token |-> <<9, 14>>, match_id |-> <<39, 12>>, client_category |-> <<51, 1>>,
    reserved |-> <<52, 16>>]
-----------------------------------------------------------------------------
parseOrderAccepted(data) ==
   [timestamp |-> read_u64_be(data + 1), order_id |-> read_u64_be(data + 28), quantity |-> read_u64_be(data + 36),
    pre_trade_qty |-> read_u64_be(data + 114), display_qty |-> read_u64_be(data + 122),
    order_book_id |-> read_u32_be(data + 23), price |-> read_i32_be(data + 44), message_type |-> byte(data),
    order_token |-> memcpy(data + 9, 14), side |-> byte(data + 27), time_in_force |-> byte(data + 48),
    client_account |-> memcpy(data + 50, 16), customer_info |-> memcpy(data + 67, 15),
    exchange_info |-> memcpy(data + 82, 32), open_close |-> byte(data + 49), order_state |-> byte(data + 66),
    client_category |-> byte(data + 130), offhours |-> byte(data + 131), smp_level |-> byte(data + 132),
    smp_method |-> byte(data + 133), smp_ID |-> memcpy(data + 134, 3)]
parseOrderRejected(data) ==
   [timestamp |-> read_u64_be(data + 1), reject_code |-> read_i32_be(data + 23), message_type |-> byte(data),
    order_token |-> memcpy(data + 9, 14)]
parseOrderReplaced(data) ==
   [timestamp |-> read_u64_be(data + 1), order_id |-> read_u64_be(data + 42), quantity |-> read_u64_be(data + 50),
    pre_trade_qty |-> read_u64_be(data + 128), order_book_id |-> read_u32_be(data + 37),
    price |-> read_i32_be(data + 58), message_type |-> byte(data), previous_order_token |-> memcpy(data + 23, 14),
    side |-> byte(data + 41), time_in_force |-> byte(data + 62), open_close |-> byte(data + 63),
    order_state |-> byte(data + 80), client_category |-> byte(data + 144), display_qty |-> read_u64_be(data + 136),
    order_token |-> memcpy(data + 9, 14), exchange_info |-> memcpy(data + 96, 32),
    client_account |-> memcpy(data + 64, 16), customer_info |-> memcpy(data + 81, 15)]
parseOrderCancelled(data) ==
   [timestamp |-> read_u64_be(data + 1), order_id |-> read_u64_be(data + 28),
    order_book_id |-> read_u32_be(data + 23), message_type |-> byte(data), order_token |-> memcpy(data + 9, 14),
    side |-> byte(data + 27), reason |-> byte(data + 36)]
parseOrderExecuted(data) ==
   [timestamp |-> read_u64_be(data + 1), traded_quantity |-> read_u64_be(data + 27),
    order_book_id |-> read_u32_be(data + 23), trade_price |-> read_i32_be(data + 35), message_type |-> byte(data),
    order_token |-> memcpy(data + 9, 14), match_id |-> memcpy(data + 39, 12), client_category |-> byte(data + 51),
    reserved |-> memcpy(data + 52, 16)]
-----------------------------------------------------------------------------
Layout ==
   [A |-> OUCHOrderAcceptedMessage, J |-> OUCHOrderRejectedMessage, U |-> OUCHOrderReplacedMessage,
    C |-> OUCHOrderCancelledMessage, E |-> OUCHOrderExecutedMessage]
MessageHandlers(type, data) ==
    CASE type = "A" -> parseOrderAccepted(data)
      [] type = "J" -> parseOrderRejected(data)
      [] type = "U" -> parseOrderReplaced(data)
      [] type = "C" -> parseOrderCancelled(data)
      [] type = "E" -> parseOrderExecuted(data)
=============================================================================
