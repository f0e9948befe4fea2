---------------------------- MODULE OUCHBuilders ----------------------------
(***************************************************************************)
(* Builder_OUCH_BIST and Builder_OUCH_NASDAQ: an Order is written into a   *)
(* preallocated buffer, behind a SoupBinTCP header.  The buffers are       *)
(* blanked, and at BIST prefilled, when the builder is constructed and     *)
(* then used again and again, two of them in turn: at BIST two per kind of *)
(* message, at NASDAQ two for all kinds.                                   *)
(*                                                                         *)
(* A byte of a buffer is the number of the message that wrote it last, 0   *)
(* for what the constructor left.  A write is the field it is for, where   *)
(* it starts behind the header and how many bytes it covers.               *)
(***************************************************************************)
EXTENDS Integers

HEADER == 3           \* WriteSBTHeaderForDataPacket: two bytes of length, 'U'
RING == 2             \* DAILY_ENTER, ..., DAILY_OUCH_NASDAQ_MSG_COUNT
MAX_MSG_SIZE == 126

At(field, ofs, len) == [field |-> field, ofs |-> ofs, len |-> len]
Bytes(w) == HEADER + w.ofs .. HEADER + w.ofs + w.len - 1

-----------------------------------------------------------------------------
(* BIST.  o.token: real_cl_ord_token_len, o.symbol: real_symbol_len. *)

BIST_prefill ==
    [Enter |-> {At("type", 0, 1), At("open_close", 33, 1), At("display_quantity", 97, 8),
                At("client_category", 105, 1), At("offhours", 106, 1), At("smp_level", 107, 1),
                At("smp_method", 108, 1), At("reserved", 112, 2)},
     Replace |-> {At("type", 0, 1), At("open_close", 41, 1), At("display_quantity", 105, 8),
                  At("client_category", 113, 1), At("reserved", 114, 8)},
     Cancel |-> {At("type", 0, 1)},
     CancelID |-> {At("type", 0, 1)}]

BIST_buildEnterOrder(o) ==
    {At("token", 1, o.token), At("book", 15, 4), At("side", 19, 1), At("quantity", 20, 8),
     At("price", 28, 4), At("time_in_force", 32, 1), At("client_account", 34, 16),
     At("exchange_info", 65, 32)}

BIST_buildReplaceOrder(o) ==
    {At("existing_token", 1, 14), At("token", 15, o.token), At("quantity", 29, 8),
     At("price", 37, 4), At("client_account", 42, 16), At("exchange_info", 73, 32),
     At("display_quantity", 105, 8), At("client_category", 113, 1)}

BIST_buildCancelOrder(o) == {At("token", 1, 14)}

BIST_buildCancelByOrderID(o) == {At("book", 1, 4), At("side", 5, 1), At("order_id", 6, 8)}

BIST_size == [Enter |-> 117, Replace |-> 125, Cancel |-> 18, CancelID |-> 17]

-----------------------------------------------------------------------------
(* NASDAQ *)

NASDAQ_buildEnterOrder(o) ==
    {At("type", 0, 1), At("user_ref_num", 1, 4), At("side", 5, 1), At("quantity", 6, 4),
     At("symbol", 10, o.symbol), At("price", 18, 8), At("time_in_force", 26, 1),
     At("display", 27, 1), At("capacity", 28, 1), At("sweep", 29, 1), At("cross_type", 30, 1),
     At("token", 31, o.token), At("appendage_length", 45, 2)}

\* Mutant of NASDAQ_buildReplaceOrder: the quantity where EnterOrder has it.
NASDAQ_buildReplaceOrder_AsEnter(o) ==
    {At("type", 0, 1), At("orig_user_ref_num", 1, 4), At("user_ref_num", 5, 4),
     At("quantity", 6, 4), At("price", 13, 8), At("time_in_force", 21, 1), At("display", 22, 1),
     At("sweep", 23, 1), At("token", 24, o.token), At("appendage_length", 38, 2)}

NASDAQ_buildReplaceOrder(o) ==
    {At("type", 0, 1), At("orig_user_ref_num", 1, 4), At("user_ref_num", 5, 4),
     At("quantity", 9, 4), At("price", 13, 8), At("time_in_force", 21, 1), At("display", 22, 1),
     At("sweep", 23, 1), At("token", 24, o.token), At("appendage_length", 38, 2)}

NASDAQ_buildCancelOrder(o) ==
    {At("type", 0, 1), At("user_ref_num", 1, 4), At("quantity", 5, 4), At("appendage_length", 9, 2)}

NASDAQ_buildModifyOrder(o) ==
    {At("type", 0, 1), At("user_ref_num", 1, 4), At("side", 5, 1), At("quantity", 6, 4),
     At("appendage_length", 10, 2)}

NASDAQ_buildAccountQueryRequest(o) == {At("type", 0, 1), At("appendage_length", 1, 2)}

NASDAQ_size == [Enter |-> 50, Replace |-> 43, Cancel |-> 14, Modify |-> 15, Query |-> 6]

-----------------------------------------------------------------------------
(* Choosing a buffer and writing into it *)

Venues == {"BIST", "NASDAQ"}

BIST_OuchMessageBuilders(o) ==
    [Enter |-> BIST_buildEnterOrder(o), Replace |-> BIST_buildReplaceOrder(o),
     Cancel |-> BIST_buildCancelOrder(o), CancelID |-> BIST_buildCancelByOrderID(o)]

NASDAQ_OuchMessageBuilders(o) ==
    [Enter |-> NASDAQ_buildEnterOrder(o), Replace |-> NASDAQ_buildReplaceOrder(o),
     Cancel |-> NASDAQ_buildCancelOrder(o), Modify |-> NASDAQ_buildModifyOrder(o),
     Query |-> NASDAQ_buildAccountQueryRequest(o)]

Writes(o) == IF o.venue = "BIST" THEN BIST_OuchMessageBuilders(o)[o.kind]
             ELSE NASDAQ_OuchMessageBuilders(o)[o.kind]
MsgSize(o) == IF o.venue = "BIST" THEN BIST_size[o.kind] ELSE NASDAQ_size[o.kind]

\* The rings of buffers: enter_messages, replace_messages, ... and messages.
Rings == DOMAIN BIST_size \cup {"NASDAQ"}
RingOf(o) == IF o.venue = "BIST" THEN o.kind ELSE "NASDAQ"
RingSize(r) == IF r = "NASDAQ" THEN MAX_MSG_SIZE ELSE BIST_size[r]
NewBuffers == [r \in Rings |-> [i \in 0..RING - 1 |-> [b \in 0..RingSize(r) - 1 |-> 0]]]

\* build: message number n, for order o, into the next buffer of its ring.
\* next: how many messages of each ring were built before.
SlotOf(o, next) == next[RingOf(o)] % RING
build(bufs, next, o, n) ==
    LET written == 0..HEADER - 1 \cup UNION {Bytes(w) : w \in Writes(o)}
    IN  [bufs EXCEPT ![RingOf(o)][SlotOf(o, next)] =
            [b \in DOMAIN @ |-> IF b \in written THEN n ELSE @[b]]]

-----------------------------------------------------------------------------
(* What the venue reads: the layouts of the outgoing messages, namespace TX *)
(* of GeneratedOUCHMessages_BIST.h and _NASDAQ.h                            *)

TxLayout(o) ==
    CASE o.venue = "BIST" /\ o.kind = "Enter" ->
           {At("type", 0, 1), At("token", 1, 14), At("book", 15, 4), At("side", 19, 1),
            At("quantity", 20, 8), At("price", 28, 4), At("time_in_force", 32, 1),
            At("open_close", 33, 1), At("client_account", 34, 16), At("customer_info", 50, 15),
            At("exchange_info", 65, 32), At("display_quantity", 97, 8),
            At("client_category", 105, 1), At("offhours", 106, 1), At("smp_level", 107, 1),
            At("smp_method", 108, 1), At("smp_ID", 109, 3), At("reserved", 112, 2)}
      [] o.venue = "BIST" /\ o.kind = "Replace" ->
           {At("type", 0, 1), At("existing_token", 1, 14), At("token", 15, 14),
            At("quantity", 29, 8), At("price", 37, 4), At("open_close", 41, 1),
            At("client_account", 42, 16), At("customer_info", 58, 15), At("exchange_info", 73, 32),
            At("display_quantity", 105, 8), At("client_category", 113, 1), At("reserved", 114, 8)}
      [] o.venue = "BIST" /\ o.kind = "Cancel" -> {At("type", 0, 1), At("token", 1, 14)}
      [] o.venue = "BIST" /\ o.kind = "CancelID" ->
           {At("type", 0, 1), At("book", 1, 4), At("side", 5, 1), At("order_id", 6, 8)}
      [] o.venue = "NASDAQ" /\ o.kind = "Enter" ->
           {At("type", 0, 1), At("user_ref_num", 1, 4), At("side", 5, 1), At("quantity", 6, 4),
            At("symbol", 10, 8), At("price", 18, 8), At("time_in_force", 26, 1),
            At("display", 27, 1), At("capacity", 28, 1), At("sweep", 29, 1),
            At("cross_type", 30, 1), At("token", 31, 14), At("appendage_length", 45, 2)}
      [] o.venue = "NASDAQ" /\ o.kind = "Replace" ->
           {At("type", 0, 1), At("orig_user_ref_num", 1, 4), At("user_ref_num", 5, 4),
            At("quantity", 9, 4), At("price", 13, 8), At("time_in_force", 21, 1),
            At("display", 22, 1), At("sweep", 23, 1), At("token", 24, 14),
            At("appendage_length", 38, 2)}
      [] o.venue = "NASDAQ" /\ o.kind = "Cancel" ->
           {At("type", 0, 1), At("user_ref_num", 1, 4), At("quantity", 5, 4),
            At("appendage_length", 9, 2)}
      [] o.venue = "NASDAQ" /\ o.kind = "Modify" ->
           {At("type", 0, 1), At("user_ref_num", 1, 4), At("side", 5, 1), At("quantity", 6, 4),
            At("appendage_length", 10, 2)}
      [] o.venue = "NASDAQ" /\ o.kind = "Query" ->
           {At("type", 0, 1), At("appendage_length", 1, 2)}

Prefilled(o) == IF o.venue = "BIST" THEN BIST_prefill[o.kind] ELSE {}
\* The fields the constructor may have set for good, or left blank.
Constant(o) == {"customer_info", "smp_ID"} \cup {w.field : w \in Prefilled(o)}

\* The bytes of field f that order o has something for: of a token or a
\* symbol as many as the order says.  The others are to be blank.
Real(o, f) == LET real == CASE f.field = "token" /\ o.kind \in {"Enter", "Replace"} -> o.token
                            [] f.field = "symbol" -> o.symbol
                            [] OTHER -> f.len
              IN  Bytes([f EXCEPT !.len = real])
Padding(o, f) == Bytes(f) \ Real(o, f)

\* What order o has for field f was written for this message, number n (or, a
\* constant, by the constructor), and nothing else was written into the field.
OwnField(buf, o, n, f) ==
    /\ \A b \in Real(o, f) : buf[b] = n \/ (f.field \in Constant(o) /\ buf[b] = 0)
    /\ \A w \in Writes(o) \cup Prefilled(o) :
          Bytes(w) \cap Bytes(f) # {} => w.field = f.field /\ Bytes(w) = Real(o, f)
=============================================================================
