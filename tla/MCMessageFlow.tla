---------------------------- MODULE MCMessageFlow ----------------------------
EXTENDS MessageFlow

AllOf(feed, types) == [feed |-> feed, types |-> types, perPacket |-> 2, budget |-> 2]

\* Every pair of messages of each feed in one packet or two, and a longer feed
\* of a message about an order and one about none, which fills the queues and
\* goes round the rings.  Then packets with a message too many, and with a type
\* that is not in the generated headers.
TrafficDef == {AllOf("ITCH_BIST", DOMAIN BI!Layout), AllOf("ITCH_NASDAQ", DOMAIN NI!Layout),
               AllOf("OUCH_BIST", DOMAIN BO!Layout), AllOf("OUCH_NASDAQ", DOMAIN NO!Layout),
               [feed |-> "ITCH_BIST", types |-> {"D", "S"}, perPacket |-> 1, budget |-> 6],
               [feed |-> "ITCH_BIST", types |-> {"D", "S", Unknown}, perPacket |-> 3, budget |-> 4],
               [feed |-> "OUCH_BIST", types |-> {"C", "J", Unknown}, perPacket |-> 3, budget |-> 4]}

\* One kind of message, as many as the objects need to come round.
OneKind == {[feed |-> "ITCH_BIST", types |-> {"S"}, perPacket |-> 1, budget |-> 7]}
=============================================================================
