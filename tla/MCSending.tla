----------------------------- MODULE MCSending -----------------------------
EXTENDS Sending

Order(v, k, t, y) == [venue |-> v, kind |-> k, token |-> t, symbol |-> y]
AllKinds(t, y) == {Order("BIST", k, t, y) : k \in DOMAIN BIST_size}
                  \cup {Order("NASDAQ", k, t, y) : k \in DOMAIN NASDAQ_size}

\* Orders of one or two chunks, for one session and for two.
MCPlans == {<<Order("NASDAQ", "Enter", 14, 8), Order("NASDAQ", "Cancel", 14, 8),
              Order("NASDAQ", "Replace", 14, 8), Order("NASDAQ", "Modify", 14, 8)>>,
            <<Order("BIST", "Enter", 14, 8), Order("NASDAQ", "Cancel", 14, 8)>>}

\* Three messages in a row, so that a buffer is used twice, of every kind,
\* with a token and a symbol as long as those of the unit tests; where their
\* length matters, also with one that fills its field.
MCQuietPlans == [1..3 -> AllKinds(13, 4) \cup {o \in AllKinds(14, 8) : o.kind \in {"Enter", "Replace"}}]
=============================================================================
