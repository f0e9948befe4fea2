---------------------------- MODULE MCRiskEngine ----------------------------
EXTENDS RiskEngine, TLC

\* Limits that some orders of the instance meet and others do not.
MCLim == [ticks |-> {[from |-> 0, to |-> 10, size |-> 1], [from |-> 2, to |-> 0, size |-> 1]},
          max_order_notional |-> 4, max_exposure |-> 6, max_price_deviation |-> 2,
          fat_finger_qty |-> 2, fat_finger_ratio |-> 3000, min_qty |-> 1, max_qty |-> 2, lot |-> 1,
          max_open_account |-> 2, max_open_symbol |-> 2, max_position |-> 2, max_leverage |-> 10000,
          max_daily_loss |-> 3, max_unrealized_loss |-> 3, max_notional |-> 6,
          maker_fee_rate |-> 500000, max_cancels_account |-> 1, max_cancels_symbol |-> 2]
MCQuotes == {<<1, 2>>}
MCEntries == {[side |-> "Buy", price |-> 2, quantity |-> 2], [side |-> "Sell", price |-> 2, quantity |-> 1]}
\* One amendment or one order with a lost update; over OUCH also two amendments.
MCBounds == [f \in {"FIX", "BIST", "NASDAQ"} |->
                {<<1, 0>>, <<0, 1>>} \cup IF f = "FIX" THEN {} ELSE {<<2, 0>>}]
Symmetry == Permutations(Orders) \cup Permutations(Slots)
=============================================================================
