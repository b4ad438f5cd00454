----------------------------- MODULE MCCopyRules -----------------------------
(* Small instances of CopyRules. *)
EXTENDS CopyRules, TLC

\* No property names an order.
OrderSymmetry == Permutations(Orders)

MCDetails ==
  {[side |-> "B", symbol |-> "ONGC", qty |-> 3, price |-> 7],
   [side |-> "S", symbol |-> "SBIN", qty |-> 2, price |-> 5],
   [side |-> "B", symbol |-> "SBIN", qty |-> 1, price |-> 0]}

\* Bounds: acks without an order id on days with one order only, and at most two
\* different reports among them.
Reports == {hash \in known : "stamp" \in DOMAIN hash}

OneOrderIfUnnamed ==
  \/ Reports = {} /\ \A i \in DOMAIN feed : feed[i].id = OrderId
  \/ Cardinality({o \in Orders : master[o].phase # "none"}) <= 1

TwoReports == Cardinality(Reports) <= 2

BoundedSpec == Init /\ [][Next /\ (OneOrderIfUnnamed /\ TwoReports)']_vars

\* What copy_settings gives an account nobody configured.
Default ==
  [enabled |-> TRUE, sizing |-> "SAME_QTY", multiplier |-> 100, fixed |-> 0,
   min |-> 0, max |-> 0, value |-> 0, trades |-> 0, loss |-> 0,
   priceMode |-> "SAME_PRICE", slippage |-> 0,
   allowed |-> {}, blocked |-> {}, sides |-> {"B", "S"}]

MCSettings ==
  {Default,
   [Default EXCEPT !.trades = 1, !.loss = 2, !.priceMode = "MARKET", !.blocked = {"SBIN"}],
   [Default EXCEPT !.trades = 1, !.sizing = "FIXED_QTY", !.fixed = 2, !.max = 2],
   [Default EXCEPT !.sizing = "MULTIPLIER", !.multiplier = 50, !.sides = {"B"}],
   [Default EXCEPT !.sizing = "MULTIPLIER", !.multiplier = 150, !.min = 2, !.max = 3],
   [Default EXCEPT !.priceMode = "LIMIT_WITH_SLIPPAGE", !.slippage = 10, !.value = 21],
   [Default EXCEPT !.priceMode = "LIMIT_WITH_SLIPPAGE", !.slippage = 30, !.value = 21],
   [Default EXCEPT !.sizing = "PERCENT_CAPITAL", !.allowed = {"ONGC"}]}
=============================================================================
