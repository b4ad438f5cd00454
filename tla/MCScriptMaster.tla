--------------------------- MODULE MCScriptMaster ---------------------------
(* Answers and events for ScriptMaster: a share, an option on it, a second    *)
(* share of the same name, the option without a numeric code, and rows that   *)
(* are dropped: one without a code, and a second one of a code.               *)
EXTENDS ScriptMaster

CONSTANTS tcs, ine, x1, x2, odd, k1, ce, d1, eq, opt

Raw(code, type, option, strike, expiry) ==
  [code |-> code, exchange |-> Missing, segment |-> Missing, symbol |-> tcs,
   others |-> {}, isin |-> ine, type |-> type, option |-> option,
   strike |-> strike, expiry |-> expiry, lot |-> Missing]

Share     == Raw(x1, eq, Missing, Missing, Missing)
Twin      == [Raw(x2, eq, Missing, Missing, Missing) EXCEPT !.isin = Missing]
Call      == [Raw(x2, opt, ce, k1, d1) EXCEPT !.exchange = Home]
Suspended == Raw(odd, opt, ce, k1, d1)
Broken    == [Twin EXCEPT !.code = Missing]

MCAnswers ==
  {<<Share, Call, Twin>>, <<Broken, Twin, Share>>,
   <<Share, Suspended>>, <<Broken>>}

Event(symbol, isin, option, strike, expiry) ==
  [symbol |-> symbol, exchange |-> Home, segment |-> Missing, isin |-> isin,
   type |-> Missing, option |-> option, strike |-> strike, expiry |-> expiry,
   lot |-> Missing]

MCEvents ==
  {Event(tcs, Missing, Missing, Missing, Missing),
   Event(tcs, ine, Missing, Missing, Missing),
   Event(tcs, Missing, ce, k1, d1)}
=============================================================================
