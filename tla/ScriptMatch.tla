---------------------------- MODULE ScriptMatch ----------------------------
(***************************************************************************)
(* Which instrument an order ack without a scripCode means: the reading of *)
(* Sharekhan's list, the index of the script master cache and              *)
(* match_script_master_records (services/script_master.py).  Texts are     *)
(* compared in upper case without blanks, numbers and dates after parsing; *)
(* here they are equal or not.                                             *)
(***************************************************************************)
EXTENDS Naturals, Sequences

CONSTANTS
  Exchanges,  \* exchanges and segments
  Names,      \* symbols and ISINs
  Codes,      \* scrip codes that are numbers
  OddCodes,   \* and those that are not
  Expiries, Strikes, Options, Lots,
  CashTypes, DerivativeTypes, \* instrument types
  Missing     \* a field without a value

Or(S) == S \cup {Missing}

\* A row of Sharekhan's answer; others: underlying and symbol name.
RawRows ==
  [code : Or(Codes \cup OddCodes), exchange : Or(Exchanges), segment : Or(Exchanges),
   symbol : Or(Names), others : SUBSET Names,
   isin : Or(Names), type : Or(CashTypes \cup DerivativeTypes),
   option : Or(Options), strike : Or(Strikes), expiry : Or(Expiries), lot : Or(Lots)]

\* A stored instrument; names: trading symbol and the others.
Records ==
  [code : Codes \cup OddCodes, exchange : Exchanges, segment : Or(Exchanges),
   names : SUBSET Names, isin : Or(Names), type : Or(CashTypes \cup DerivativeTypes),
   option : Or(Options), strike : Or(Strikes), expiry : Or(Expiries), lot : Or(Lots)]

\* What the ack says about the instrument.
Lookups ==
  [symbol : Or(Names), exchange : Or(Exchanges), segment : Or(Exchanges),
   isin : Or(Names), type : Or(CashTypes \cup DerivativeTypes),
   option : Or(Options), strike : Or(Strikes), expiry : Or(Expiries), lot : Or(Lots)]

Statuses == {"RESOLVED", "UNRESOLVED", "AMBIGUOUS", "CACHE_EMPTY"}

Outcomes == [status : Statuses, code : Or(Codes)]

Outcome(status) == [status |-> status, code |-> Missing]

-----------------------------------------------------------------------------
(* normalize_script_master_response: a row without a code or a trading     *)
(* symbol is dropped, one without an exchange gets the one that was asked  *)
(* for, and of two rows with one code the first is kept.                   *)

Normal(raw, home) ==
  [code |-> raw.code, exchange |-> IF raw.exchange = Missing THEN home ELSE raw.exchange,
   segment |-> raw.segment, names |-> {raw.symbol} \cup raw.others,
   isin |-> raw.isin, type |-> raw.type, option |-> raw.option,
   strike |-> raw.strike, expiry |-> raw.expiry, lot |-> raw.lot]

SameKey(r, q) == r.exchange = q.exchange /\ r.code = q.code

Complete(raw) == Missing \notin {raw.code, raw.symbol}

Normalised(answer, home) ==
  {Normal(answer[i], home) :
     i \in {i \in 1..Len(answer) :
             /\ Complete(answer[i])
             /\ \A j \in 1..(i - 1) :
                  Complete(answer[j]) =>
                    ~SameKey(Normal(answer[i], home), Normal(answer[j], home))}}

-----------------------------------------------------------------------------
Places(x) == {x.exchange, x.segment} \ {Missing}

SamePlace(r, l) == Places(r) \cap Places(l) # {}

\* The key of the identity index: a symbol may hit an ISIN and an ISIN a name.
Indexed(rows, l) ==
  {r \in rows : /\ SamePlace(r, l)
                /\ (r.names \cup {r.isin}) \cap ({l.symbol, l.isin} \ {Missing}) # {}}

SameIdentity(r, l) ==
  \/ l.isin # Missing /\ r.isin = l.isin
  \/ l.symbol \in r.names

Fits(r, l) == SamePlace(r, l) /\ SameIdentity(r, l)

\* Instruments and events that look like an option or a future.
Derivative(x) ==
  \/ x.option # Missing \/ x.strike # Missing \/ x.expiry # Missing
  \/ x.type \in DerivativeTypes

SameContract(r, l) ==
  /\ r.expiry = l.expiry /\ r.strike = l.strike /\ r.option = l.option
  /\ l.type # Missing => r.type = l.type

\* "matches or candidates": the part that matches, all if none does.
Part(S, wanted, Same(_)) ==
  LET matches == {r \in S : Same(r)} IN
    IF wanted = Missing \/ matches = {} THEN S ELSE matches

ByLot(S, l) == Part(S, l.lot, LAMBDA r : r.lot = l.lot)

ByIsin(S, l) == Part(S, l.isin, LAMBDA r : r.isin = l.isin)

Equities(S) ==
  LET cash == {r \in S : ~Derivative(r)} IN IF cash = {} THEN S ELSE cash

\* Mutation: the first of several instruments is taken.
ResolutionFirst(S) ==
  LET codes == {r.code : r \in S} \cap Codes IN
    IF codes = {} THEN Outcome("UNRESOLVED")
    ELSE [status |-> "RESOLVED", code |-> CHOOSE c \in codes : TRUE]

\* _resolution_from_candidates: one code, whichever record it comes from.
Resolution(S) ==
  LET codes == {r.code : r \in S} \cap Codes IN
    IF codes = {} THEN Outcome("UNRESOLVED")
    ELSE IF \E c \in codes : codes = {c}
    THEN [status |-> "RESOLVED", code |-> CHOOSE c \in codes : TRUE]
    ELSE Outcome("AMBIGUOUS")

Candidates(rows, l) ==
  LET fitting == {r \in rows : Fits(r, l)} IN
    IF Derivative(l)
    THEN ByLot({r \in fitting : SameContract(r, l)}, l)
    ELSE ByLot(Equities(ByIsin(fitting, l)), l)

Match(rows, l) ==
  IF rows = {} THEN Outcome("CACHE_EMPTY")
  ELSE IF l.symbol = Missing \/ l.exchange = Missing THEN Outcome("UNRESOLVED")
  ELSE IF Derivative(l) /\ Missing \in {l.expiry, l.strike, l.option}
  THEN Outcome("UNRESOLVED")
  ELSE Resolution(Candidates(rows, l))

\* resolve: the records under the keys of the event, then the match.
Resolve(rows, l) == Match(Indexed(rows, l), l)

-----------------------------------------------------------------------------
(***************************************************************************)
(* What a copied order relies on.  A code is resolved only to an           *)
(* instrument of the list that the event fits; for a derivative that is    *)
(* the contract itself; and no other instrument that fits the event has    *)
(* another code, unless the event's lot size, its ISIN, or its being no    *)
(* derivative tells them apart.                                            *)
(***************************************************************************)
Distinguishes(l, r, q) ==
  \/ l.lot # Missing /\ r.lot = l.lot /\ q.lot # l.lot
  \/ l.isin # Missing /\ ~Derivative(l) /\ r.isin = l.isin /\ q.isin # l.isin
  \/ ~Derivative(l) /\ ~Derivative(r) /\ Derivative(q)

Exact(rows, l, o) ==
  o.status = "RESOLVED" =>
    \E r \in rows :
      /\ r.code = o.code /\ o.code \in Codes
      /\ Fits(r, l)
      /\ Derivative(l) => SameContract(r, l) /\ Missing \notin {r.expiry, r.strike, r.option}
      /\ \A q \in rows :
           /\ Fits(q, l)
           /\ Derivative(l) => SameContract(q, l)
           /\ q.code \in Codes \ {o.code}
           => Distinguishes(l, r, q)
=============================================================================
