------------------------------ MODULE CopyRules ------------------------------
(***************************************************************************)
(* From an order ack to the child order: what an ack means, how large a    *)
(* copy account's order becomes, at which price, and which limits stop it. *)
(*                                                                         *)
(* The broker reports the life of a master order (accepted, filled in      *)
(* parts, refused, cancelled) in acks that may be lost on the way.  The    *)
(* session's listener turns them into events, drops what it knows, and     *)
(* applies the settings of every copy account.  LiveCopy shows how this    *)
(* happens concurrently; here one ack is one step, and the amounts are     *)
(* kept.  Quantities are shares, prices paise, multipliers hundredths,     *)
(* slippage percent; a limit of 0 is one that is not set.  Settings do not *)
(* change during the day.                                                  *)
(***************************************************************************)
EXTENDS Integers, FiniteSets, Sequences

CONSTANTS
  Orders,   \* orders of the master on one trading day
  Details,  \* what a master order can be: side, symbol, quantity, price
  Copiers,  \* copy accounts, each a member of the first group that lists it
  Settings, \* copy settings a member can have
  Losses,   \* losses the synchronised positions of an account can show
  Stamps,   \* trade id and event time, as far as an ack has them
  OrderId,  \* in place of a stamp: the ack carries the id of its order
  MaxFeed   \* bound: acks under way at the same time

Sides == {"B", "S"}

ASSUME DetailsAssumption ==
  Details # {} /\ \A d \in Details :
    d.side \in Sides /\ d.qty \in Nat \ {0} /\ d.price \in Nat

ASSUME SettingsAssumption ==
  \A s \in Settings :
    /\ s.multiplier \in Nat \ {0}
    /\ {s.fixed, s.min, s.max, s.value, s.trades, s.loss, s.slippage} \subseteq Nat

ASSUME LossesAssumption == Losses \subseteq Nat

ASSUME StampsAssumption == OrderId \notin Stamps

VARIABLES
  master,  \* the broker's view of each master order
  feed,    \* acks between the broker and the listener
  setting, \* the settings of each copier
  known,   \* duplicate hashes of the events stored so far
  sent     \* child orders sent to the broker

vars == <<master, feed, setting, known, sent>>

Phase == {"none", "sent", "open", "refused", "closed"}

NoOrder == [phase |-> "none", detail |-> CHOOSE d \in Details : TRUE, filled |-> 0]

(***************************************************************************)
(* words: the markers that normalize_sharekhan_ack looks for in AckState;  *)
(* TRADE stands for EXEC and FILL as well, REJECT for CANCEL and the like. *)
(* "TradeConfirmation" has TRADE, "NewOrderRejection" has both others.     *)
(***************************************************************************)
Words == {"NEWORDER", "TRADE", "REJECT"}

Acks == [order : Orders, id : Stamps \cup {OrderId}, words : SUBSET Words,
         traded : Nat, ordered : Nat \ {0}, price : Nat]

ChildOrders ==
  [order : Orders, id : Stamps \cup {OrderId}, copier : Copiers,
   event : [qty : Nat \ {0}, price : Nat],
   qty : Nat \ {0}, price : Int, placed : BOOLEAN]

(***************************************************************************)
(* identity: order id, symbol and side, where the ack has an order id; if  *)
(* not, the trade id, symbol, side, quantity, price and event time.        *)
(***************************************************************************)
OrderHashes == [order : Orders]
ReportHashes == [stamp : Stamps, symbol : {d.symbol : d \in Details}, side : Sides,
                 event : [qty : Nat \ {0}, price : Nat]]

TypeOK ==
  /\ master \in [Orders -> [phase : Phase, detail : Details, filled : Nat]]
  /\ feed \in Seq(Acks)
  /\ setting \in [Copiers -> Settings]
  /\ known \in SUBSET (OrderHashes \cup ReportHashes)
  /\ sent \in SUBSET ChildOrders

Init ==
  /\ master = [o \in Orders |-> NoOrder]
  /\ feed = <<>>
  /\ setting \in [Copiers -> Settings]
  /\ known = {}
  /\ sent = {}

-----------------------------------------------------------------------------
(* The broker.                                                             *)

Emit(o, words, traded, price) ==
  /\ Len(feed) < MaxFeed
  /\ \E id \in Stamps \cup {OrderId} :
       feed' = Append(feed, [order |-> o, id |-> id, words |-> words, traded |-> traded,
                             ordered |-> master[o].detail.qty, price |-> price])

Place(o, detail) ==
  /\ master[o].phase = "none"
  /\ master' = [master EXCEPT ![o] = [phase |-> "sent", detail |-> detail, filled |-> 0]]
  /\ UNCHANGED <<feed, setting, known, sent>>

\* NewOrderConfirmation; its frame may be repeated.
Confirm(o) ==
  /\ master[o].phase \in {"sent", "open"}
  /\ master' = [master EXCEPT ![o].phase = "open"]
  /\ Emit(o, {"NEWORDER"}, 0, master[o].detail.price)
  /\ UNCHANGED <<setting, known, sent>>

\* TradeConfirmation for n shares, the trade price at or around the order's.
Fill(o, n, price) ==
  /\ master[o].phase = "open"
  /\ n \in 1 .. master[o].detail.qty - master[o].filled
  /\ master' = [master EXCEPT ![o].filled = @ + n]
  /\ Emit(o, {"TRADE"}, n, price)
  /\ UNCHANGED <<setting, known, sent>>

\* NewOrderRejection: the order never was in the market.
Refuse(o) ==
  /\ master[o].phase = "sent"
  /\ master' = [master EXCEPT ![o].phase = "refused"]
  /\ Emit(o, {"NEWORDER", "REJECT"}, 0, master[o].detail.price)
  /\ UNCHANGED <<setting, known, sent>>

\* What is left of the order is cancelled; the ack may repeat what was filled.
Cancel(o) ==
  /\ master[o].phase = "open"
  /\ master' = [master EXCEPT ![o].phase = "closed"]
  /\ \E n \in {0, master[o].filled} : Emit(o, {"REJECT"}, n, master[o].detail.price)
  /\ UNCHANGED <<setting, known, sent>>

\* Nobody was subscribed, or the socket was down.
Lose ==
  /\ feed # <<>>
  /\ feed' = Tail(feed)
  /\ UNCHANGED <<master, setting, known, sent>>

-----------------------------------------------------------------------------
(* normalize_sharekhan_ack.                                                *)

\* Mutation: a rejected new order counts as a new order.
AcceptedAnyNewOrder(ack) ==
  ack.traded > 0 \/ "TRADE" \in ack.words \/ "NEWORDER" \in ack.words

\* The ack speaks of an order that trades or is new in the market.
Accepted(ack) ==
  \/ ack.traded > 0
  \/ "TRADE" \in ack.words
  \/ "NEWORDER" \in ack.words /\ "REJECT" \notin ack.words

\* The event: the traded quantity, or the ordered one where none is reported.
EventOf(ack) ==
  [qty |-> IF ack.traded > 0 THEN ack.traded ELSE ack.ordered, price |-> ack.price]

\* duplicate_hash.  Symbol and side are the order's.  (docs/live-copy-trading.md
\* line 143 has quantity, price and event time in the hash of every ack.)
Hash(ack) ==
  LET detail == master[ack.order].detail
  IN  IF ack.id = OrderId THEN [order |-> ack.order]
      ELSE [stamp |-> ack.id, symbol |-> detail.symbol, side |-> detail.side,
            event |-> EventOf(ack)]

\* Mutation: the fills of an order have hashes of their own.
UnknownFill(ack) == Hash(ack) \notin known \/ ack.traded > 0

Unknown(ack) == Hash(ack) \notin known

-----------------------------------------------------------------------------
(* calculate_copy_quantity, calculate_copy_price and the limits of         *)
(* build_sharekhan_copy_order_payload.                                     *)

\* Towards zero, as ROUND_DOWN.
Trunc(n, d) == IF n >= 0 THEN n \div d ELSE -((-n) \div d)

\* PERCENT_CAPITAL is always skipped.
CopyQuantity(qty, s) ==
  IF s.sizing = "SAME_QTY" THEN qty
  ELSE IF s.sizing = "MULTIPLIER" THEN (qty * s.multiplier) \div 100
  ELSE IF s.sizing = "FIXED_QTY" THEN s.fixed
  ELSE 0

\* Mutation: a quantity of zero is let through.
QuantityAllowedZero(qty, s) ==
  /\ s.min > 0 => qty >= s.min
  /\ s.max > 0 => qty <= s.max

QuantityAllowed(qty, s) ==
  /\ qty > 0
  /\ s.min > 0 => qty >= s.min
  /\ s.max > 0 => qty <= s.max

\* MARKET is price 0.
CopyPrice(side, price, s) ==
  IF s.priceMode = "MARKET" THEN 0
  ELSE IF s.priceMode = "LIMIT_WITH_SLIPPAGE"
    THEN Trunc(price * (IF side = "B" THEN 100 + s.slippage ELSE 100 - s.slippage), 100)
  ELSE price

\* Mutation: the value is computed with the master's price.
ValueAllowedAtMaster(side, event, s) ==
  s.value > 0 => event.price * CopyQuantity(event.qty, s) <= s.value

\* A market order is valued at the price of the event.
ValueAllowed(side, event, s) ==
  LET price == CopyPrice(side, event.price, s)
  IN  s.value > 0 =>
        (IF price = 0 THEN event.price ELSE price) * CopyQuantity(event.qty, s) <= s.value

FilterAllowed(detail, s) ==
  /\ s.enabled
  /\ s.allowed # {} => detail.symbol \in s.allowed
  /\ detail.symbol \notin s.blocked
  /\ s.sides # {} => detail.side \in s.sides

\* Rows of this account that say PLACED, today: what the count is taken from.
TradesOf(c) == {o \in sent : o.copier = c /\ o.placed}

\* Mutation: one trade more than the limit.
UsageAllowedOneMore(c, loss) ==
  /\ setting[c].trades > 0 => Cardinality(TradesOf(c)) <= setting[c].trades
  /\ setting[c].loss > 0 => loss < setting[c].loss

UsageAllowed(c, loss) ==
  /\ setting[c].trades > 0 => Cardinality(TradesOf(c)) < setting[c].trades
  /\ setting[c].loss > 0 => loss < setting[c].loss

\* The settings of account c let it copy the event.
Permits(c, detail, event, loss) ==
  /\ FilterAllowed(detail, setting[c])
  /\ QuantityAllowed(CopyQuantity(event.qty, setting[c]), setting[c])
  /\ ValueAllowed(detail.side, event, setting[c])
  /\ UsageAllowed(c, loss)

Child(c, ack, placed) ==
  LET detail == master[ack.order].detail
      event  == EventOf(ack)
  IN  [order |-> ack.order, id |-> ack.id, copier |-> c, event |-> event,
       qty |-> CopyQuantity(event.qty, setting[c]),
       price |-> CopyPrice(detail.side, event.price, setting[c]),
       placed |-> placed]

Children(ack, usable, failed, loss) ==
  {Child(c, ack, c \notin failed) :
     c \in {d \in usable :
             Permits(d, master[ack.order].detail, EventOf(ack), loss[d])}}

-----------------------------------------------------------------------------
\* An ack that is no event, or one that is stored already.
Skip ==
  /\ feed # <<>>
  /\ ~(Accepted(Head(feed)) /\ Unknown(Head(feed)))
  /\ feed' = Tail(feed)
  /\ UNCHANGED <<master, setting, known, sent>>

(***************************************************************************)
(* usable: the accounts that are enabled members with credentials, for     *)
(* which scrip code and product type pass.  failed: those whose placement  *)
(* has no positive answer.                                                 *)
(***************************************************************************)
Copy ==
  /\ feed # <<>>
  /\ LET ack == Head(feed)
     IN  /\ Accepted(ack)
         /\ Unknown(ack)
         /\ known' = known \cup {Hash(ack)}
         /\ \E usable, failed \in SUBSET Copiers, loss \in [Copiers -> Losses] :
              sent' = sent \cup Children(ack, usable, failed, loss)
  /\ feed' = Tail(feed)
  /\ UNCHANGED <<master, setting>>

Prices == {d.price : d \in Details} \ {0}

Broker ==
  \/ \E o \in Orders : \/ \E d \in Details : Place(o, d)
                       \/ Confirm(o)
                       \/ \E n \in 1 .. master[o].detail.qty, p \in Prices : Fill(o, n, p)
                       \/ Refuse(o)
                       \/ Cancel(o)
  \/ Lose

Next == Broker \/ Skip \/ Copy

Spec == Init /\ [][Next]_vars

-----------------------------------------------------------------------------
(* Properties.                                                             *)

\* The price an order of the account is worth per share, as far as known.
Worth(o) == IF o.price = 0 THEN o.event.price ELSE o.price

(***************************************************************************)
(* What leaves the API obeys the settings of its copy account: quantity    *)
(* and value are within their limits at the price actually sent, rounding  *)
(* included, and the limit price is off the master's by no more than the   *)
(* slippage, give or take less than a paisa for rounding.                  *)
(***************************************************************************)
ObeysSettings ==
  \A o \in sent :
    LET s    == setting[o.copier]
        d    == master[o.order].detail
        base == o.event.price
    IN  /\ s.min > 0 => o.qty >= s.min
        /\ s.max > 0 => o.qty <= s.max
        /\ s.value > 0 => o.qty * Worth(o) <= s.value
        /\ s.sides # {} => d.side \in s.sides
        /\ s.priceMode = "LIMIT_WITH_SLIPPAGE" =>
             IF d.side = "B" THEN o.price * 100 <= base * (100 + s.slippage)
                             ELSE (o.price + 1) * 100 > base * (100 - s.slippage)

(***************************************************************************)
(* An account gets no more PLACED rows a day than max_trades_per_day: they *)
(* are counted before each dispatch.  Orders that went out and have no     *)
(* such row (failed in the books, or rolled back) are not in the count.    *)
(***************************************************************************)
TradesWithinDay ==
  \A c \in Copiers :
    setting[c].trades > 0 => Cardinality(TradesOf(c)) <= setting[c].trades

(***************************************************************************)
(* However often and in whatever parts the broker reports a master order,  *)
(* no copy is for more than the whole order's size under the account's     *)
(* sizing, and the acks that carry the order's id make one copy: they have *)
(* one duplicate hash, be they confirmation, fill or cancellation.  Acks   *)
(* without it are told apart by what they report, and each of them may be  *)
(* copied once.                                                            *)
(***************************************************************************)
NeverOvercopied ==
  \A o \in sent :
    /\ o.qty <= CopyQuantity(master[o.order].detail.qty, setting[o.copier])
    /\ \A p \in sent :
         /\ p.order = o.order /\ p.copier = o.copier /\ p.id = o.id
         /\ o.id = OrderId \/ p.event = o.event
         => p = o

(***************************************************************************)
(* An order the exchange refused is never copied, although its ack also    *)
(* says "NewOrder".                                                        *)
(***************************************************************************)
RefusedNotCopied == \A o \in sent : master[o.order].phase # "refused"

(***************************************************************************)
(* "Only order ack payloads with executed quantity are copied": no child   *)
(* order goes out before the master order has traded.                      *)
(***************************************************************************)
OnlyExecutedCopied == \A o \in sent : master[o.order].filled > 0
=============================================================================
