--------------------------- MODULE CopyRulesProofs ---------------------------
(***************************************************************************)
(* Proofs about CopyRules, for any orders, settings and acks: amounts keep *)
(* their types, every child order obeys the settings of its account, what *)
(* an account copies of an order is bounded by the order's size, and an    *)
(* order is not copied after the exchange refused it.                      *)
(***************************************************************************)
EXTENDS CopyRules, FiniteSetTheorems, TLAPS

\* Products of amounts are amounts, and grow with their first factor.
LEMMA Product ==
  ASSUME NEW a \in Nat, NEW b \in Nat, NEW k \in Nat, a <= b
  PROVE  a * k \in Nat /\ b * k \in Nat /\ a * k <= b * k
  OBVIOUS

\* Sizing yields a whole number of shares and never shrinks with the order.
LEMMA QuantityMonotone ==
  ASSUME NEW s \in Settings, NEW a \in Nat, NEW b \in Nat, a <= b
  PROVE  /\ CopyQuantity(a, s) \in Nat
         /\ CopyQuantity(b, s) \in Nat
         /\ CopyQuantity(a, s) <= CopyQuantity(b, s)
<1> DEFINE x == a * s.multiplier
           y == b * s.multiplier
<1>1. s.multiplier \in Nat /\ s.fixed \in Nat
  BY SettingsAssumption
<1>2. x \in Nat /\ y \in Nat /\ x <= y
  BY <1>1, Product
<1> HIDE DEF x, y
<1>3. x \div 100 \in Nat /\ y \div 100 \in Nat /\ x \div 100 <= y \div 100
  BY <1>2
<1> QED
  BY <1>1, <1>3 DEF CopyQuantity, x, y

\* Truncation stays within one unit of the quotient.
LEMMA TruncWithin ==
  ASSUME NEW n \in Int
  PROVE  /\ Trunc(n, 100) \in Int
         /\ (Trunc(n, 100) + 1) * 100 > n
         /\ n >= 0 => Trunc(n, 100) * 100 <= n
  BY DEF Trunc

\* The price of a child order, and how far slippage may carry it.
LEMMA PriceBounds ==
  ASSUME NEW s \in Settings, NEW side \in Sides, NEW p \in Nat
  PROVE  /\ CopyPrice(side, p, s) \in Int
         /\ s.priceMode = "LIMIT_WITH_SLIPPAGE" =>
              IF side = "B" THEN CopyPrice(side, p, s) * 100 <= p * (100 + s.slippage)
                ELSE (CopyPrice(side, p, s) + 1) * 100 > p * (100 - s.slippage)
<1> DEFINE up   == p * (100 + s.slippage)
           down == p * (100 - s.slippage)
<1>1. s.slippage \in Nat
  BY SettingsAssumption
<1>2. up \in Nat /\ down \in Int
  BY <1>1, Product
<1>3. side # "B" => side = "S" /\ "S" # "B"
  BY DEF Sides
<1>4. CopyPrice(side, p, s) =
        IF s.priceMode = "MARKET" THEN 0
        ELSE IF s.priceMode = "LIMIT_WITH_SLIPPAGE"
               THEN IF side = "B" THEN Trunc(up, 100) ELSE Trunc(down, 100)
               ELSE p
  BY DEF CopyPrice
<1> HIDE DEF up, down
<1>5. /\ Trunc(up, 100) \in Int /\ Trunc(down, 100) \in Int
      /\ Trunc(up, 100) * 100 <= up
      /\ (Trunc(down, 100) + 1) * 100 > down
  BY <1>2, TruncWithin
<1>6. CASE s.priceMode = "LIMIT_WITH_SLIPPAGE"
  BY <1>4, <1>5, <1>6 DEF up, down
<1>7. CASE s.priceMode # "LIMIT_WITH_SLIPPAGE"
  BY <1>4, <1>7
<1> QED
  BY <1>6, <1>7

-----------------------------------------------------------------------------
(***************************************************************************)
(* The invariant.  What the properties say of a child order depends on the *)
(* ack it was made from, which is gone by then: FeedInv says what acks     *)
(* under way can say of their order, SentInv what is left of that in the   *)
(* child orders, and that an order with children has a hash on file.       *)
(***************************************************************************)
\* What holds of an ack of order m.
AckRight(a, m) ==
  /\ m.phase \in {"open", "closed", "refused"}
  /\ a.ordered = m.detail.qty
  /\ a.traded <= m.detail.qty
  /\ m.phase = "refused" => a.words = {"NEWORDER", "REJECT"} /\ a.traded = 0

FeedInv == \A i \in 1 .. Len(feed) : AckRight(feed[i], master[feed[i].order])

\* The duplicate hash of the ack that a child order was made from.
HashOf(o) ==
  LET detail == master[o.order].detail
  IN  IF o.id = OrderId THEN [order |-> o.order]
      ELSE [stamp |-> o.id, symbol |-> detail.symbol, side |-> detail.side,
            event |-> o.event]

\* What holds of one child order.
SentRight(o) ==
  LET d == master[o.order].detail
      s == setting[o.copier]
  IN  /\ HashOf(o) \in known
      /\ master[o.order].phase \in {"open", "closed"}
      /\ o.event.qty <= d.qty
      /\ o.event.price \in Nat
      /\ o.qty = CopyQuantity(o.event.qty, s)
      /\ o.price = CopyPrice(d.side, o.event.price, s)
      /\ FilterAllowed(d, s)
      /\ QuantityAllowed(o.qty, s)
      /\ ValueAllowed(d.side, o.event, s)

SentInv == \A o \in sent : SentRight(o)

\* Two child orders of an account that come from acks with one hash.
SameReport(o, p) ==
  /\ p.order = o.order /\ p.copier = o.copier /\ p.id = o.id
  /\ o.id = OrderId \/ p.event = o.event

CopiedOnce == \A o, p \in sent : SameReport(o, p) => p = o

MasterInv ==
  \A o \in Orders :
    /\ master[o].filled <= master[o].detail.qty
    /\ master[o].phase \in {"none", "sent", "refused"} => master[o].filled = 0

RulesInv == TypeOK /\ MasterInv /\ FeedInv /\ SentInv /\ CopiedOnce

MasterOrder == [phase : Phase, detail : Details, filled : Nat]

\* The initial state.
LEMMA InitRules == Init => RulesInv
<1> SUFFICES ASSUME Init PROVE RulesInv
  OBVIOUS
<1>1. (CHOOSE d \in Details : TRUE) \in Details
  BY DetailsAssumption
<1>2. NoOrder \in MasterOrder /\ NoOrder.filled <= NoOrder.detail.qty
  BY <1>1, DetailsAssumption DEF NoOrder, MasterOrder, Phase
<1>3. NoOrder.filled = 0
  BY DEF NoOrder
<1>4. TypeOK
  BY <1>2 DEF Init, TypeOK, MasterOrder
<1> QED
  BY <1>2, <1>3, <1>4 DEF Init, RulesInv, MasterInv, FeedInv, SentInv, CopiedOnce

(***************************************************************************)
(* The broker's steps.                                                     *)
(***************************************************************************)

\* How a step may change the orders that acks and child orders speak of.
Evolves ==
  \A o \in Orders :
    master[o].phase \in {"open", "closed", "refused"} =>
      /\ master'[o].detail = master[o].detail
      /\ \/ master'[o].phase = master[o].phase
         \/ master[o].phase = "open" /\ master'[o].phase = "closed"

LEMMA EvolvesKeeps ==
  ASSUME RulesInv, Evolves, UNCHANGED <<setting, known, sent>>
  PROVE  SentInv' /\ CopiedOnce'
<1> USE DEF RulesInv
<1>1. CopiedOnce'
  BY DEF CopiedOnce, SameReport
<1>2. ASSUME NEW o \in sent
      PROVE  SentRight(o)'
  <2>1. SentRight(o) /\ o.order \in Orders
    BY <1>2 DEF SentInv, TypeOK, ChildOrders
  <2>2. /\ master'[o.order].detail = master[o.order].detail
        /\ master'[o.order].phase \in {"open", "closed"}
    BY <2>1 DEF SentRight, Evolves
  <2> QED
    BY <2>1, <2>2 DEF SentRight, HashOf
<1>3. SentInv'
  BY <1>2 DEF SentInv
<1> QED
  BY <1>1, <1>3

\* What is under way stays right.
LEMMA EvolvesFeed ==
  ASSUME RulesInv, Evolves
  PROVE  \A i \in 1 .. Len(feed) : AckRight(feed[i], master'[feed[i].order])
<1> TAKE i \in 1 .. Len(feed)
<1>1. feed[i] \in Acks /\ AckRight(feed[i], master[feed[i].order])
  BY DEF RulesInv, FeedInv, TypeOK
<1> QED
  BY <1>1 DEF AckRight, Evolves, Acks

\* An ack that is right joins the feed.
LEMMA FeedGrows ==
  ASSUME RulesInv, Evolves, NEW a \in Acks, feed' = Append(feed, a),
         AckRight(a, master'[a.order])
  PROVE  FeedInv' /\ feed' \in Seq(Acks)
<1>1. feed \in Seq(Acks)
  BY DEF RulesInv, TypeOK
<1>2. Len(feed') = Len(feed) + 1 /\ feed' \in Seq(Acks)
  BY <1>1
<1>3. ASSUME NEW i \in 1 .. Len(feed')
      PROVE  AckRight(feed'[i], master'[feed'[i].order])
  <2>1. CASE i \in 1 .. Len(feed)
    BY <1>1, <2>1, EvolvesFeed
  <2>2. CASE i = Len(feed) + 1
    BY <1>1, <2>2
  <2> QED
    BY <1>1, <1>2, <2>1, <2>2
<1> QED
  BY <1>2, <1>3 DEF FeedInv

\* The first ack leaves the feed.
LEMMA FeedShrinks ==
  ASSUME RulesInv, feed # <<>>, feed' = Tail(feed), master' = master
  PROVE  FeedInv' /\ feed' \in Seq(Acks)
<1>1. feed \in Seq(Acks) /\ FeedInv
  BY DEF RulesInv, TypeOK
<1>2. Len(feed') = Len(feed) - 1 /\ feed' \in Seq(Acks)
  BY <1>1
<1>3. ASSUME NEW i \in 1 .. Len(feed')
      PROVE  i + 1 \in 1 .. Len(feed) /\ feed'[i] = feed[i + 1]
  BY <1>1, <1>2, <1>3
<1> QED
  BY <1>1, <1>2, <1>3 DEF FeedInv

(***************************************************************************)
(* One order becomes m, and at most one ack about it joins the feed.       *)
(***************************************************************************)
LEMMA OrderStep ==
  ASSUME RulesInv, NEW o \in Orders, NEW m \in MasterOrder,
         master' = [master EXCEPT ![o] = m],
         UNCHANGED <<setting, known, sent>>,
         m.filled <= m.detail.qty,
         m.phase \in {"none", "sent", "refused"} => m.filled = 0,
         master[o].phase \in {"open", "closed", "refused"} =>
           /\ m.detail = master[o].detail
           /\ m.phase = master[o].phase \/ (master[o].phase = "open" /\ m.phase = "closed"),
         \/ UNCHANGED feed
         \/ \E a \in Acks : feed' = Append(feed, a) /\ a.order = o /\ AckRight(a, m)
  PROVE  RulesInv'
<1> USE DEF RulesInv
<1>1. /\ master' \in [Orders -> MasterOrder]
      /\ \A q \in Orders : master'[q] = IF q = o THEN m ELSE master[q]
  BY DEF TypeOK, MasterOrder
<1>2. Evolves
  BY <1>1 DEF Evolves
<1>3. MasterInv'
  BY <1>1 DEF MasterInv
<1>4. SentInv' /\ CopiedOnce'
  BY <1>2, EvolvesKeeps
<1>5. FeedInv' /\ feed' \in Seq(Acks)
  <2>1. CASE UNCHANGED feed
    BY <1>2, <2>1, EvolvesFeed DEF FeedInv, TypeOK
  <2>2. ASSUME NEW a \in Acks, feed' = Append(feed, a), a.order = o, AckRight(a, m)
        PROVE  FeedInv' /\ feed' \in Seq(Acks)
    BY <1>1, <1>2, <2>2, FeedGrows
  <2> QED
    BY <2>1, <2>2
<1> QED
  BY <1>1, <1>3, <1>4, <1>5 DEF TypeOK, MasterOrder

\* Placing, accepting, filling, refusing and cancelling an order.
LEMMA OrderRules ==
  ASSUME RulesInv, NEW o \in Orders, NEW n \in Nat, NEW p \in Nat, NEW d \in Details,
         Place(o, d) \/ Confirm(o) \/ Fill(o, n, p) \/ Refuse(o) \/ Cancel(o)
  PROVE  RulesInv'
<1> DEFINE A(id, words, traded, price) ==
             [order |-> o, id |-> id, words |-> words, traded |-> traded,
              ordered |-> master[o].detail.qty, price |-> price]
<1>1. /\ master[o] \in MasterOrder
      /\ master[o].filled <= master[o].detail.qty
      /\ master[o].phase \in {"none", "sent", "refused"} => master[o].filled = 0
  BY DEF RulesInv, TypeOK, MasterInv, MasterOrder
<1>2. /\ master[o].detail \in Details /\ master[o].filled \in Nat
      /\ master[o].detail.qty \in Nat \ {0} /\ master[o].detail.price \in Nat
  BY <1>1, DetailsAssumption DEF MasterOrder
<1>4. CASE Place(o, d)
  <2>1. [phase |-> "sent", detail |-> d, filled |-> 0] \in MasterOrder /\ 0 <= d.qty
    BY DetailsAssumption DEF MasterOrder, Phase
  <2> QED
    BY <1>4, <2>1, OrderStep DEF Place
<1>5. ASSUME NEW v \in {"open", "refused", "closed"},
             master' = [master EXCEPT ![o].phase = v],
             v = "refused" => master[o].filled = 0,
             master[o].phase \in {"open", "closed", "refused"} =>
               v = master[o].phase \/ (master[o].phase = "open" /\ v = "closed"),
             UNCHANGED <<setting, known, sent>>,
             NEW words \in SUBSET Words, NEW traded \in 0 .. master[o].filled,
             v = "refused" => words = {"NEWORDER", "REJECT"} /\ traded = 0,
             Emit(o, words, traded, master[o].detail.price)
      PROVE  RulesInv'
  <2>0. PICK id \in Stamps \cup {OrderId} :
          feed' = Append(feed, A(id, words, traded, master[o].detail.price))
    BY <1>5 DEF Emit
  <2> DEFINE m == [master[o] EXCEPT !.phase = v]
             a == A(id, words, traded, master[o].detail.price)
  <2>1. /\ m \in MasterOrder /\ m.phase = v
        /\ m.detail = master[o].detail /\ m.filled = master[o].filled
    BY <1>1 DEF MasterOrder, Phase
  <2>2. master' = [master EXCEPT ![o] = m]
    BY <1>5
  <2>3. a \in Acks /\ a.order = o /\ a.ordered = master[o].detail.qty
        /\ a.traded = traded /\ a.words = words
    BY <1>2 DEF Acks
  <2> HIDE DEF m, a, A
  <2>4. AckRight(a, m)
    BY <1>1, <1>2, <1>5, <2>1, <2>3 DEF AckRight
  <2> QED
    BY <1>1, <1>5, <2>0, <2>1, <2>2, <2>3, <2>4, OrderStep DEF a
<1>6. CASE Confirm(o)
  <2>1. {"NEWORDER"} \in SUBSET Words /\ 0 \in 0 .. master[o].filled
    BY <1>2 DEF Words
  <2> QED
    BY <1>5, <1>6, <2>1 DEF Confirm
<1>7. CASE Refuse(o)
  <2>1. {"NEWORDER", "REJECT"} \in SUBSET Words /\ 0 \in 0 .. master[o].filled
    BY <1>2 DEF Words
  <2> QED
    BY <1>1, <1>5, <1>7, <2>1 DEF Refuse
<1>8. CASE Cancel(o)
  <2>1. PICK k \in {0, master[o].filled} :
          Emit(o, {"REJECT"}, k, master[o].detail.price)
    BY <1>8 DEF Cancel
  <2>2. {"REJECT"} \in SUBSET Words /\ k \in 0 .. master[o].filled
    BY <1>2 DEF Words
  <2> QED
    BY <1>5, <1>8, <2>1, <2>2 DEF Cancel
<1>9. CASE Fill(o, n, p)
  <2>0. PICK id \in Stamps \cup {OrderId} : feed' = Append(feed, A(id, {"TRADE"}, n, p))
    BY <1>9 DEF Fill, Emit
  <2> DEFINE k == master[o].filled + n
             m == [master[o] EXCEPT !.filled = k]
             a == A(id, {"TRADE"}, n, p)
  <2>1. k \in Nat /\ k <= master[o].detail.qty /\ n <= master[o].detail.qty
    BY <1>1, <1>2, <1>9 DEF Fill
  <2>2. master' = [master EXCEPT ![o].filled = k]
    BY <1>9 DEF Fill
  <2> HIDE DEF k
  <2>3. m \in MasterOrder /\ m.phase = master[o].phase
        /\ m.detail = master[o].detail /\ m.filled = k
    BY <1>1, <2>1 DEF MasterOrder, Phase
  <2>4. master' = [master EXCEPT ![o] = m]
    BY <2>2
  <2>5. a \in Acks /\ a.order = o /\ a.ordered = master[o].detail.qty /\ a.traded = n
    BY <1>2 DEF Acks, Words
  <2>6. feed' = Append(feed, a) /\ master[o].phase = "open"
        /\ UNCHANGED <<setting, known, sent>>
    BY <1>9, <2>0 DEF Fill
  <2> HIDE DEF m, a, A
  <2>7. AckRight(a, m)
    BY <2>1, <2>3, <2>5, <2>6 DEF AckRight
  <2> QED
    BY <2>1, <2>3, <2>4, <2>5, <2>6, <2>7, OrderStep
<1> QED
  BY <1>4, <1>6, <1>7, <1>8, <1>9

(***************************************************************************)
(* The listener's steps.                                                   *)
(***************************************************************************)

\* An ack that is lost or skipped.
LEMMA SkipRules ==
  ASSUME RulesInv, Skip \/ Lose
  PROVE  RulesInv'
<1>1. feed # <<>> /\ feed' = Tail(feed) /\ UNCHANGED <<master, setting, known, sent>>
  BY DEF Skip, Lose
<1>2. FeedInv' /\ feed' \in Seq(Acks)
  BY <1>1, FeedShrinks
<1>3. Evolves
  BY <1>1 DEF Evolves
<1>4. SentInv' /\ CopiedOnce'
  BY <1>1, <1>3, EvolvesKeeps
<1> QED
  BY <1>1, <1>2, <1>4 DEF RulesInv, TypeOK, MasterInv

\* The ack at hand, when it is one that is copied.
LEMMA AckAtHand ==
  ASSUME RulesInv, feed # <<>>
  PROVE  /\ Head(feed) \in Acks
         /\ AckRight(Head(feed), master[Head(feed).order])
<1>1. feed \in Seq(Acks) /\ Len(feed) > 0
  BY DEF RulesInv, TypeOK
<1>2. Head(feed) = feed[1] /\ 1 \in 1 .. Len(feed)
  BY <1>1
<1> QED
  BY <1>1, <1>2 DEF RulesInv, FeedInv

\* The child order that a permitted copy of an ack becomes.
LEMMA ChildRight ==
  ASSUME RulesInv, NEW a \in Acks, AckRight(a, master[a.order]), Accepted(a),
         NEW c \in Copiers, NEW placed \in BOOLEAN, NEW loss \in Losses,
         Permits(c, master[a.order].detail, EventOf(a), loss)
  PROVE  LET o == Child(c, a, placed)
             d == master[a.order].detail
         IN  /\ o \in ChildOrders
             /\ o.order = a.order /\ o.copier = c /\ o.event.price \in Nat
             /\ o.id = a.id /\ o.event = EventOf(a)
             /\ master[a.order].phase \in {"open", "closed"}
             /\ o.event.qty <= d.qty
             /\ o.qty = CopyQuantity(o.event.qty, setting[c])
             /\ o.price = CopyPrice(d.side, o.event.price, setting[c])
             /\ FilterAllowed(d, setting[c])
             /\ QuantityAllowed(o.qty, setting[c])
             /\ ValueAllowed(d.side, o.event, setting[c])
<1> DEFINE d == master[a.order].detail
           e == EventOf(a)
           s == setting[c]
           o == Child(c, a, placed)
<1>1. /\ a.order \in Orders /\ a.id \in Stamps \cup {OrderId}
      /\ d \in Details /\ s \in Settings /\ d.side \in Sides
  BY DetailsAssumption DEF RulesInv, TypeOK, Acks
<1>2. e.qty \in Nat \ {0} /\ e.price \in Nat /\ e.qty <= d.qty
      /\ e \in [qty : Nat \ {0}, price : Nat]
  BY DEF EventOf, Acks, AckRight
<1>3. CopyQuantity(e.qty, s) \in Nat
  BY <1>1, <1>2, QuantityMonotone
<1>4. CopyPrice(d.side, e.price, s) \in Int
  BY <1>1, <1>2, PriceBounds
<1>5. /\ FilterAllowed(d, s)
      /\ QuantityAllowed(CopyQuantity(e.qty, s), s)
      /\ ValueAllowed(d.side, e, s)
  BY DEF Permits
<1>6. CopyQuantity(e.qty, s) > 0
  BY <1>5 DEF QuantityAllowed
<1>7. master[a.order].phase \in {"open", "closed"}
  BY DEF AckRight, Accepted
<1>8. o = [order |-> a.order, id |-> a.id, copier |-> c, event |-> e,
           qty |-> CopyQuantity(e.qty, s), price |-> CopyPrice(d.side, e.price, s),
           placed |-> placed]
      /\ o.event = EventOf(a)
  BY DEF Child
<1> HIDE DEF d, e, s, o
<1>9. o \in ChildOrders
  BY <1>1, <1>2, <1>3, <1>4, <1>6, <1>8 DEF ChildOrders
<1> QED
  BY <1>2, <1>5, <1>7, <1>8, <1>9 DEF o, d, s

\* A copied ack.
LEMMA CopyStep ==
  ASSUME RulesInv, Copy
  PROVE  RulesInv'
<1> DEFINE a == Head(feed)
<1>1. /\ feed # <<>> /\ feed' = Tail(feed) /\ UNCHANGED <<master, setting>>
      /\ Accepted(a) /\ Hash(a) \notin known /\ known' = known \cup {Hash(a)}
  BY DEF Copy, Unknown
<1>2. PICK usable \in SUBSET Copiers, failed \in SUBSET Copiers,
           loss \in [Copiers -> Losses] :
        sent' = sent \cup Children(a, usable, failed, loss)
  BY DEF Copy
<1>3. a \in Acks /\ AckRight(a, master[a.order])
  BY <1>1, AckAtHand
<1>4. FeedInv' /\ feed' \in Seq(Acks)
  BY <1>1, FeedShrinks
<1> HIDE DEF a
<1>5. ASSUME NEW o \in Children(a, usable, failed, loss)
      PROVE  /\ o \in ChildOrders
             /\ o.order = a.order /\ o.id = a.id /\ o.event = EventOf(a)
             /\ o.copier \in Copiers
             /\ o = Child(o.copier, a, o.copier \notin failed)
             /\ SentRight(o)'
  <2>1. PICK c \in usable :
          /\ Permits(c, master[a.order].detail, EventOf(a), loss[c])
          /\ o = Child(c, a, c \notin failed)
    BY DEF Children
  <2>2. PICK placed \in BOOLEAN : o = Child(c, a, placed)
    BY <2>1, Zenon
  <2>3. /\ o \in ChildOrders
        /\ o.order = a.order /\ o.copier = c /\ o.event.price \in Nat
        /\ o.id = a.id /\ o.event = EventOf(a)
        /\ master[a.order].phase \in {"open", "closed"}
        /\ o.event.qty <= master[a.order].detail.qty
        /\ o.qty = CopyQuantity(o.event.qty, setting[c])
        /\ o.price = CopyPrice(master[a.order].detail.side, o.event.price, setting[c])
        /\ FilterAllowed(master[a.order].detail, setting[c])
        /\ QuantityAllowed(o.qty, setting[c])
        /\ ValueAllowed(master[a.order].detail.side, o.event, setting[c])
    <3>1. c \in Copiers /\ loss[c] \in Losses
      BY <2>1
    <3> QED
      BY <1>1, <1>3, <2>1, <2>2, <3>1, ChildRight
  <2>4. HashOf(o)' = Hash(a)
    BY <1>1, <2>3 DEF HashOf, Hash
  <2>5. SentRight(o)'
    BY <1>1, <2>3, <2>4 DEF SentRight
  <2> QED
    BY <2>1, <2>2, <2>3, <2>5
<1>6. ASSUME NEW o \in sent
      PROVE  SentRight(o)'
  <2>1. SentRight(o)
    BY DEF RulesInv, SentInv
  <2> QED
    BY <1>1, <2>1 DEF SentRight, HashOf
<1>7. SentInv'
  BY <1>2, <1>5, <1>6 DEF SentInv
<1>8. CopiedOnce'
  <2>1. ASSUME NEW o \in sent, o.order = a.order, o.id = a.id,
               a.id = OrderId \/ o.event = EventOf(a)
        PROVE  FALSE
    <3>1. HashOf(o) = Hash(a)
      BY <2>1 DEF HashOf, Hash
    <3> QED
      BY <1>1, <3>1 DEF RulesInv, SentInv, SentRight
  <2>2. \A o, p \in Children(a, usable, failed, loss) : p.copier = o.copier => p = o
    BY <1>5
  <2>3. CopiedOnce
    BY DEF RulesInv
  <2>4. ASSUME NEW o \in sent', NEW p \in sent', SameReport(o, p)
        PROVE  p = o
    <3>1. CASE o \in sent /\ p \in sent
      BY <2>3, <2>4, <3>1 DEF CopiedOnce
    <3>2. CASE o \in Children(a, usable, failed, loss) /\ p \in Children(a, usable, failed, loss)
      BY <2>2, <2>4, <3>2 DEF SameReport
    <3>3. CASE o \in Children(a, usable, failed, loss) /\ p \in sent
      BY <1>5, <2>1, <2>4, <3>3 DEF SameReport
    <3>4. CASE o \in sent /\ p \in Children(a, usable, failed, loss)
      BY <1>5, <2>1, <2>4, <3>4 DEF SameReport
    <3> QED
      BY <1>2, <3>1, <3>2, <3>3, <3>4
  <2> QED
    BY <2>4 DEF CopiedOnce, SameReport
<1>9. TypeOK'
  <2>1. Hash(a) \in OrderHashes \cup ReportHashes
    <3>1. master[a.order].detail \in Details
      BY <1>3 DEF RulesInv, TypeOK, Acks
    <3>2. EventOf(a) \in [qty : Nat \ {0}, price : Nat]
      BY <1>3 DEF EventOf, Acks, AckRight
    <3>3. a.id # OrderId => a.id \in Stamps
      BY <1>3 DEF Acks
    <3> QED
      BY <1>3, <3>1, <3>2, <3>3, DetailsAssumption
      DEF Hash, OrderHashes, ReportHashes, Acks
  <2> QED
    BY <1>1, <1>2, <1>3, <1>4, <1>5, <2>1 DEF RulesInv, TypeOK
<1> QED
  BY <1>1, <1>4, <1>7, <1>8, <1>9 DEF RulesInv, MasterInv

LEMMA StepRules == RulesInv /\ [Next]_vars => RulesInv'
<1> SUFFICES ASSUME RulesInv, [Next]_vars PROVE RulesInv'
  OBVIOUS
<1>1. CASE UNCHANGED vars
  BY <1>1 DEF vars, RulesInv, TypeOK, MasterInv, FeedInv, SentInv, SentRight, HashOf,
          CopiedOnce, SameReport
<1>2. CASE Skip \/ Lose
  BY <1>2, SkipRules
<1>3. CASE Copy
  BY <1>3, CopyStep
<1>4. ASSUME NEW o \in Orders, NEW d \in Details, Place(o, d)
      PROVE  RulesInv'
  BY <1>4, OrderRules
<1>5. ASSUME NEW o \in Orders, Confirm(o) \/ Refuse(o) \/ Cancel(o)
      PROVE  RulesInv'
  BY <1>5, OrderRules, DetailsAssumption
<1>6. ASSUME NEW o \in Orders, NEW n \in 1 .. master[o].detail.qty, NEW p \in Prices,
             Fill(o, n, p)
      PROVE  RulesInv'
  <2>1. master[o].detail.qty \in Nat /\ p \in Nat
    BY DetailsAssumption DEF RulesInv, TypeOK, Prices
  <2> QED
    BY <1>6, <2>1, OrderRules, DetailsAssumption
<1> QED
  BY <1>1, <1>2, <1>3, <1>4, <1>5, <1>6 DEF Next, Broker

(***************************************************************************)
(* The theorems.                                                           *)
(***************************************************************************)
LEMMA RulesHold == Spec => []RulesInv
<1>1. Init => RulesInv
  BY InitRules
<1>2. RulesInv /\ [Next]_vars => RulesInv'
  BY StepRules
<1> QED
  BY <1>1, <1>2, PTL DEF Spec

(***************************************************************************)
(* Orders, acks, hashes and child orders are well typed; a child order has *)
(* a positive whole quantity.                                              *)
(***************************************************************************)
THEOREM RulesTypeCorrect == Spec => []TypeOK
  BY RulesHold, PTL DEF RulesInv

(***************************************************************************)
(* For any settings: no child order is outside the limits of its account,  *)
(* at the price it is sent with.                                           *)
(***************************************************************************)
THEOREM SettingsObeyed == Spec => []ObeysSettings
<1>1. RulesInv => ObeysSettings
  <2> SUFFICES ASSUME RulesInv, NEW o \in sent
               PROVE  LET s    == setting[o.copier]
                          d    == master[o.order].detail
                          base == o.event.price
                      IN  /\ s.min > 0 => o.qty >= s.min
                          /\ s.max > 0 => o.qty <= s.max
                          /\ s.value > 0 => o.qty * Worth(o) <= s.value
                          /\ s.sides # {} => d.side \in s.sides
                          /\ s.priceMode = "LIMIT_WITH_SLIPPAGE" =>
                               IF d.side = "B" THEN o.price * 100 <= base * (100 + s.slippage)
                                 ELSE (o.price + 1) * 100 > base * (100 - s.slippage)
    BY DEF ObeysSettings
  <2> DEFINE s == setting[o.copier]
             d == master[o.order].detail
  <2>1. SentRight(o) /\ o \in ChildOrders
    BY DEF RulesInv, SentInv, TypeOK
  <2>2. s \in Settings /\ d \in Details /\ d.side \in Sides
    BY <2>1, DetailsAssumption DEF RulesInv, TypeOK, ChildOrders
  <2>3. /\ o.price = CopyPrice(d.side, o.event.price, s)
        /\ o.event.price \in Nat /\ o.qty \in Nat /\ o.price \in Int
        /\ o.qty = CopyQuantity(o.event.qty, s)
        /\ FilterAllowed(d, s) /\ QuantityAllowed(o.qty, s) /\ ValueAllowed(d.side, o.event, s)
    BY <2>1 DEF SentRight, ChildOrders
  <2> HIDE DEF s, d
  <2>4. /\ s.min > 0 => o.qty >= s.min
        /\ s.max > 0 => o.qty <= s.max
        /\ s.sides # {} => d.side \in s.sides
    BY <2>3 DEF QuantityAllowed, FilterAllowed
  <2>5. s.value > 0 => o.qty * Worth(o) <= s.value
    <3>1. s.value > 0 => Worth(o) * o.qty <= s.value
      BY <2>3 DEF ValueAllowed, Worth
    <3>2. Worth(o) \in Int
      BY <2>3 DEF Worth
    <3>3. Worth(o) * o.qty = o.qty * Worth(o)
      BY <2>3, <3>2
    <3> QED
      BY <3>1, <3>3
  <2>6. s.priceMode = "LIMIT_WITH_SLIPPAGE" =>
          IF d.side = "B" THEN o.price * 100 <= o.event.price * (100 + s.slippage)
            ELSE (o.price + 1) * 100 > o.event.price * (100 - s.slippage)
    BY <2>2, <2>3, PriceBounds
  <2> QED
    BY <2>4, <2>5, <2>6 DEF s, d
<1> QED
  BY <1>1, RulesHold, PTL

(***************************************************************************)
(* However an order's life is reported, an account copies no more than its *)
(* size, and once for all the acks that carry its id.                      *)
(***************************************************************************)
THEOREM OvercopiesNever == Spec => []NeverOvercopied
<1>1. RulesInv => NeverOvercopied
  <2> SUFFICES ASSUME RulesInv, NEW o \in sent
               PROVE  o.qty <= CopyQuantity(master[o.order].detail.qty, setting[o.copier])
    BY DEF NeverOvercopied, RulesInv, CopiedOnce, SameReport
  <2>1. SentRight(o) /\ o \in ChildOrders
    BY DEF RulesInv, SentInv, TypeOK
  <2>2. /\ setting[o.copier] \in Settings
        /\ master[o.order].detail.qty \in Nat
        /\ o.event.qty \in Nat
    BY <2>1, DetailsAssumption DEF RulesInv, TypeOK, ChildOrders
  <2> QED
    BY <2>1, <2>2, QuantityMonotone DEF SentRight
<1> QED
  BY <1>1, RulesHold, PTL

(***************************************************************************)
(* An order the exchange refused has no child orders.                      *)
(***************************************************************************)
THEOREM RefusedNeverCopied == Spec => []RefusedNotCopied
<1>1. RulesInv => RefusedNotCopied
  BY DEF RulesInv, SentInv, SentRight, RefusedNotCopied
<1> QED
  BY <1>1, RulesHold, PTL

(***************************************************************************)
(* The daily number of trades.  The bound is inductive with the finiteness *)
(* of an account's trades: one ack adds at most one, and only below it.    *)
(***************************************************************************)
TradesInv ==
  \A c \in Copiers :
    /\ IsFiniteSet(TradesOf(c))
    /\ setting[c].trades > 0 => Cardinality(TradesOf(c)) <= setting[c].trades

LEMMA StepTrades == TypeOK /\ TradesInv /\ [Next]_vars => TradesInv'
<1> SUFFICES ASSUME TypeOK, TradesInv, [Next]_vars PROVE TradesInv'
  OBVIOUS
<1>1. CASE UNCHANGED <<setting, sent>>
  <2>1. \A c \in Copiers : TradesOf(c)' = TradesOf(c)
    BY <1>1 DEF TradesOf
  <2> QED
    BY <1>1, <2>1 DEF TradesInv
<1>2. CASE Copy
  <2>1. setting' = setting
    BY <1>2 DEF Copy
  <2>2. PICK usable \in SUBSET Copiers, failed \in SUBSET Copiers,
             loss \in [Copiers -> Losses] :
          sent' = sent \cup Children(Head(feed), usable, failed, loss)
    BY <1>2 DEF Copy
  <2> SUFFICES ASSUME NEW c \in Copiers
               PROVE  /\ IsFiniteSet(TradesOf(c)')
                      /\ setting[c].trades > 0 =>
                           Cardinality(TradesOf(c)') <= setting[c].trades
    BY <2>1 DEF TradesInv
  <2> DEFINE new == Child(c, Head(feed), c \notin failed)
             own == {o \in Children(Head(feed), usable, failed, loss) : o.copier = c}
  <2>3. /\ IsFiniteSet(TradesOf(c))
        /\ setting[c].trades > 0 => Cardinality(TradesOf(c)) <= setting[c].trades
        /\ setting[c].trades \in Nat
    BY SettingsAssumption DEF TradesInv, TypeOK
  <2>4. Cardinality(TradesOf(c)) \in Nat
    BY <2>3, FS_CardinalityType
  <2>5. own = {} \/ (own = {new} /\ UsageAllowed(c, loss[c]))
    <3>1. \A o \in own : o = new /\ UsageAllowed(c, loss[c])
      BY DEF Children, Child, Permits
    <3> QED
      BY <3>1
  <2>6. TradesOf(c)' = TradesOf(c) \cup {o \in own : o.placed}
    BY <2>2 DEF TradesOf
  <2>7. TradesOf(c)' = TradesOf(c)
        \/ (TradesOf(c)' = TradesOf(c) \cup {new} /\ UsageAllowed(c, loss[c]))
    BY <2>5, <2>6
  <2>8. CASE TradesOf(c)' = TradesOf(c)
    BY <2>3, <2>8
  <2>9. CASE TradesOf(c)' = TradesOf(c) \cup {new} /\ UsageAllowed(c, loss[c])
    <3> HIDE DEF new
    <3>1. /\ IsFiniteSet(TradesOf(c)')
          /\ Cardinality(TradesOf(c)') <= Cardinality(TradesOf(c)) + 1
      BY <2>3, <2>4, <2>9, FS_AddElement
    <3>2. setting[c].trades > 0 => Cardinality(TradesOf(c)) < setting[c].trades
      BY <2>9 DEF UsageAllowed
    <3>3. Cardinality(TradesOf(c)') \in Nat
      BY <3>1, FS_CardinalityType
    <3> QED
      BY <2>3, <2>4, <3>1, <3>2, <3>3
  <2> QED
    BY <2>7, <2>8, <2>9
<1>3. CASE UNCHANGED vars \/ Broker \/ Skip
  BY <1>1, <1>3 DEF vars, Broker, Place, Confirm, Fill, Refuse, Cancel, Lose, Skip
<1> QED
  BY <1>2, <1>3 DEF Next

(***************************************************************************)
(* No account places more child orders a day than its settings say.        *)
(***************************************************************************)
THEOREM TradesBounded == Spec => []TradesWithinDay
<1>1. Init => TradesInv
  BY FS_EmptySet, SettingsAssumption DEF Init, TradesInv, TradesOf
<1>2. TypeOK /\ TypeOK' /\ TradesInv /\ [Next]_vars => TradesInv'
  BY StepTrades
<1>3. TradesInv => TradesWithinDay
  BY DEF TradesInv, TradesWithinDay
<1> QED
  BY <1>1, <1>2, <1>3, RulesTypeCorrect, PTL DEF Spec

=============================================================================
