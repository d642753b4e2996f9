----------------------------- MODULE TradeProofs ------------------------------
(***************************************************************************)
(* Proofs about Trade.tla for any number of lots, orders, crashes and      *)
(* faults: types, the order of writes, what the stops may sell, what       *)
(* recovery writes, and the agreement of the row with memory.              *)
(***************************************************************************)
EXTENDS Trade, TLAPS

-----------------------------------------------------------------------------
(* The inductive invariant, in parts                                        *)

\* Client order ids that were never sent have nothing.
Blank == \A id \in Ids : order[id].status = "none" => order[id] = NoOrder

BrokerTyped == order \in [Ids -> Order] /\ pos \in Nat /\ Blank

\* Every trade comes from an entry order.
Known(trade) == trade = NoTrade \/ trade.entry \in Entries

Books == Known(mem) /\ Known(row) /\ Known(t)

\* The number and the quantity of the handler's order
Labels ==
  /\ pc \in {"reserved", "bought", "stopped"} => n \in Entries /\ q \in 0..Lots
  /\ pc \in {"selling", "flatten", "sold"} => n \in Exits /\ q \in 0..Lots
  /\ pc = "bought" => t.entry = n /\ t.qty = q
  /\ pc = "sell" => Unused("exit") # {}

Typed == TypeOK /\ BrokerTyped /\ Books /\ Labels

\* A trade is no more than its entry order has bought.
Backed(trade) ==
  trade = NoTrade \/ trade.qty <= order[<<"entry", trade.entry>>].filled

Covered == Backed(mem) /\ Backed(row) /\ Backed(t) /\ StopsCovered

\* An order that is about to be sent is reserved, and not yet at the broker.
Pending ==
  /\ pc = "reserved" =>
       idem[<<"entry", n>>] = "RESERVED" /\ order[<<"entry", n>>].status = "none"
  /\ pc \in {"selling", "flatten"} =>
       idem[<<"exit", n>>] = "RESERVED" /\ order[<<"exit", n>>].status = "none"

\* The orders that protect are never reserved.
Unreserved == \A e \in Entries : idem[<<"stop", e>>] = "none"

Traced == ReservedFirst /\ FailedIsAbsent /\ Pending /\ Unreserved

\* Every handler writes the row whenever it changes the trade in memory.
RowKeepsUp == faults = 0 /\ pc # "down" => row = AsRow(mem)

Sound == Typed /\ Covered /\ Traced /\ RowKeepsUp

-----------------------------------------------------------------------------
(* What a step does to the orders                                           *)

\* Orders are only filled and cancelled.
Kept ==
  \A id \in Ids :
    /\ order'[id].qty = order[id].qty /\ order'[id].filled >= order[id].filled
    /\ order'[id].status = "none" <=> order[id].status = "none"

\* One order is new.
Sent(id, qty) ==
  /\ id \in Ids /\ order[id].status = "none"
  /\ order'[id].status # "none" /\ order'[id].qty = qty
  /\ \A other \in Ids \ {id} : order'[other] = order[other]

\* The orders that the waiting points of the handlers can send
Sends ==
  \/ pc = "reserved" /\ Sent(<<"entry", n>>, q)
  \/ pc \in {"selling", "flatten"} /\ Sent(<<"exit", n>>, q)
  \/ pc = "bought" /\ Sent(StopId(t), t.qty)
  \/ pc = "compare" /\ mem # NoTrade /\ Sent(StopId(mem), mem.qty)

\* The ids of the three kinds of orders are different.
LEMMA IdKinds ==
  /\ \A e \in Entries : <<"entry", e>> \in Ids /\ <<"stop", e>> \in Ids
  /\ \A x \in Exits : <<"exit", x>> \in Ids
  /\ \A id \in Ids :
       \/ \E e \in Entries : id = <<"entry", e>>
       \/ \E e \in Entries : id = <<"stop", e>>
       \/ \E x \in Exits : id = <<"exit", x>>
BY DEF Ids

\* saturating_sub stays between 0 and what it is subtracted from.
LEMMA MinusBounds ==
  ASSUME NEW a \in Nat, NEW b \in Nat
  PROVE  Minus(a, b) \in 0..a
BY DEF Minus

\* An order the broker takes is new, and types are kept.
LEMMA SubmitSends ==
  ASSUME BrokerTyped, NEW id \in Ids, NEW k \in 0..Lots, NEW f \in 0..k,
         Submit(id, k, f)
  PROVE  BrokerTyped' /\ Sent(id, k) /\ order'[id].filled = f
<1>1. Placed(k, f) \in Order /\ Placed(k, f).status # "none"
      /\ Placed(k, f).qty = k /\ Placed(k, f).filled = f
  BY LotsAssumption DEF Placed, Order
<1>2. order' = [order EXCEPT ![id] = Placed(k, f)] /\ order[id].status = "none"
  BY DEF Submit, Accepts
<1>3. order' \in [Ids -> Order]
  BY <1>1, <1>2 DEF BrokerTyped
<1>4. order'[id] = Placed(k, f) /\ \A other \in Ids \ {id} : order'[other] = order[other]
  BY <1>2 DEF BrokerTyped
<1>5. pos' \in Nat
  BY LotsAssumption DEF Submit, Accepts, BrokerTyped
<1>6. Blank'
  BY <1>1, <1>4 DEF Blank, BrokerTyped
<1> QED BY <1>1, <1>2, <1>3, <1>4, <1>5, <1>6 DEF BrokerTyped, Sent

\* A step that leaves the orders alone
LEMMA KeptSame ==
  ASSUME BrokerTyped, UNCHANGED broker
  PROVE  BrokerTyped' /\ Kept
<1>1. \A id \in Ids : order[id].filled \in Nat
  BY LotsAssumption DEF BrokerTyped, Order
<1> QED BY <1>1 DEF BrokerTyped, Kept, Blank, broker

\* A fill of an order
LEMMA FillKeeps ==
  ASSUME BrokerTyped, NEW id \in Ids, NEW k \in Nat, Fill(id, k)
  PROVE  BrokerTyped' /\ Kept
<1> DEFINE o == order[id]
<1>1. o \in Order /\ o.status = "working" /\ k \in 1..(o.qty - o.filled)
  BY DEF Fill, BrokerTyped
<1>2. Placed(o.qty, o.filled + k) \in Order
      /\ Placed(o.qty, o.filled + k).status # "none"
      /\ Placed(o.qty, o.filled + k).qty = o.qty
      /\ Placed(o.qty, o.filled + k).filled = o.filled + k
  BY <1>1, LotsAssumption DEF Placed, Order
<1>3. order' = [order EXCEPT ![id] = Placed(o.qty, o.filled + k)]
  BY DEF Fill
<1>4. order' \in [Ids -> Order]
  BY <1>2, <1>3 DEF BrokerTyped
<1>5. order'[id] = Placed(o.qty, o.filled + k)
      /\ \A other \in Ids \ {id} : order'[other] = order[other]
  BY <1>3 DEF BrokerTyped
<1>6. pos' \in Nat
  BY <1>1, LotsAssumption DEF Fill, BrokerTyped
<1>7. Blank'
  BY <1>2, <1>5 DEF Blank, BrokerTyped
<1>8. \A other \in Ids : order[other].filled \in Nat
  BY LotsAssumption DEF BrokerTyped, Order
<1> QED BY <1>1, <1>2, <1>4, <1>5, <1>6, <1>7, <1>8, LotsAssumption
        DEF BrokerTyped, Kept, Order

\* A cancellation of an order
LEMMA CancelKeeps ==
  ASSUME BrokerTyped, NEW id \in Ids, order[id].status = "working",
         order' = [order EXCEPT ![id].status = "cancelled"], pos' = pos
  PROVE  BrokerTyped' /\ Kept
<1>1. order[id] \in Order
  BY DEF BrokerTyped
<1>2. order' \in [Ids -> Order]
  BY <1>1 DEF BrokerTyped, Order
<1>3. order'[id].qty = order[id].qty /\ order'[id].filled = order[id].filled
      /\ order'[id].status = "cancelled"
      /\ \A other \in Ids \ {id} : order'[other] = order[other]
  BY <1>1 DEF BrokerTyped, Order
<1>4. Blank'
  BY <1>3 DEF Blank, BrokerTyped
<1>5. \A other \in Ids : order[other].filled \in Nat
  BY LotsAssumption DEF BrokerTyped, Order
<1> QED BY <1>2, <1>3, <1>4, <1>5 DEF BrokerTyped, Kept

\* The handlers send what they have reserved.
LEMMA HandlersSend ==
  ASSUME Typed, NEW f \in 0..q,
         \/ pc = "reserved" /\ Submit(<<"entry", n>>, q, f)
         \/ pc \in {"selling", "flatten"} /\ Submit(<<"exit", n>>, q, f)
         \/ pc = "bought" /\ Submit(StopId(t), q, f)
  PROVE  BrokerTyped' /\ Sends
<1>1. CASE pc = "reserved" /\ Submit(<<"entry", n>>, q, f)
  <2>1. n \in Entries /\ q \in 0..Lots
    BY <1>1 DEF Typed, Labels
  <2>2. BrokerTyped' /\ Sent(<<"entry", n>>, q)
    BY <1>1, <2>1, IdKinds, SubmitSends DEF Typed
  <2> QED BY <1>1, <2>2 DEF Sends
<1>2. CASE pc \in {"selling", "flatten"} /\ Submit(<<"exit", n>>, q, f)
  <2>1. n \in Exits /\ q \in 0..Lots
    BY <1>2 DEF Typed, Labels
  <2>2. BrokerTyped' /\ Sent(<<"exit", n>>, q)
    BY <1>2, <2>1, IdKinds, SubmitSends DEF Typed
  <2> QED BY <1>2, <2>2 DEF Sends
<1>3. CASE pc = "bought" /\ Submit(StopId(t), q, f)
  <2>1. n \in Entries /\ q \in 0..Lots /\ t.entry = n /\ t.qty = q
    BY <1>3 DEF Typed, Labels
  <2>2. StopId(t) \in Ids
    BY <2>1, IdKinds DEF StopId
  <2>3. BrokerTyped' /\ Sent(StopId(t), q)
    BY <1>3, <2>1, <2>2, SubmitSends DEF Typed
  <2> QED BY <1>3, <2>1, <2>3 DEF Sends
<1> QED BY <1>1, <1>2, <1>3

\* An order that the broker takes and gives up sends as well.
LEMMA RejectedSends ==
  ASSUME Typed, FlattenRejected
  PROVE  BrokerTyped' /\ (Kept \/ Sends)
<1>1. CASE UNCHANGED broker
  BY <1>1, KeptSame DEF Typed
<1>2. CASE ~UNCHANGED broker
  <2> DEFINE id == <<"exit", n>>
             gone(f) == [Placed(q, f) EXCEPT !.status = "cancelled"]
  <2>1. PICK f \in 0..(q - 1) :
          Accepts(id, q) /\ order' = [order EXCEPT ![id] = gone(f)] /\ pos' = pos - f
    BY <1>2 DEF FlattenRejected
  <2>2. pc = "flatten" /\ n \in Exits /\ q \in 0..Lots /\ id \in Ids /\ BrokerTyped
    BY IdKinds DEF FlattenRejected, Typed, Labels
  <2>3. gone(f) \in Order /\ gone(f).status = "cancelled" /\ gone(f).qty = q
    BY <2>2, LotsAssumption DEF Placed, Order
  <2>4. order' \in [Ids -> Order]
    BY <2>1, <2>2, <2>3 DEF BrokerTyped
  <2>5. order'[id] = gone(f) /\ \A other \in Ids \ {id} : order'[other] = order[other]
    BY <2>1, <2>2 DEF BrokerTyped
  <2>6. pos' \in Nat
    BY <2>1, <2>2, LotsAssumption DEF Accepts, BrokerTyped
  <2>7. Blank'
    BY <2>3, <2>5, <2>2 DEF Blank, BrokerTyped
  <2>8. Sent(id, q)
    BY <2>1, <2>2, <2>3, <2>5 DEF Accepts, Sent
  <2> QED BY <2>2, <2>4, <2>6, <2>7, <2>8 DEF BrokerTyped, Sends
<1> QED BY <1>1, <1>2

\* A trade with an order id comes from an entry order.
LEMMA StopIsKnown ==
  ASSUME NEW trade \in OpenTrade, Known(trade), trade # NoTrade
  PROVE  StopId(trade) \in Ids
BY IdKinds DEF StopId, Known

\* Reconcile sends a stop for the trade in memory.
LEMMA ReconcileSends ==
  ASSUME Typed, pc = "compare", mem # NoTrade, NEW f \in {0, mem.qty},
         Submit(StopId(mem), mem.qty, f)
  PROVE  BrokerTyped' /\ Sends
<1>1. mem.qty \in 0..Lots /\ f \in 0..mem.qty
  BY LotsAssumption DEF Typed, TypeOK, OpenTrade
<1>2. StopId(mem) \in Ids
  BY StopIsKnown DEF Typed, TypeOK, Books
<1>3. BrokerTyped' /\ Sent(StopId(mem), mem.qty)
  BY <1>1, <1>2, SubmitSends DEF Typed
<1> QED BY <1>3 DEF Sends

\* Every step either fills and cancels, or sends one order of its handler.
LEMMA BrokerMoves ==
  ASSUME Typed, [Next]_vars
  PROVE  BrokerTyped' /\ (Kept \/ Sends)
<1> USE DEF Typed
<1>1. ASSUME UNCHANGED broker PROVE BrokerTyped' /\ (Kept \/ Sends)
  BY <1>1, KeptSame
<1>2. CASE Entry
  <2>1. CASE EntryReserve
    BY <2>1, <1>1 DEF EntryReserve
  <2>2. CASE EntryFailed
    <3>1. CASE UNCHANGED broker
      BY <3>1, <1>1
    <3>2. CASE \E f \in 0..q : Submit(<<"entry", n>>, q, f)
      BY <2>2, <3>2, HandlersSend DEF EntryFailed
    <3> QED BY <2>2, <3>1, <3>2 DEF EntryFailed, Failed, broker
  <2>3. CASE EntrySubmit
    BY <2>3, HandlersSend DEF EntrySubmit
  <2>4. CASE EntryUnwritten
    BY <2>4, HandlersSend DEF EntryUnwritten
  <2>5. CASE EntryProtect
    <3>1. CASE UNCHANGED broker
      BY <3>1, <1>1
    <3>2. CASE \E f \in {0, q} : Submit(StopId(t), q, f)
      <4>1. PICK f \in {0, q} : Submit(StopId(t), q, f)
        BY <3>2
      <4>2. pc = "bought" /\ f \in 0..q
        BY <2>5, <4>1 DEF EntryProtect, Labels
      <4> QED BY <4>1, <4>2, HandlersSend
    <3> QED BY <2>5, <3>1, <3>2 DEF EntryProtect
  <2>6. CASE EntryOpen
    BY <2>6, <1>1 DEF EntryOpen
  <2> QED BY <1>2, <2>1, <2>2, <2>3, <2>4, <2>5, <2>6 DEF Entry
<1>3. CASE Manage
  BY <1>3, <1>1 DEF Manage
<1>4. CASE Exit
  <2>1. CASE ManageDone \/ ExitReserve \/ ExitBook \/ CloseTrade
    BY <2>1, <1>1 DEF ManageDone, ExitReserve, ExitBook, CloseTrade
  <2>2. CASE ExitCancel
    <3>1. CASE UNCHANGED order
      BY <3>1, <2>2, <1>1 DEF ExitCancel, broker
    <3>2. CASE ~UNCHANGED order
      <4>1. /\ t.pid /\ Stop(t).status = "working"
            /\ order' = [order EXCEPT ![StopId(t)].status = "cancelled"]
            /\ pos' = pos
        BY <3>2, <2>2 DEF ExitCancel
      <4>2. t # NoTrade
        BY <4>1 DEF NoTrade
      <4>3. StopId(t) \in Ids
        BY <4>2, StopIsKnown DEF TypeOK, Books
      <4> QED BY <4>1, <4>3, CancelKeeps DEF Stop
    <3> QED BY <3>1, <3>2
  <2>3. CASE ExitFailed
    <3>1. CASE UNCHANGED broker
      BY <3>1, <1>1
    <3>2. CASE \E f \in 0..q : Submit(<<"exit", n>>, q, f)
      BY <2>3, <3>2, HandlersSend DEF ExitFailed
    <3> QED BY <2>3, <3>1, <3>2 DEF ExitFailed, Failed, broker
  <2>4. CASE ExitSubmit
    BY <2>4, HandlersSend DEF ExitSubmit
  <2>5. CASE ExitUnwritten
    BY <2>5, HandlersSend DEF ExitUnwritten
  <2> QED BY <1>4, <2>1, <2>2, <2>3, <2>4, <2>5 DEF Exit
<1>5. CASE Closing
  <2>1. CASE FlattenReserve
    BY <2>1, <1>1 DEF FlattenReserve
  <2>2. CASE FlattenFailed
    BY <2>2, <1>1, HandlersSend DEF FlattenFailed
  <2>3. CASE FlattenSubmit
    BY <2>3, HandlersSend DEF FlattenSubmit
  <2>4. CASE FlattenRejected
    BY <2>4, RejectedSends
  <2> QED BY <1>5, <2>1, <2>2, <2>3, <2>4 DEF Closing
<1>6. CASE Reconcile
  <2>1. CASE ReconcileRead \/ IngestCount \/ IngestClose \/ CompareFails
    BY <2>1, <1>1 DEF ReconcileRead, IngestCount, IngestClose, CompareFails
  <2>2. CASE Compare
    <3>1. CASE UNCHANGED broker
      BY <3>1, <1>1
    <3>2. CASE ~UNCHANGED broker
      BY <2>2, <3>2, ReconcileSends DEF Compare, Protect
    <3> QED BY <3>1, <3>2
  <2> QED BY <1>6, <2>1, <2>2 DEF Reconcile
<1>7. CASE Crash
  BY <1>7, <1>1 DEF Crash
<1>8. CASE CrashSubmitted
  <2>1. CASE pc \in {"reserved", "selling", "flatten"}
    BY <1>8, <2>1, HandlersSend DEF CrashSubmitted
  <2>2. CASE pc = "bought"
    <3>1. PICK f \in {0, q} : Submit(StopId(t), q, f)
      BY <1>8, <2>2 DEF CrashSubmitted
    <3>2. f \in 0..q
      BY <2>2, <3>1 DEF Labels
    <3> QED BY <2>2, <3>1, <3>2, HandlersSend
  <2> QED BY <1>8, <2>1, <2>2 DEF CrashSubmitted
<1>9. CASE CrashProtecting
  BY <1>9, ReconcileSends DEF CrashProtecting
<1>10. CASE Restart
  BY <1>10, <1>1 DEF Restart
<1>11. CASE Broker
  <2>1. ASSUME NEW id \in Ids, Cancel(id) PROVE BrokerTyped' /\ Kept
    BY <2>1, CancelKeeps DEF Cancel
  <2>2. ASSUME NEW id \in Ids, NEW k \in 1..Lots, Fill(id, k) PROVE BrokerTyped' /\ Kept
    BY <2>2, FillKeeps
  <2> QED BY <1>11, <2>1, <2>2 DEF Broker
<1>12. CASE UNCHANGED vars
  BY <1>12, <1>1 DEF vars
<1> QED BY <1>2, <1>3, <1>4, <1>5, <1>6, <1>7, <1>8, <1>9, <1>10, <1>11, <1>12 DEF Next

-----------------------------------------------------------------------------
(* What a step does to the trades                                           *)

\* A trade that comes from one that is in memory, in the row or in the
\* handler, and is not larger.
From(new) ==
  /\ new \in OpenTrade
  /\ \/ new = NoTrade
     \/ \E old \in {mem, row, t} :
          old # NoTrade /\ new.entry = old.entry /\ new.qty <= old.qty

\* The trade that an answered entry order opens
NewTrade(new) ==
  /\ pc = "reserved" /\ pc' = "bought" /\ new \in OpenTrade
  /\ new.entry = n /\ n' = n /\ new.qty = q' /\ q' \in 0..Lots
  /\ order'[<<"entry", n>>].filled = new.qty

\* The blank trade is a trade, and comes from nothing.
LEMMA FromNothing == NoTrade \in OpenTrade /\ NoTrade.seen = 0 /\ From(NoTrade)
BY LotsAssumption, BoundsAssumption DEF NoTrade, OpenTrade, From

\* A trade that is there comes from itself.
LEMMA FromItself ==
  ASSUME TypeOK
  PROVE  From(mem) /\ From(row) /\ From(t)
BY LotsAssumption DEF From, TypeOK, OpenTrade

\* The row of a trade
LEMMA FromRow ==
  ASSUME NEW trade, From(trade)
  PROVE  From(AsRow(trade)) /\ AsRow(trade).seen = 0
<1>1. AsRow(trade) \in OpenTrade /\ AsRow(trade).seen = 0
      /\ AsRow(trade).entry = trade.entry /\ AsRow(trade).qty = trade.qty
  BY LotsAssumption DEF From, AsRow, OpenTrade
<1>2. trade = NoTrade => AsRow(trade) = NoTrade
  BY DEF AsRow, NoTrade
<1> QED BY <1>1, <1>2 DEF From

\* The row after a write that may fail
LEMMA FromWrite ==
  ASSUME TypeOK, NEW trade, From(trade), WriteRow(trade)
  PROVE  From(row') /\ row'.seen = 0
BY FromRow, FromItself DEF WriteRow, TypeOK

\* The row and memory after a close
LEMMA FromClose ==
  ASSUME TypeOK, Close
  PROVE  From(mem') /\ From(row') /\ row'.seen = 0
<1>1. From(NoTrade) /\ NoTrade.seen = 0 /\ From(row) /\ row.seen = 0
  BY FromNothing, FromItself DEF TypeOK
<1> QED BY <1>1 DEF Close

\* A trade whose stop is recorded
LEMMA FromSafe ==
  ASSUME NEW trade, From(trade), trade # NoTrade
  PROVE  From([trade EXCEPT !.pid = TRUE])
<1> DEFINE safe == [trade EXCEPT !.pid = TRUE]
<1>1. safe \in OpenTrade /\ safe.entry = trade.entry /\ safe.qty = trade.qty
  BY DEF From, OpenTrade
<1> QED BY <1>1 DEF From

\* What is left of the handler's trade after a sell
LEMMA FromRest ==
  ASSUME TypeOK, NEW sold \in Nat
  PROVE  From(Rest(sold))
<1>0. t \in OpenTrade /\ t.qty \in 0..Lots /\ t.qty \in Nat
  BY LotsAssumption DEF TypeOK, OpenTrade
<1>1. Minus(t.qty, sold) \in 0..t.qty
  BY <1>0, MinusBounds
<1>2. Rest(sold) \in OpenTrade /\ Rest(sold).entry = t.entry
      /\ Rest(sold).qty = Minus(t.qty, sold)
  BY <1>0, <1>1, LotsAssumption DEF Rest, OpenTrade
<1>3. t = NoTrade => Rest(sold) = NoTrade
  <2>1. t = NoTrade => Minus(t.qty, sold) = 0
    BY <1>1 DEF NoTrade
  <2> QED BY <2>1 DEF Rest, NoTrade
<1> QED BY <1>0, <1>1, <1>2, <1>3 DEF From

\* What is left of the trade after a partial fill of its stop
LEMMA FromShrunk ==
  ASSUME TypeOK, NEW delta \in Nat, NEW seen \in 0..Lots, mem # NoTrade
  PROVE  From([mem EXCEPT !.qty = Minus(@, delta), !.seen = seen])
<1> DEFINE less == [mem EXCEPT !.qty = Minus(@, delta), !.seen = seen]
<1>0. mem \in OpenTrade /\ mem.qty \in 0..Lots /\ mem.qty \in Nat
  BY LotsAssumption DEF TypeOK, OpenTrade
<1>1. Minus(mem.qty, delta) \in 0..mem.qty
  BY <1>0, MinusBounds
<1>2. less \in OpenTrade /\ less.entry = mem.entry /\ less.qty = Minus(mem.qty, delta)
  <2>1. ASSUME NEW k \in 0..Lots, NEW new, new = [mem EXCEPT !.qty = k, !.seen = seen]
        PROVE  new \in OpenTrade /\ new.entry = mem.entry /\ new.qty = k
    BY <1>0, <2>1 DEF OpenTrade
  <2>2. Minus(mem.qty, delta) \in 0..Lots
    BY <1>0, <1>1, LotsAssumption
  <2> QED BY <2>1, <2>2
<1> QED BY <1>0, <1>1, <1>2 DEF From

\* Every trade of a step comes from a trade of the state before it, or from
\* the answer of an entry order.
TradesFollow ==
  From(mem') /\ From(row') /\ row'.seen = 0 /\ (From(t') \/ NewTrade(t'))

\* The steps of the entry follow.
LEMMA EntryFollows ==
  ASSUME Typed, Entry
  PROVE  TradesFollow
<1> USE FromNothing, FromItself DEF Typed, TradesFollow
<1>0. row.seen = 0
  BY DEF TypeOK
<1>1. CASE EntryReserve
  BY <1>0, <1>1 DEF EntryReserve, Goto
<1>2. CASE EntryFailed
  BY <1>0, <1>2 DEF EntryFailed, Failed, Return, Goto
<1>3. CASE EntrySubmit
  <2>1. PICK f \in 0..q :
          /\ Submit(<<"entry", n>>, q, f)
          /\ IF f = 0 THEN Return
             ELSE Goto("bought", [NoTrade EXCEPT !.qty = f, !.entry = n], n, f)
    BY <1>3 DEF EntrySubmit
  <2>2. n \in Entries /\ q \in 0..Lots /\ pc = "reserved"
    BY <1>3 DEF EntrySubmit, Labels
  <2>3. order'[<<"entry", n>>].filled = f
    BY <2>1, <2>2, IdKinds, SubmitSends
  <2>4. CASE f = 0
    BY <1>0, <1>3, <2>1, <2>4 DEF EntrySubmit, Return, Goto
  <2>5. CASE f # 0
    <3> DEFINE new == [NoTrade EXCEPT !.qty = f, !.entry = n]
    <3>0. f \in 0..Lots /\ n \in 0..MaxEntries
      BY <2>2, LotsAssumption, BoundsAssumption DEF Entries
    <3>1. new \in OpenTrade /\ new.qty = f /\ new.entry = n
      BY <3>0, FromNothing DEF NoTrade, OpenTrade
    <3>2. t' = new /\ n' = n /\ q' = f /\ pc' = "bought"
      BY <2>1, <2>5 DEF Goto
    <3>3. NewTrade(t')
      BY <2>2, <2>3, <3>0, <3>1, <3>2 DEF NewTrade
    <3> QED BY <1>0, <1>3, <3>3 DEF EntrySubmit
  <2> QED BY <2>4, <2>5
<1>4. CASE EntryUnwritten
  BY <1>0, <1>4 DEF EntryUnwritten, Return, Goto
<1>5. CASE EntryProtect
  <2>1. t.entry \in Entries
    BY <1>5 DEF EntryProtect, Labels
  <2>2. t # NoTrade
    BY <2>1 DEF NoTrade, Entries
  <2>3. From([t EXCEPT !.pid = TRUE])
    BY <2>2, FromSafe
  <2> QED BY <1>0, <1>5, <2>3 DEF EntryProtect, Goto, store
<1>6. CASE EntryOpen
  BY <1>0, <1>6, FromRow DEF EntryOpen, Opened, Return, Goto
<1> QED BY <1>1, <1>2, <1>3, <1>4, <1>5, <1>6 DEF Entry

\* The watch of the stop follows.
LEMMA ManageFollows ==
  ASSUME Typed, Manage
  PROVE  TradesFollow
<1> USE FromNothing, FromItself DEF Typed, TradesFollow
<1>0. row.seen = 0
  BY DEF TypeOK
<1>1. CASE StopClosed
  BY <1>0, <1>1 DEF StopClosed, Goto
<1>2. CASE StopOther
  BY <1>0, <1>2 DEF StopOther, Goto
<1>3. CASE StopPartial
  <2> DEFINE delta == Minus(Stop(mem).filled, mem.seen)
             less == [mem EXCEPT !.qty = Minus(@, delta), !.seen = Stop(mem).filled]
  <2>1. mem # NoTrade /\ StopId(mem) \in Ids
    BY <1>3, StopIsKnown DEF Manage, TypeOK, Books
  <2>2. Stop(mem).filled \in 0..Lots /\ mem.seen \in 0..Lots
    BY <2>1 DEF Stop, BrokerTyped, Order, TypeOK, OpenTrade
  <2>3. delta \in Nat
    <3>1. Stop(mem).filled \in Nat /\ mem.seen \in Nat
      BY <2>2, LotsAssumption
    <3> QED BY <3>1 DEF Minus
  <2>4. From(less)
    BY <2>1, <2>2, <2>3, FromShrunk
  <2>5. \/ UNCHANGED <<mem, row>> /\ t' = mem
        \/ mem' = less /\ WriteRow(less) /\ t' = mem
        \/ mem' = less /\ row' = AsRow(less) /\ t' = mem
    BY <1>3 DEF StopPartial, Shrunk, Goto
  <2> QED BY <1>0, <2>4, <2>5, FromWrite, FromRow
<1> QED BY <1>1, <1>2, <1>3 DEF Manage

\* The exit and the closing of the market follow.
LEMMA ExitFollows ==
  ASSUME Typed, Exit \/ Closing
  PROVE  TradesFollow
<1> USE FromNothing, FromItself DEF Typed, TradesFollow
<1>0. row.seen = 0 /\ q \in Nat
  BY DEF TypeOK
<1>1. CASE ManageDone
  BY <1>0, <1>1 DEF ManageDone, Return, Goto, store
<1>2. CASE ExitCancel
  BY <1>0, <1>2 DEF ExitCancel, Goto, store
<1>3. CASE ExitReserve
  BY <1>0, <1>3, FromClose DEF ExitReserve, Return, Goto, SellReserve
<1>4. CASE ExitFailed
  BY <1>0, <1>4 DEF ExitFailed, Failed, Return, Goto
<1>5. CASE ExitSubmit
  BY <1>0, <1>5 DEF ExitSubmit, Return, Goto
<1>6. CASE ExitUnwritten
  BY <1>0, <1>6 DEF ExitUnwritten, Return, Goto
<1>7. CASE ExitBook
  <2>1. From(Rest(q))
    BY <1>0, FromRest
  <2> QED BY <1>7, <2>1, FromClose, FromWrite DEF ExitBook, Return, Goto
<1>8. CASE CloseTrade
  BY <1>8, FromClose DEF CloseTrade, Return, Goto
<1>9. CASE FlattenReserve
  BY <1>0, <1>9 DEF FlattenReserve, SellReserve, Goto
<1>10. CASE FlattenFailed
  BY <1>0, <1>10 DEF FlattenFailed, Return, Goto, store
<1>11. CASE FlattenSubmit
  <2>1. PICK f \in 0..q :
          \/ UNCHANGED <<mem, row>> /\ (t' = t \/ t' = NoTrade)
          \/ mem' = Rest(f) /\ WriteRow(Rest(f)) /\ t' = NoTrade
          \/ mem' = Rest(f) /\ row' = AsRow(Rest(f)) /\ t' = NoTrade
    BY <1>11 DEF FlattenSubmit, Return, Goto
  <2>2. From(Rest(f))
    BY <1>0, FromRest
  <2> QED BY <1>0, <2>1, <2>2, FromWrite, FromRow
<1>12. CASE FlattenRejected
  BY <1>0, <1>12 DEF FlattenRejected, Return, Goto
<1> QED BY <1>1, <1>2, <1>3, <1>4, <1>5, <1>6, <1>7, <1>8, <1>9, <1>10, <1>11, <1>12
        DEF Exit, Closing

\* Every step follows.
LEMMA TradeMoves ==
  ASSUME Typed, [Next]_vars
  PROVE  TradesFollow
<1> USE FromNothing, FromItself DEF Typed, TradesFollow
<1>0. row.seen = 0
  BY DEF TypeOK
<1>1. CASE Entry
  BY <1>1, EntryFollows
<1>2. CASE Manage
  BY <1>2, ManageFollows
<1>3. CASE Exit \/ Closing
  BY <1>3, ExitFollows
<1>4. CASE Reconcile
  <2>1. CASE ReconcileRead \/ IngestCount \/ CompareFails
    BY <1>0, <2>1 DEF ReconcileRead, IngestCount, CompareFails, Return, Goto, store
  <2>2. CASE IngestClose
    BY <2>2, FromClose DEF IngestClose
  <2>3. CASE Compare
    <3> DEFINE safe == [mem EXCEPT !.pid = TRUE]
    <3>1. \/ UNCHANGED <<mem, row>>
          \/ mem # NoTrade /\ mem' = safe /\ WriteRow(safe)
      BY <2>3 DEF Compare, Protect
    <3>2. mem # NoTrade => From(safe)
      BY FromSafe
    <3>3. t' = NoTrade
      BY <2>3 DEF Compare, Return, Goto
    <3> QED BY <1>0, <3>1, <3>2, <3>3, FromWrite
  <2> QED BY <1>4, <2>1, <2>2, <2>3 DEF Reconcile
<1>5. CASE Crash \/ CrashSubmitted \/ CrashProtecting
  BY <1>0, <1>5 DEF Crash, CrashSubmitted, CrashProtecting, Vanish, Goto
<1>6. CASE Restart
  BY <1>0, <1>6 DEF Restart, Goto, store
<1>7. CASE Broker \/ UNCHANGED vars
  BY <1>0, <1>7 DEF Broker, Fill, Cancel, vars, store, local
<1> QED BY <1>1, <1>2, <1>3, <1>4, <1>5, <1>6, <1>7 DEF Next

-----------------------------------------------------------------------------
(* Types                                                                    *)

\* The rest of the types: everything that is not an order or a trade
Scalars ==
  /\ idem \in [Ids -> {"none", "RESERVED", "FAILED", "SENT"}]
  /\ pc \in {"down", "idle", "reserved", "bought", "stopped", "managed", "sell",
             "selling", "sold", "flatten", "closing", "compare", "ingest"}
  /\ n \in Nat /\ q \in Nat
  /\ killed \in BOOLEAN
  /\ realized \in Nat /\ counted \in Nat
  /\ crashes \in 0..MaxCrashes
  /\ faults \in 0..MaxFaults

\* One more fault is within the bound.
LEMMA FaultTyped ==
  ASSUME faults \in 0..MaxFaults, Fault \/ Fine
  PROVE  faults' \in 0..MaxFaults
BY BoundsAssumption DEF Fault, Fine

\* The next id is one that has never been used.
LEMMA FreshIs ==
  /\ Unused("entry") # {} =>
       Fresh("entry") \in Entries /\ idem[<<"entry", Fresh("entry")>>] = "none"
  /\ Unused("exit") # {} =>
       Fresh("exit") \in Exits /\ idem[<<"exit", Fresh("exit")>>] = "none"
<1>1. Unused("entry") # {} => Fresh("entry") \in Unused("entry")
  BY DEF Fresh
<1>2. Unused("exit") # {} => Fresh("exit") \in Unused("exit")
  BY DEF Fresh
<1> QED BY <1>1, <1>2 DEF Unused

\* The row of an order gets one of the known states.
LEMMA IdemTyped ==
  ASSUME idem \in [Ids -> {"none", "RESERVED", "FAILED", "SENT"}], NEW id \in Ids,
         UNCHANGED idem \/ Reserve(id) \/ Settle(id, "FAILED") \/ Settle(id, "SENT")
  PROVE  idem' \in [Ids -> {"none", "RESERVED", "FAILED", "SENT"}]
BY DEF Reserve, Settle

\* The steps of an entry keep the types and the labels.
LEMMA EntryTyped ==
  ASSUME Typed, Entry, TradesFollow
  PROVE  Scalars' /\ Labels'
<1> USE DEF Typed, TypeOK, Scalars, Labels, bounds, profit, store
<1>1. CASE EntryReserve
  <2>0. Fresh("entry") \in Entries
    BY <1>1, FreshIs DEF EntryReserve
  <2>1. <<"entry", Fresh("entry")>> \in Ids
    BY <2>0, IdKinds
  <2>3. Fresh("entry") \in Nat /\ Lots \in 0..Lots /\ Lots \in Nat
    BY <2>0, LotsAssumption DEF Entries
  <2>2. idem' \in [Ids -> {"none", "RESERVED", "FAILED", "SENT"}]
    BY <1>1, <2>1, IdemTyped DEF EntryReserve
  <2> QED BY <1>1, <2>0, <2>2, <2>3 DEF EntryReserve, Goto
<1>2. CASE EntryFailed
  <2>1. n \in Entries /\ <<"entry", n>> \in Ids
    BY <1>2, IdKinds DEF EntryFailed
  <2>2. idem' \in [Ids -> {"none", "RESERVED", "FAILED", "SENT"}]
    BY <1>2, <2>1, IdemTyped DEF EntryFailed, Failed
  <2>3. faults' \in 0..MaxFaults
    BY <1>2, FaultTyped DEF EntryFailed, Failed
  <2> QED BY <1>2, <2>2, <2>3 DEF EntryFailed, Failed, Return, Goto
<1>3. CASE EntrySubmit
  <2>1. n \in Entries /\ <<"entry", n>> \in Ids /\ q \in 0..Lots
    BY <1>3, IdKinds DEF EntrySubmit
  <2>2. idem' \in [Ids -> {"none", "RESERVED", "FAILED", "SENT"}]
    BY <1>3, <2>1, IdemTyped DEF EntrySubmit
  <2>3. PICK f \in 0..q :
          IF f = 0 THEN Return
          ELSE Goto("bought", [NoTrade EXCEPT !.qty = f, !.entry = n], n, f)
    BY <1>3 DEF EntrySubmit
  <2>4. f \in 0..Lots /\ f \in Nat
    BY <2>1, LotsAssumption
  <2>5. CASE f = 0
    BY <1>3, <2>2, <2>3, <2>5 DEF EntrySubmit, Return, Goto
  <2>6. CASE f # 0
    <3>1. pc' = "bought" /\ n' = n /\ q' = f
          /\ t' = [NoTrade EXCEPT !.qty = f, !.entry = n]
      BY <2>3, <2>6 DEF Goto
    <3>2. t'.entry = n /\ t'.qty = f
      BY <3>1 DEF NoTrade
    <3> QED BY <1>3, <2>1, <2>2, <2>4, <3>1, <3>2 DEF EntrySubmit
  <2> QED BY <2>5, <2>6
<1>4. CASE EntryUnwritten
  <2>1. n \in Entries /\ <<"entry", n>> \in Ids
    BY <1>4, IdKinds DEF EntryUnwritten
  <2>2. idem' \in [Ids -> {"none", "RESERVED", "FAILED", "SENT"}]
    BY <1>4, <2>1, IdemTyped DEF EntryUnwritten
  <2>3. faults' \in 0..MaxFaults
    BY <1>4, FaultTyped DEF EntryUnwritten
  <2> QED BY <1>4, <2>2, <2>3 DEF EntryUnwritten, Return, Goto
<1>5. CASE EntryProtect
  <2>1. faults' \in 0..MaxFaults
    BY <1>5, FaultTyped DEF EntryProtect, Fine
  <2> QED BY <1>5, <2>1 DEF EntryProtect, Goto
<1>6. CASE EntryOpen
  <2>1. faults' \in 0..MaxFaults
    BY <1>6, FaultTyped DEF EntryOpen, Opened
  <2> QED BY <1>6, <2>1 DEF EntryOpen, Return, Goto
<1> QED BY <1>1, <1>2, <1>3, <1>4, <1>5, <1>6 DEF Entry

\* What a stop has filled is a number.
LEMMA StopFilled ==
  ASSUME Typed, NEW trade \in OpenTrade, Known(trade), trade.pid
  PROVE  Stop(trade).filled \in 0..Lots
<1>1. trade # NoTrade
  BY DEF NoTrade
<1>2. StopId(trade) \in Ids
  BY <1>1, StopIsKnown
<1> QED BY <1>2 DEF Stop, Typed, BrokerTyped, Order

\* The watch of the stop keeps the types and the labels.
LEMMA ManageTyped ==
  ASSUME Typed, Manage
  PROVE  Scalars' /\ Labels'
<1> USE DEF Typed, TypeOK, Scalars, Labels
<1>1. faults' \in 0..MaxFaults
  BY FaultTyped DEF Manage, StopClosed, StopPartial, StopOther, Shrunk, WriteRow,
                    CountLoosely, Uncounted
<1>2. pc' \in {"closing", "managed"} /\ n' = 0 /\ q' = 0
  BY DEF Manage, StopClosed, StopPartial, StopOther, Goto
<1>3. realized' \in Nat /\ counted' \in Nat
  <2>1. ASSUME NEW k \in Nat, Count(k) \/ Uncounted(k)
        PROVE  realized' \in Nat /\ counted' \in Nat
    BY <2>1 DEF Count, Uncounted
  <2>2. CASE StopOther
    BY <2>2 DEF StopOther, profit
  <2>3. CASE StopClosed \/ StopPartial
    <3>1. Stop(mem).filled \in 0..Lots /\ mem.seen \in 0..Lots
      BY <2>3, StopFilled DEF StopClosed, StopPartial, Books, OpenTrade
    <3>2. Stop(mem).filled \in Nat /\ mem.seen \in Nat
      BY <3>1, LotsAssumption
    <3>3. Minus(Stop(mem).filled, mem.seen) \in Nat
      BY <3>2 DEF Minus
    <3>4. \E k \in Nat : Count(k) \/ Uncounted(k) \/ UNCHANGED profit
      BY <2>3, <3>2, <3>3 DEF StopClosed, StopPartial, CountLoosely
    <3> QED BY <2>1, <3>4 DEF profit
  <2> QED BY <2>2, <2>3 DEF Manage
<1>4. UNCHANGED <<idem, killed, crashes>>
  BY DEF Manage
<1> QED BY <1>1, <1>2, <1>3, <1>4

\* Reserving a sell leads to a handler with a fresh order.
LEMMA SellTyped ==
  ASSUME Typed, Unused("exit") # {}, NEW label \in {"selling", "flatten"},
         NEW trade, NEW quantity \in 0..Lots,
         SellReserve(label, trade, quantity)
  PROVE  /\ idem' \in [Ids -> {"none", "RESERVED", "FAILED", "SENT"}]
         /\ pc' = label /\ n' \in Exits /\ n' \in Nat
         /\ q' = quantity /\ q' \in Nat
<1>1. Fresh("exit") \in Exits
  BY FreshIs
<1>2. <<"exit", Fresh("exit")>> \in Ids /\ Fresh("exit") \in Nat
  BY <1>1, IdKinds DEF Exits
<1>3. Reserve(<<"exit", Fresh("exit")>>)
      /\ pc' = label /\ n' = Fresh("exit") /\ q' = quantity
  BY DEF SellReserve, Goto
<1>4. quantity \in Nat
  BY LotsAssumption
<1> QED BY <1>1, <1>2, <1>3, <1>4, IdemTyped DEF Typed, TypeOK

\* A close is written or not.
LEMMA CloseTyped ==
  ASSUME Typed, Close
  PROVE  faults' \in 0..MaxFaults
BY FaultTyped DEF Close, Typed, TypeOK

\* The steps of an exit keep the types and the labels.
LEMMA ExitTyped ==
  ASSUME Typed, Exit, TradesFollow
  PROVE  Scalars' /\ Labels'
<1> USE DEF Typed, TypeOK, Scalars, Labels, bounds, profit, store
<1>0. t.qty \in 0..Lots
  BY DEF OpenTrade
<1>1. CASE ManageDone
  BY <1>1 DEF ManageDone, Return, Goto
<1>2. CASE ExitCancel
  <2>1. t.pid => Stop(t).filled \in Nat
    BY StopFilled, LotsAssumption DEF Books
  <2>2. realized' \in Nat /\ counted' \in Nat
    BY <1>2, <2>1 DEF ExitCancel
  <2>3. Unused("exit") # {} /\ idem' = idem
    BY <1>2 DEF ExitCancel
  <2>4. (Unused("exit") # {})'
    BY <2>3 DEF Unused
  <2>5. pc' \in {"closing", "sell"} /\ n' = 0 /\ q' = 0
    BY <1>2 DEF ExitCancel, Goto
  <2>6. UNCHANGED <<killed, crashes, faults>>
    BY <1>2 DEF ExitCancel
  <2> QED BY <2>2, <2>3, <2>4, <2>5, <2>6
<1>3. CASE ExitReserve
  <2>1. CASE pos = 0
    BY <1>3, <2>1, CloseTyped DEF ExitReserve, Return, Goto
  <2>2. CASE pos > 0
    <3> DEFINE sold == IF pos < t.qty THEN pos ELSE t.qty
    <3>1. sold \in 0..Lots
      BY <1>0, LotsAssumption
    <3>2. SellReserve("selling", t, sold) /\ Fine
          /\ UNCHANGED <<killed, realized, counted, crashes>>
      BY <1>3, <2>2 DEF ExitReserve
    <3>3. Unused("exit") # {}
      BY <1>3 DEF ExitReserve
    <3>4. /\ idem' \in [Ids -> {"none", "RESERVED", "FAILED", "SENT"}]
          /\ pc' = "selling" /\ n' \in Exits /\ n' \in Nat
          /\ q' = sold /\ q' \in Nat
      BY <3>1, <3>2, <3>3, SellTyped
    <3> QED BY <3>1, <3>2, <3>4 DEF Fine
  <2> QED BY <2>1, <2>2
<1>4. CASE ExitFailed
  <2>1. <<"exit", n>> \in Ids
    BY <1>4, IdKinds DEF ExitFailed
  <2>2. idem' \in [Ids -> {"none", "RESERVED", "FAILED", "SENT"}]
    BY <1>4, <2>1, IdemTyped DEF ExitFailed, Failed
  <2>3. faults' \in 0..MaxFaults
    BY <1>4, FaultTyped DEF ExitFailed, Failed
  <2> QED BY <1>4, <2>2, <2>3 DEF ExitFailed, Failed, Return, Goto
<1>5. CASE ExitSubmit
  <2>1. <<"exit", n>> \in Ids /\ n \in Exits /\ q \in 0..Lots
    BY <1>5, IdKinds DEF ExitSubmit
  <2>2. idem' \in [Ids -> {"none", "RESERVED", "FAILED", "SENT"}]
    BY <1>5, <2>1, IdemTyped DEF ExitSubmit
  <2>3. PICK f \in 0..q : IF f = 0 THEN Return /\ UNCHANGED profit
                          ELSE Count(f) /\ Goto("sold", t, n, f)
    BY <1>5 DEF ExitSubmit
  <2>4. f \in 0..Lots /\ f \in Nat
    BY <2>1, LotsAssumption
  <2>5. realized' \in Nat /\ counted' \in Nat
    BY <2>3, <2>4 DEF Count
  <2>6. \/ pc' = "idle" /\ n' = 0 /\ q' = 0
        \/ pc' = "sold" /\ n' = n /\ q' = f
    BY <2>3 DEF Return, Goto
  <2> QED BY <1>5, <2>1, <2>2, <2>4, <2>5, <2>6 DEF ExitSubmit
<1>6. CASE ExitUnwritten
  <2>1. <<"exit", n>> \in Ids /\ q \in 0..Lots
    BY <1>6, IdKinds DEF ExitUnwritten
  <2>2. PICK f \in 0..q :
          \/ Settle(<<"exit", n>>, "SENT") /\ realized' \in {realized, realized + f}
          \/ UNCHANGED <<idem, realized>>
    BY <1>6 DEF ExitUnwritten
  <2>3. idem' \in [Ids -> {"none", "RESERVED", "FAILED", "SENT"}]
    BY <2>1, <2>2, IdemTyped
  <2>4. realized' \in Nat
    BY <2>1, <2>2, LotsAssumption
  <2>5. faults' \in 0..MaxFaults
    BY <1>6, FaultTyped DEF ExitUnwritten
  <2> QED BY <1>6, <2>3, <2>4, <2>5 DEF ExitUnwritten, Return, Goto
<1>7. CASE ExitBook
  <2>1. faults' \in 0..MaxFaults
    BY <1>7, CloseTyped, FaultTyped DEF ExitBook, WriteRow
  <2> QED BY <1>7, <2>1 DEF ExitBook, Return, Goto
<1>8. CASE CloseTrade
  BY <1>8, CloseTyped DEF CloseTrade, Return, Goto
<1> QED BY <1>1, <1>2, <1>3, <1>4, <1>5, <1>6, <1>7, <1>8 DEF Exit

\* The steps of the closing of the market keep the types and the labels.
LEMMA ClosingTyped ==
  ASSUME Typed, Closing, TradesFollow
  PROVE  Scalars' /\ Labels'
<1> USE DEF Typed, TypeOK, Scalars, Labels, bounds, profit, store
<1>1. CASE FlattenReserve
  <2>1. mem.qty \in 0..Lots /\ Unused("exit") # {}
    BY <1>1 DEF FlattenReserve, OpenTrade
  <2>2. SellReserve("flatten", mem, mem.qty)
        /\ UNCHANGED <<killed, realized, counted, crashes, faults>>
    BY <1>1 DEF FlattenReserve
  <2>3. /\ idem' \in [Ids -> {"none", "RESERVED", "FAILED", "SENT"}]
        /\ pc' = "flatten" /\ n' \in Exits /\ n' \in Nat
        /\ q' = mem.qty /\ q' \in Nat
    BY <2>1, <2>2, SellTyped
  <2> QED BY <2>1, <2>2, <2>3
<1>2. CASE FlattenFailed
  <2>1. faults' \in 0..MaxFaults
    BY <1>2, FaultTyped DEF FlattenFailed
  <2> QED BY <1>2, <2>1 DEF FlattenFailed, Return, Goto
<1>3. CASE FlattenSubmit
  <2>1. <<"exit", n>> \in Ids /\ q \in 0..Lots
    BY <1>3, IdKinds DEF FlattenSubmit
  <2>2. idem' \in [Ids -> {"none", "RESERVED", "FAILED", "SENT"}]
    BY <1>3, <2>1, IdemTyped DEF FlattenSubmit, Answered
  <2>3. PICK f \in 0..q : Count(f) \/ Uncounted(f) \/ UNCHANGED profit
    BY <1>3 DEF FlattenSubmit, CountLoosely
  <2>4. realized' \in Nat /\ counted' \in Nat
    BY <2>1, <2>3, LotsAssumption DEF Count, Uncounted
  <2>5. faults' \in 0..MaxFaults
    BY <1>3, FaultTyped DEF FlattenSubmit, WriteRow, CountLoosely, Uncounted
  <2>6. pc' \in {"idle", "closing"} /\ n' = 0 /\ q' = 0
    BY <1>3 DEF FlattenSubmit, Return, Goto
  <2> QED BY <1>3, <2>2, <2>4, <2>5, <2>6 DEF FlattenSubmit
<1>4. CASE FlattenRejected
  <2>1. <<"exit", n>> \in Ids
    BY <1>4, IdKinds DEF FlattenRejected
  <2>2. idem' \in [Ids -> {"none", "RESERVED", "FAILED", "SENT"}]
    BY <1>4, <2>1, IdemTyped DEF FlattenRejected, Answered
  <2> QED BY <1>4, <2>2 DEF FlattenRejected, Return, Goto
<1> QED BY <1>1, <1>2, <1>3, <1>4 DEF Closing

\* What reconcile writes about the orders
LEMMA ResolvedTyped ==
  ASSUME idem \in [Ids -> {"none", "RESERVED", "FAILED", "SENT"}]
  PROVE  Resolved \in [Ids -> {"none", "RESERVED", "FAILED", "SENT"}]
BY DEF Resolved

\* The steps of reconcile keep the types and the labels.
LEMMA ReconcileTyped ==
  ASSUME Typed, Reconcile, TradesFollow
  PROVE  Scalars' /\ Labels'
<1> USE DEF Typed, TypeOK, Scalars, Labels, bounds, profit, store
<1>1. CASE ReconcileRead
  BY <1>1 DEF ReconcileRead, Goto
<1>2. CASE IngestCount
  <2>1. Stop(mem).filled \in Nat
    BY <1>2, StopFilled, LotsAssumption DEF IngestCount, Ingests, Books
  <2>2. realized' \in Nat /\ counted' \in Nat
    BY <1>2, <2>1 DEF IngestCount, CountLoosely, Count, Uncounted
  <2>3. faults' \in 0..MaxFaults
    BY <1>2, FaultTyped DEF IngestCount, CountLoosely, Uncounted
  <2> QED BY <1>2, <2>2, <2>3 DEF IngestCount
<1>3. CASE IngestClose
  BY <1>3, CloseTyped DEF IngestClose
<1>4. CASE Compare
  <2>1. idem' \in [Ids -> {"none", "RESERVED", "FAILED", "SENT"}]
    BY <1>4, ResolvedTyped DEF Compare
  <2>2. faults' \in 0..MaxFaults
    BY <1>4, FaultTyped DEF Compare, Protect, WriteRow
  <2>3. killed' \in BOOLEAN
    BY <1>4 DEF Compare
  <2> QED BY <1>4, <2>1, <2>2, <2>3 DEF Compare, Return, Goto
<1>5. CASE CompareFails
  <2>1. idem' \in [Ids -> {"none", "RESERVED", "FAILED", "SENT"}]
    BY <1>5, ResolvedTyped DEF CompareFails
  <2>2. faults' \in 0..MaxFaults
    BY <1>5, FaultTyped DEF CompareFails
  <2> QED BY <1>5, <2>1, <2>2 DEF CompareFails, Return, Goto
<1> QED BY <1>1, <1>2, <1>3, <1>4, <1>5 DEF Reconcile

\* Crashes, restarts and the broker keep the types and the labels.
LEMMA RestTyped ==
  ASSUME Typed,
         \/ Crash \/ CrashSubmitted \/ CrashProtecting
         \/ Restart \/ Broker \/ UNCHANGED vars
  PROVE  Scalars' /\ Labels'
<1> USE DEF Typed, TypeOK, Scalars, Labels, bounds, profit, store
<1>1. CASE Crash \/ CrashSubmitted \/ CrashProtecting
  <2>1. Vanish
    BY <1>1 DEF Crash, CrashSubmitted, CrashProtecting
  <2>2. crashes' \in 0..MaxCrashes
    BY <2>1, BoundsAssumption DEF Vanish
  <2>3. idem' \in [Ids -> {"none", "RESERVED", "FAILED", "SENT"}]
    BY <1>1, ResolvedTyped DEF Crash, CrashSubmitted, CrashProtecting
  <2> QED BY <2>1, <2>2, <2>3 DEF Vanish, Goto
<1>2. CASE Restart
  BY <1>2 DEF Restart, Goto
<1>3. CASE Broker \/ UNCHANGED vars
  <2>1. UNCHANGED <<store, local, mem, killed, profit, bounds>>
    BY <1>3 DEF Broker, Fill, Cancel, vars
  <2>2. (Unused("exit") # {})' <=> Unused("exit") # {}
    BY <2>1 DEF Unused
  <2> QED BY <2>1, <2>2 DEF local
<1> QED BY <1>1, <1>2, <1>3

\* The types and the labels are kept.
LEMMA TypedStep ==
  ASSUME Typed, [Next]_vars
  PROVE  Typed'
<1>1. BrokerTyped'
  BY BrokerMoves
<1>2. TradesFollow
  BY TradeMoves
<1>3. Scalars' /\ Labels'
  BY <1>2, EntryTyped, ManageTyped, ExitTyped, ClosingTyped, ReconcileTyped, RestTyped
     DEF Next
<1>4. ASSUME NEW new, From(new) PROVE new \in OpenTrade /\ Known(new)
  BY <1>4 DEF From, Known, Typed, Books
<1>5. NewTrade(t') => t' \in OpenTrade /\ Known(t')
  <2>1. pc = "reserved" => n \in Entries
    BY DEF Typed, Labels
  <2> QED BY <2>1 DEF NewTrade, Known
<1>6. Books' /\ mem' \in OpenTrade /\ row' \in OpenTrade /\ t' \in OpenTrade
  BY <1>2, <1>4, <1>5 DEF TradesFollow, Books, Known
<1>7. TypeOK'
  BY <1>1, <1>2, <1>3, <1>6 DEF TypeOK, BrokerTyped, Scalars, TradesFollow
<1> QED BY <1>1, <1>3, <1>6, <1>7 DEF Typed

\* The first state has the types.
LEMMA TypedInit ==
  ASSUME Init
  PROVE  Typed
<1>1. NoOrder \in Order
  BY LotsAssumption DEF NoOrder, Order
<1>2. TypeOK
  <2>1. order \in [Ids -> Order] /\ pos \in Nat
    BY <1>1 DEF Init
  <2>2. row \in OpenTrade /\ row.seen = 0 /\ mem \in OpenTrade /\ t \in OpenTrade
    BY FromNothing DEF Init
  <2>3. idem \in [Ids -> {"none", "RESERVED", "FAILED", "SENT"}]
    BY DEF Init
  <2>4. crashes \in 0..MaxCrashes /\ faults \in 0..MaxFaults
    BY BoundsAssumption DEF Init
  <2>5. /\ pc = "idle" /\ n \in Nat /\ q \in Nat /\ killed \in BOOLEAN
        /\ realized \in Nat /\ counted \in Nat
    BY DEF Init
  <2> QED BY <2>1, <2>2, <2>3, <2>4, <2>5 DEF TypeOK
<1>3. BrokerTyped
  BY <1>1 DEF Init, BrokerTyped, Blank
<1>4. Books /\ Labels
  BY DEF Init, Books, Known, Labels
<1> QED BY <1>2, <1>3, <1>4 DEF Typed

-----------------------------------------------------------------------------
(* What the stops may sell                                                  *)

\* Nothing the broker filled is taken back.
LEMMA Grown ==
  ASSUME BrokerTyped, BrokerTyped', Kept \/ Sends, NEW id \in Ids
  PROVE  order'[id].filled >= order[id].filled
<1>1. order[id].filled \in Nat /\ order'[id].filled \in Nat
  BY LotsAssumption DEF BrokerTyped, Order
<1>2. CASE Kept
  BY <1>2 DEF Kept
<1>3. ASSUME NEW other \in Ids, NEW k, Sent(other, k)
      PROVE  order'[id].filled >= order[id].filled
  <2>1. CASE id = other
    <3>1. order[id].filled = 0
      BY <1>3, <2>1 DEF Sent, BrokerTyped, Blank, NoOrder
    <3> QED BY <1>1, <3>1
  <2>2. CASE id # other
    BY <1>1, <1>3, <2>2 DEF Sent
  <2> QED BY <2>1, <2>2
<1> QED BY <1>2, <1>3 DEF Sends, Sent

\* Trades stay within what their entries have bought.
LEMMA BackedStep ==
  ASSUME Typed, Covered, [Next]_vars
  PROVE  Backed(mem)' /\ Backed(row)' /\ Backed(t)'
<1>1. BrokerTyped' /\ (Kept \/ Sends) /\ TradesFollow /\ Typed'
  BY BrokerMoves, TradeMoves, TypedStep
<1>2. \A e \in Entries :
        /\ order[<<"entry", e>>].filled \in Nat
        /\ order'[<<"entry", e>>].filled \in Nat
        /\ order'[<<"entry", e>>].filled >= order[<<"entry", e>>].filled
  <2> TAKE e \in Entries
  <2>1. <<"entry", e>> \in Ids
    BY IdKinds
  <2> QED BY <1>1, <2>1, Grown, LotsAssumption DEF Typed, BrokerTyped, Order
<1>3. ASSUME NEW new, From(new)
      PROVE  new = NoTrade \/ new.qty <= order'[<<"entry", new.entry>>].filled
  <2>1. CASE new = NoTrade
    BY <2>1
  <2>2. CASE new # NoTrade
    <3>1. PICK old \in {mem, row, t} :
            old # NoTrade /\ new.entry = old.entry /\ new.qty <= old.qty
      BY <1>3, <2>2 DEF From
    <3>2. old.entry \in Entries /\ old.qty <= order[<<"entry", old.entry>>].filled
      BY <3>1 DEF Typed, Books, Known, Covered, Backed
    <3>3. old.qty \in Nat /\ new.qty \in Nat
      BY <1>3, <3>1, LotsAssumption DEF From, Typed, TypeOK, OpenTrade
    <3> QED BY <1>2, <3>1, <3>2, <3>3
  <2> QED BY <2>1, <2>2
<1>4. NewTrade(t') => t'.qty <= order'[<<"entry", t'.entry>>].filled
  BY LotsAssumption DEF NewTrade, OpenTrade
<1> QED BY <1>1, <1>3, <1>4 DEF TradesFollow, Backed

\* A new stop sells no more than the trade it protects, an old one is as it was.
LEMMA StopsStep ==
  ASSUME Typed, Covered, [Next]_vars
  PROVE  StopsCovered'
<1>1. BrokerTyped' /\ (Kept \/ Sends)
  BY BrokerMoves
<1> SUFFICES ASSUME NEW e \in Entries
             PROVE  order'[<<"stop", e>>].qty <= order'[<<"entry", e>>].filled
  BY DEF StopsCovered
<1>2. <<"entry", e>> \in Ids /\ <<"stop", e>> \in Ids
  BY IdKinds
<1>3. /\ order[<<"stop", e>>].qty <= order[<<"entry", e>>].filled
      /\ order[<<"stop", e>>].qty \in Nat
      /\ order[<<"entry", e>>].filled \in Nat
      /\ order'[<<"entry", e>>].filled \in Nat
  BY <1>1, <1>2, LotsAssumption DEF Typed, BrokerTyped, Order, Covered, StopsCovered
<1>4. order'[<<"entry", e>>].filled >= order[<<"entry", e>>].filled
  BY <1>1, <1>2, Grown DEF Typed
<1>5. CASE order'[<<"stop", e>>].qty = order[<<"stop", e>>].qty
  BY <1>3, <1>4, <1>5
<1>6. CASE order'[<<"stop", e>>].qty # order[<<"stop", e>>].qty
  <2>1. \E trade \in {mem, t} :
          trade # NoTrade /\ Sent(StopId(trade), trade.qty) /\ StopId(trade) = <<"stop", e>>
    <3>1. \A id \in Ids : \A k : Sent(id, k) => id = <<"stop", e>> \/ id \notin Ids
                                            \/ UNCHANGED order[<<"stop", e>>]
      BY <1>2 DEF Sent
    <3>2. ~Kept
      BY <1>2, <1>6 DEF Kept
    <3>3. pc = "bought" => t.entry \in Entries
      BY DEF Typed, Labels
    <3>4. pc = "bought" => t # NoTrade
      BY <3>3 DEF NoTrade, Entries
    <3>5. \A x : <<"entry", x>> # <<"stop", e>> /\ <<"exit", x>> # <<"stop", e>>
      OBVIOUS
    <3> QED BY <1>1, <1>6, <3>1, <3>2, <3>4, <3>5 DEF Sends, Sent
  <2>2. PICK trade \in {mem, t} :
          trade # NoTrade /\ Sent(StopId(trade), trade.qty) /\ StopId(trade) = <<"stop", e>>
    BY <2>1
  <2>3. trade.entry = e
    BY <2>2 DEF StopId
  <2>4. trade.qty <= order[<<"entry", e>>].filled /\ trade.qty \in Nat
    BY <2>2, <2>3, LotsAssumption DEF Covered, Backed, Typed, TypeOK, OpenTrade
  <2>5. order'[<<"stop", e>>].qty = trade.qty
    BY <2>2 DEF Sent
  <2> QED BY <1>3, <1>4, <2>4, <2>5
<1> QED BY <1>5, <1>6

-----------------------------------------------------------------------------
(* What the store knows of the orders                                       *)

\* Where a reserved order is about to be sent
Waits == {"reserved", "selling", "flatten"}

\* The order that is about to be sent
Waiting(id) ==
  \/ pc = "reserved" /\ id = <<"entry", n>>
  \/ pc \in {"selling", "flatten"} /\ id = <<"exit", n>>

\* The handlers reserve an unused id before they wait, settle the id they
\* waited for, and reconcile resolves what is left.
Writes ==
  /\ faults' = 0 => faults = 0
  /\ \/ UNCHANGED idem /\ pc' \notin Waits
     \/ /\ UNCHANGED broker /\ pc' \in Waits
        /\ \E id \in Ids :
             id[1] # "stop" /\ idem[id] = "none" /\ Reserve(id) /\ Waiting(id)'
     \/ /\ pc' \notin Waits
        /\ \E id \in Ids :
             /\ Waiting(id)
             /\ \/ Settle(id, "SENT")
                \/ Settle(id, "FAILED") /\ (UNCHANGED broker \/ faults' # 0)
     \/ pc' \notin Waits /\ pc = "compare" /\ idem' = Resolved

\* A fault is remembered.
LEMMA FaultStays ==
  ASSUME faults \in Nat, Fault \/ Fine
  PROVE  (faults' = 0 => faults = 0) /\ (Fault => faults' # 0)
BY DEF Fault, Fine

\* The writes of an entry
LEMMA EntryWrites ==
  ASSUME Typed, Entry
  PROVE  Writes
<1> USE DEF Writes, Waits
<1>0. faults \in Nat
  BY BoundsAssumption DEF Typed, TypeOK
<1>1. pc \in {"reserved", "bought"} => n \in Entries /\ <<"entry", n>> \in Ids
  BY IdKinds DEF Typed, Labels
<1>2. CASE EntryReserve
  <2>1. Fresh("entry") \in Entries /\ idem[<<"entry", Fresh("entry")>>] = "none"
    BY <1>2, FreshIs DEF EntryReserve
  <2>2. <<"entry", Fresh("entry")>> \in Ids
    BY <2>1, IdKinds
  <2>3. Reserve(<<"entry", Fresh("entry")>>)
        /\ pc' = "reserved" /\ n' = Fresh("entry") /\ UNCHANGED broker
        /\ faults' = faults
    BY <1>2 DEF EntryReserve, Goto, bounds
  <2>4. \E id \in Ids :
          id[1] # "stop" /\ idem[id] = "none" /\ Reserve(id)
          /\ (pc' = "reserved" /\ id = <<"entry", n'>>)
    BY <2>1, <2>2, <2>3
  <2> QED BY <2>3, <2>4 DEF Waiting
<1>3. CASE EntryFailed
  <2>1. /\ Waiting(<<"entry", n>>) /\ pc' = "idle"
        /\ \/ Settle(<<"entry", n>>, "FAILED") /\ ((UNCHANGED broker /\ Fine) \/ Fault)
           \/ UNCHANGED idem /\ Fault
    BY <1>3 DEF EntryFailed, Failed, Waiting, Return, Goto
  <2> QED BY <1>0, <1>1, <1>3, <2>1, FaultStays DEF EntryFailed
<1>4. CASE EntrySubmit
  <2>1. pc' \in {"idle", "bought"}
    BY <1>4 DEF EntrySubmit, Return, Goto
  <2>2. Waiting(<<"entry", n>>) /\ Settle(<<"entry", n>>, "SENT") /\ faults' = faults
    BY <1>4 DEF EntrySubmit, Waiting, bounds
  <2> QED BY <1>1, <1>4, <2>1, <2>2 DEF EntrySubmit
<1>5. CASE EntryUnwritten
  <2>1. Waiting(<<"entry", n>>) /\ pc' = "idle" /\ Fault
        /\ (Settle(<<"entry", n>>, "SENT") \/ UNCHANGED idem)
    BY <1>5 DEF EntryUnwritten, Waiting, Return, Goto
  <2> QED BY <1>0, <1>1, <1>5, <2>1, FaultStays DEF EntryUnwritten
<1>6. CASE EntryProtect
  <2>1. pc' = "stopped" /\ UNCHANGED idem /\ (Fine \/ Fault)
    BY <1>6 DEF EntryProtect, Goto, store, Fine
  <2> QED BY <1>0, <2>1, FaultStays
<1>7. CASE EntryOpen
  <2>1. pc' = "idle" /\ UNCHANGED idem /\ (Fine \/ Fault)
    BY <1>7 DEF EntryOpen, Opened, Return, Goto
  <2> QED BY <1>0, <2>1, FaultStays
<1> QED BY <1>2, <1>3, <1>4, <1>5, <1>6, <1>7 DEF Entry

\* A sell is reserved before it is sent.
LEMMA SellWrites ==
  ASSUME Unused("exit") # {}, NEW label \in {"selling", "flatten"},
         NEW trade, NEW quantity, SellReserve(label, trade, quantity),
         UNCHANGED broker, faults' = faults
  PROVE  Writes
<1>1. Fresh("exit") \in Exits /\ idem[<<"exit", Fresh("exit")>>] = "none"
  BY FreshIs
<1>2. <<"exit", Fresh("exit")>> \in Ids
  BY <1>1, IdKinds
<1>3. Reserve(<<"exit", Fresh("exit")>>) /\ pc' = label /\ n' = Fresh("exit")
  BY DEF SellReserve, Goto
<1>4. \E id \in Ids :
        id[1] # "stop" /\ idem[id] = "none" /\ Reserve(id)
        /\ (pc' \in {"selling", "flatten"} /\ id = <<"exit", n'>>)
  BY <1>1, <1>2, <1>3
<1> QED BY <1>3, <1>4 DEF Writes, Waits, Waiting

\* The writes of an exit and of the closing of the market
LEMMA ExitWrites ==
  ASSUME Typed, Exit \/ Closing
  PROVE  Writes
<1> USE DEF Writes, Waits
<1>0. faults \in Nat
  BY BoundsAssumption DEF Typed, TypeOK
<1>1. pc \in {"selling", "flatten"} => <<"exit", n>> \in Ids /\ Waiting(<<"exit", n>>)
  BY IdKinds DEF Typed, Labels, Waiting
<1>2. CASE ManageDone
  BY <1>2 DEF ManageDone, Return, Goto, store, bounds
<1>3. CASE ExitCancel
  BY <1>3 DEF ExitCancel, Goto, store, bounds
<1>4. CASE ExitReserve
  <2>1. CASE pos = 0
    <3>1. pc' = "idle" /\ UNCHANGED idem /\ (Fine \/ Fault)
      BY <1>4, <2>1 DEF ExitReserve, Close, Return, Goto
    <3> QED BY <1>0, <3>1, FaultStays
  <2>2. CASE pos # 0
    <3>1. Unused("exit") # {}
      BY <1>4 DEF ExitReserve, Typed, Labels
    <3>2. SellReserve("selling", t, IF pos < t.qty THEN pos ELSE t.qty)
          /\ UNCHANGED broker /\ faults' = faults
      BY <1>4, <2>2 DEF ExitReserve, Fine
    <3> QED BY <3>1, <3>2, SellWrites
  <2> QED BY <2>1, <2>2
<1>5. CASE ExitFailed
  <2>1. /\ pc = "selling" /\ pc' = "idle"
        /\ \/ Settle(<<"exit", n>>, "FAILED") /\ ((UNCHANGED broker /\ Fine) \/ Fault)
           \/ UNCHANGED idem /\ Fault
    BY <1>5 DEF ExitFailed, Failed, Return, Goto
  <2> QED BY <1>0, <1>1, <2>1, FaultStays
<1>6. CASE ExitSubmit
  <2>1. Settle(<<"exit", n>>, "SENT") /\ pc = "selling" /\ pc' \in {"idle", "sold"}
        /\ faults' = faults
    BY <1>6 DEF ExitSubmit, Return, Goto, bounds
  <2> QED BY <1>1, <2>1
<1>7. CASE ExitUnwritten
  <2>1. (Settle(<<"exit", n>>, "SENT") \/ UNCHANGED idem) /\ pc = "selling"
        /\ pc' = "idle" /\ Fault
    BY <1>7 DEF ExitUnwritten, Return, Goto
  <2> QED BY <1>0, <1>1, <2>1, FaultStays
<1>8. CASE ExitBook \/ CloseTrade
  <2>1. pc' = "idle" /\ UNCHANGED idem /\ (Fine \/ Fault)
    BY <1>8 DEF ExitBook, CloseTrade, Close, WriteRow, Return, Goto
  <2> QED BY <1>0, <2>1, FaultStays
<1>9. CASE FlattenReserve
  <2>1. SellReserve("flatten", mem, mem.qty) /\ UNCHANGED broker /\ faults' = faults
        /\ Unused("exit") # {}
    BY <1>9 DEF FlattenReserve, bounds
  <2> QED BY <2>1, SellWrites
<1>10. CASE FlattenFailed
  <2>1. pc' = "idle" /\ UNCHANGED idem /\ (Fine \/ Fault)
    BY <1>10 DEF FlattenFailed, store, Return, Goto
  <2> QED BY <1>0, <2>1, FaultStays
<1>11. CASE FlattenSubmit
  <2>1. (Settle(<<"exit", n>>, "SENT") \/ UNCHANGED idem) /\ pc = "flatten"
        /\ pc' \in {"idle", "closing"} /\ (Fine \/ Fault)
    BY <1>11 DEF FlattenSubmit, Answered, WriteRow, CountLoosely, Uncounted, Return, Goto
  <2> QED BY <1>0, <1>1, <2>1, FaultStays
<1>12. CASE FlattenRejected
  <2>1. (Settle(<<"exit", n>>, "SENT") \/ UNCHANGED idem) /\ pc = "flatten"
        /\ pc' = "idle" /\ faults' = faults
    BY <1>12 DEF FlattenRejected, Answered, Return, Goto, bounds
  <2> QED BY <1>1, <2>1
<1> QED BY <1>2, <1>3, <1>4, <1>5, <1>6, <1>7, <1>8, <1>9, <1>10, <1>11, <1>12
        DEF Exit, Closing

\* The writes of everything else that is not the broker
LEMMA OtherWrites ==
  ASSUME Typed,
         \/ Manage \/ Reconcile \/ Restart
         \/ Crash \/ CrashSubmitted \/ CrashProtecting
  PROVE  Writes
<1> USE DEF Writes, Waits
<1>0. faults \in Nat
  BY BoundsAssumption DEF Typed, TypeOK
<1>1. CASE Manage
  <2>1. pc' \in {"closing", "managed"} /\ UNCHANGED idem /\ (Fine \/ Fault)
    BY <1>1 DEF Manage, StopClosed, StopPartial, StopOther, Shrunk, WriteRow,
                CountLoosely, Uncounted, Goto, Fine
  <2> QED BY <1>0, <2>1, FaultStays
<1>2. CASE ReconcileRead \/ IngestCount
  <2>1. pc' \in {"compare", "ingest"} /\ UNCHANGED idem /\ (Fine \/ Fault)
    BY <1>2 DEF ReconcileRead, IngestCount, CountLoosely, Uncounted, store, bounds,
                Goto, Fine
  <2> QED BY <1>0, <2>1, FaultStays
<1>3. CASE IngestClose
  <2>1. pc' = "compare" /\ UNCHANGED idem /\ (Fine \/ Fault)
    BY <1>3 DEF IngestClose, Close
  <2> QED BY <1>0, <2>1, FaultStays
<1>4. CASE Compare \/ CompareFails
  <2>1. pc = "compare" /\ pc' = "idle" /\ (idem' = Resolved \/ UNCHANGED idem)
        /\ (Fine \/ Fault)
    BY <1>4 DEF Compare, CompareFails, Protect, WriteRow, Return, Goto, Fine
  <2> QED BY <1>0, <2>1, FaultStays
<1>5. CASE Crash \/ CrashSubmitted \/ CrashProtecting
  BY <1>5 DEF Crash, CrashSubmitted, CrashProtecting, Vanish, Goto
<1>6. CASE Restart
  BY <1>6 DEF Restart, Goto, store, bounds
<1> QED BY <1>1, <1>2, <1>3, <1>4, <1>5, <1>6 DEF Reconcile

\* The broker and a stutter only fill and cancel.
LEMMA OutsideKeeps ==
  ASSUME Typed, Broker \/ UNCHANGED vars
  PROVE  Kept /\ UNCHANGED <<store, local, mem, bounds>>
<1>1. CASE UNCHANGED vars
  <2>1. UNCHANGED <<broker, store, local, mem, bounds>>
    BY <1>1 DEF vars
  <2> QED BY <2>1, KeptSame DEF Typed
<1>2. ASSUME NEW id \in Ids, Cancel(id)
      PROVE  Kept /\ UNCHANGED <<store, local, mem, bounds>>
  BY <1>2, CancelKeeps DEF Cancel, Typed
<1>3. ASSUME NEW id \in Ids, NEW k \in 1..Lots, Fill(id, k)
      PROVE  Kept /\ UNCHANGED <<store, local, mem, bounds>>
  <2>1. k \in Nat
    BY LotsAssumption
  <2>2. Kept
    BY <1>3, <2>1, FillKeeps DEF Typed
  <2> QED BY <1>3, <2>2 DEF Fill
<1> QED BY <1>1, <1>2, <1>3 DEF Broker

\* Only the order that is waited for is new, or a stop.
LEMMA OnlyWaited ==
  ASSUME Typed, Kept \/ Sends, NEW id \in Ids,
         order[id].status = "none", order'[id].status # "none"
  PROVE  Waiting(id) \/ \E e \in Entries : id = <<"stop", e>>
<1>1. \A other \in Ids : \A k : Sent(other, k) => id = other
  BY DEF Sent
<1>2. ~Kept
  BY DEF Kept
<1>3. ASSUME NEW trade \in OpenTrade, Known(trade), trade # NoTrade, id = StopId(trade)
      PROVE  \E e \in Entries : id = <<"stop", e>>
  BY <1>3 DEF StopId, Known
<1>4. pc = "bought" => t.entry \in Entries
  BY DEF Typed, Labels
<1>5. pc = "bought" => t # NoTrade
  BY <1>4 DEF NoTrade, Entries
<1> QED BY <1>1, <1>2, <1>3, <1>5 DEF Sends, Sent, Waiting, Typed, TypeOK, Books

\* An order that is not waited for any more keeps its row with the next write.
LEMMA TracedStep ==
  ASSUME Typed, Traced, [Next]_vars
  PROVE  Traced'
<1>0. /\ idem \in [Ids -> {"none", "RESERVED", "FAILED", "SENT"}]
      /\ BrokerTyped /\ BrokerTyped' /\ (Kept \/ Sends)
  BY BrokerMoves DEF Typed, TypeOK
<1>1. \A id \in Ids : Waiting(id) =>
        idem[id] = "RESERVED" /\ order[id].status = "none" /\ id[1] # "stop"
  BY DEF Waiting, Traced, Pending
<1>2. \A id \in Ids : order[id].status # "none" => order'[id].status # "none"
  BY <1>0 DEF Kept, Sends, Sent
<1>3. \A id \in Ids : order[id].status = "none" /\ order'[id].status # "none" =>
        Waiting(id) \/ \E e \in Entries : id = <<"stop", e>>
  BY <1>0, OnlyWaited
<1>4. CASE Broker \/ UNCHANGED vars
  <2>1. Kept /\ UNCHANGED <<idem, pc, n, faults>>
    BY <1>4, OutsideKeeps DEF store, local, bounds
  <2>2. \A id \in Ids : order'[id].status = "none" <=> order[id].status = "none"
    BY <2>1 DEF Kept
  <2>3. pc = "reserved" => <<"entry", n>> \in Ids
    BY IdKinds DEF Typed, Labels
  <2>4. pc \in {"selling", "flatten"} => <<"exit", n>> \in Ids
    BY IdKinds DEF Typed, Labels
  <2>5. ReservedFirst' /\ FailedIsAbsent' /\ Unreserved'
    BY <2>1, <2>2 DEF Traced, ReservedFirst, FailedIsAbsent, Unreserved
  <2>6. Pending'
    BY <2>1, <2>2, <2>3, <2>4 DEF Traced, Pending
  <2> QED BY <2>5, <2>6 DEF Traced
<1>5. CASE Writes
  <2>1. faults' = 0 => faults = 0
    BY <1>5 DEF Writes
  <2>2. ASSUME pc' \notin Waits PROVE Pending'
    BY <2>2 DEF Pending, Waits
  <2>3. CASE UNCHANGED idem /\ pc' \notin Waits
    <3>1. ReservedFirst'
      BY <2>3, <1>1, <1>3 DEF Traced, ReservedFirst
    <3>2. FailedIsAbsent'
      BY <2>1, <2>3, <1>1, <1>3 DEF Traced, FailedIsAbsent, Unreserved
    <3>3. Unreserved'
      BY <2>3 DEF Traced, Unreserved
    <3> QED BY <2>2, <2>3, <3>1, <3>2, <3>3 DEF Traced
  <2>4. CASE /\ UNCHANGED broker /\ pc' \in Waits
             /\ \E id \in Ids :
                  id[1] # "stop" /\ idem[id] = "none" /\ Reserve(id) /\ Waiting(id)'
    <3>1. PICK id \in Ids :
            id[1] # "stop" /\ idem[id] = "none" /\ Reserve(id) /\ Waiting(id)'
      BY <2>4
    <3>2. order' = order
      BY <2>4 DEF broker
    <3>3. idem'[id] = "RESERVED" /\ \A other \in Ids \ {id} : idem'[other] = idem[other]
      BY <1>0, <3>1 DEF Reserve
    <3>4. order[id].status = "none"
      BY <3>1 DEF Traced, ReservedFirst
    <3>5. ReservedFirst' /\ FailedIsAbsent'
      BY <2>1, <3>2, <3>3 DEF Traced, ReservedFirst, FailedIsAbsent
    <3>6. Unreserved'
      <4> SUFFICES ASSUME NEW e \in Entries PROVE idem'[<<"stop", e>>] = "none"
        BY DEF Unreserved
      <4>1. <<"stop", e>> \in Ids
        BY IdKinds
      <4>2. <<"stop", e>>[1] = "stop"
        OBVIOUS
      <4> QED BY <3>1, <3>3, <4>1, <4>2 DEF Traced, Unreserved
    <3>7. Pending'
      BY <3>1, <3>2, <3>3, <3>4 DEF Pending, Waiting
    <3> QED BY <3>5, <3>6, <3>7 DEF Traced
  <2>5. CASE /\ pc' \notin Waits
             /\ \E id \in Ids :
                  /\ Waiting(id)
                  /\ \/ Settle(id, "SENT")
                     \/ Settle(id, "FAILED") /\ (UNCHANGED broker \/ faults' # 0)
    <3>1. PICK id \in Ids :
            /\ Waiting(id)
            /\ \/ Settle(id, "SENT")
               \/ Settle(id, "FAILED") /\ (UNCHANGED broker \/ faults' # 0)
      BY <2>5
    <3>2. /\ idem'[id] \in {"SENT", "FAILED"}
          /\ idem'[id] = "FAILED" => UNCHANGED broker \/ faults' # 0
          /\ \A other \in Ids \ {id} : idem'[other] = idem[other]
      BY <1>0, <3>1 DEF Settle
    <3>3. \A other \in Ids : Waiting(other) => other = id
      BY <3>1 DEF Waiting
    <3>4. order[id].status = "none" /\ id[1] # "stop"
      BY <1>1, <3>1
    <3>5. ReservedFirst'
      BY <1>3, <3>2, <3>3 DEF Traced, ReservedFirst
    <3>6. FailedIsAbsent'
      <4> SUFFICES ASSUME faults' = 0, NEW other \in Ids, idem'[other] = "FAILED"
                   PROVE  order'[other].status = "none"
        BY DEF FailedIsAbsent
      <4>1. CASE other = id
        BY <4>1, <3>2, <3>4 DEF broker
      <4>2. CASE other # id
        <5>1. idem[other] = "FAILED" /\ order[other].status = "none"
          BY <2>1, <4>2, <3>2 DEF Traced, FailedIsAbsent
        <5>2. ~\E e \in Entries : other = <<"stop", e>>
          BY <5>1 DEF Traced, Unreserved
        <5> QED BY <1>3, <4>2, <3>3, <5>1, <5>2
      <4> QED BY <4>1, <4>2
    <3>7. Unreserved'
      <4> SUFFICES ASSUME NEW e \in Entries PROVE idem'[<<"stop", e>>] = "none"
        BY DEF Unreserved
      <4>1. <<"stop", e>> \in Ids
        BY IdKinds
      <4>2. <<"stop", e>>[1] = "stop"
        OBVIOUS
      <4> QED BY <3>2, <3>4, <4>1, <4>2 DEF Traced, Unreserved
    <3> QED BY <2>2, <2>5, <3>5, <3>6, <3>7 DEF Traced
  <2>6. CASE pc' \notin Waits /\ pc = "compare" /\ idem' = Resolved
    <3>1. \A id \in Ids : ~Waiting(id)
      BY <2>6 DEF Waiting
    <3>2. \A id \in Ids :
            /\ idem[id] # "RESERVED" => idem'[id] = idem[id]
            /\ idem[id] = "RESERVED" =>
                 idem'[id] = IF order[id].status = "none" THEN "FAILED" ELSE "SENT"
      BY <2>6 DEF Resolved
    <3>3. ReservedFirst'
      BY <1>3, <3>1, <3>2 DEF Traced, ReservedFirst
    <3>4. FailedIsAbsent'
      <4> SUFFICES ASSUME faults' = 0, NEW id \in Ids, idem'[id] = "FAILED"
                   PROVE  order'[id].status = "none"
        BY DEF FailedIsAbsent
      <4>1. order[id].status = "none"
        BY <2>1, <3>2 DEF Traced, FailedIsAbsent
      <4>2. ~\E e \in Entries : id = <<"stop", e>>
        BY <3>2 DEF Traced, Unreserved
      <4> QED BY <1>3, <3>1, <4>1, <4>2
    <3>5. Unreserved'
      BY <3>2, IdKinds DEF Traced, Unreserved
    <3> QED BY <2>2, <2>6, <3>3, <3>4, <3>5 DEF Traced
  <2> QED BY <1>5, <2>3, <2>4, <2>5, <2>6 DEF Writes
<1> QED BY <1>4, <1>5, EntryWrites, ExitWrites, OtherWrites DEF Next

-----------------------------------------------------------------------------
(* The row keeps up with memory                                             *)

\* A failed write counts as a fault, and any other write is of memory.
LEMMA RowStep ==
  ASSUME Typed, RowKeepsUp, [Next]_vars
  PROVE  RowKeepsUp'
<1>0. faults \in Nat /\ row.seen = 0
  BY BoundsAssumption DEF Typed, TypeOK
<1>1. ASSUME Fault PROVE RowKeepsUp'
  BY <1>0, <1>1 DEF Fault, RowKeepsUp
<1>2. ASSUME UNCHANGED <<mem, row>>, pc # "down" \/ pc' = "down", faults' = faults
      PROVE  RowKeepsUp'
  BY <1>2 DEF RowKeepsUp, AsRow
<1>3. ASSUME NEW trade, mem' = trade, row' = AsRow(trade) PROVE RowKeepsUp'
  BY <1>3 DEF RowKeepsUp, AsRow
<1>4. AsRow(NoTrade) = NoTrade
  BY DEF AsRow, NoTrade
<1>5. ASSUME Close PROVE RowKeepsUp'
  BY <1>1, <1>3, <1>4, <1>5 DEF Close
<1>6. ASSUME NEW trade, mem' = trade, WriteRow(trade) PROVE RowKeepsUp'
  BY <1>1, <1>3, <1>6 DEF WriteRow
<1>7. CASE Entry
  <2>1. CASE EntryReserve \/ EntryFailed \/ EntrySubmit \/ EntryUnwritten \/ EntryProtect
    <3>1. UNCHANGED <<mem, row>> /\ pc # "down" /\ (faults' = faults \/ Fault)
      BY <2>1 DEF EntryReserve, EntryFailed, Failed, EntrySubmit, EntryUnwritten,
                  EntryProtect, bounds, store, Fine
    <3> QED BY <1>1, <1>2, <3>1
  <2>2. CASE EntryOpen
    BY <1>1, <1>3, <2>2 DEF EntryOpen, Opened
  <2> QED BY <1>7, <2>1, <2>2 DEF Entry
<1>8. CASE Manage
  <2>1. CASE StopClosed \/ StopOther
    <3>1. UNCHANGED <<mem, row>> /\ pc # "down" /\ (faults' = faults \/ Fault)
      BY <1>8, <2>1 DEF Manage, StopClosed, StopOther, CountLoosely, Uncounted, Fine
    <3> QED BY <1>1, <1>2, <3>1
  <2>2. CASE StopPartial
    <3>1. \/ UNCHANGED <<mem, row>> /\ pc # "down" /\ faults' = faults
          \/ Fault
          \/ \E less : mem' = less /\ WriteRow(less)
      BY <1>8, <2>2 DEF Manage, StopPartial, Shrunk, CountLoosely, Uncounted, Fine
    <3> QED BY <1>1, <1>2, <1>6, <3>1
  <2> QED BY <1>8, <2>1, <2>2 DEF Manage
<1>9. CASE Exit
  <2>1. CASE ManageDone \/ ExitCancel \/ ExitFailed \/ ExitSubmit \/ ExitUnwritten
    <3>1. UNCHANGED <<mem, row>> /\ pc # "down" /\ (faults' = faults \/ Fault)
      BY <2>1 DEF ManageDone, ExitCancel, ExitFailed, Failed, ExitSubmit,
                  ExitUnwritten, bounds, store, Fine
    <3> QED BY <1>1, <1>2, <3>1
  <2>2. CASE ExitReserve
    <3>1. \/ Close
          \/ UNCHANGED <<mem, row>> /\ pc # "down" /\ faults' = faults
      BY <2>2 DEF ExitReserve, Fine
    <3> QED BY <1>2, <1>5, <3>1
  <2>3. CASE ExitBook \/ CloseTrade
    <3>1. \/ Close
          \/ mem' = Rest(q) /\ WriteRow(Rest(q))
      BY <2>3 DEF ExitBook, CloseTrade
    <3> QED BY <1>5, <1>6, <3>1
  <2> QED BY <1>9, <2>1, <2>2, <2>3 DEF Exit
<1>10. CASE Closing
  <2>1. CASE FlattenReserve \/ FlattenFailed \/ FlattenRejected
    <3>1. UNCHANGED <<mem, row>> /\ pc # "down" /\ (faults' = faults \/ Fault)
      BY <2>1 DEF FlattenReserve, FlattenFailed, FlattenRejected, bounds, store, Fine
    <3> QED BY <1>1, <1>2, <3>1
  <2>2. CASE FlattenSubmit
    <3>1. \/ UNCHANGED <<mem, row>> /\ pc # "down" /\ faults' = faults
          \/ Fault
          \/ \E rest : mem' = rest /\ WriteRow(rest)
      BY <2>2 DEF FlattenSubmit, CountLoosely, Uncounted, Fine
    <3> QED BY <1>1, <1>2, <1>6, <3>1
  <2> QED BY <1>10, <2>1, <2>2 DEF Closing
<1>11. CASE Reconcile
  <2>1. CASE ReconcileRead \/ IngestCount \/ CompareFails
    <3>1. UNCHANGED <<mem, row>> /\ pc # "down" /\ (faults' = faults \/ Fault)
      BY <2>1 DEF ReconcileRead, IngestCount, CompareFails, CountLoosely, Uncounted,
                  Fine, bounds, store
    <3> QED BY <1>1, <1>2, <3>1
  <2>2. CASE IngestClose
    BY <1>5, <2>2 DEF IngestClose
  <2>3. CASE Compare
    <3>1. \/ UNCHANGED <<mem, row>> /\ pc # "down" /\ (faults' = faults \/ Fault)
          \/ \E safe : mem' = safe /\ WriteRow(safe)
      BY <2>3 DEF Compare, Protect, Fine
    <3> QED BY <1>1, <1>2, <1>6, <3>1
  <2> QED BY <1>11, <2>1, <2>2, <2>3 DEF Reconcile
<1>12. CASE Crash \/ CrashSubmitted \/ CrashProtecting
  BY <1>12 DEF Crash, CrashSubmitted, CrashProtecting, Vanish, Goto, RowKeepsUp
<1>13. CASE Restart
  <2>1. row = AsRow(row)
    BY <1>0 DEF AsRow, Typed, TypeOK, OpenTrade
  <2> QED BY <1>3, <1>13, <2>1 DEF Restart, store
<1>14. CASE Broker \/ UNCHANGED vars
  <2>1. UNCHANGED <<store, local, mem, bounds>>
    BY <1>14, OutsideKeeps
  <2> QED BY <1>2, <2>1 DEF store, local, bounds
<1> QED BY <1>7, <1>8, <1>9, <1>10, <1>11, <1>12, <1>13, <1>14 DEF Next

-----------------------------------------------------------------------------
(* The theorems                                                             *)

\* The invariant holds at the start and is kept by every step.
LEMMA SoundAlways == Spec => []Sound
<1>1. Init => Sound
  <2> SUFFICES ASSUME Init PROVE Sound
    OBVIOUS
  <2>1. Typed
    BY TypedInit
  <2>2. Covered
    <3>1. StopsCovered
      <4> SUFFICES ASSUME NEW e \in Entries
                   PROVE  order[<<"stop", e>>].qty <= order[<<"entry", e>>].filled
        BY DEF StopsCovered
      <4>1. order[<<"stop", e>>] = NoOrder /\ order[<<"entry", e>>] = NoOrder
        BY IdKinds DEF Init
      <4> QED BY <4>1 DEF NoOrder
    <3> QED BY <3>1 DEF Init, Covered, Backed
  <2>3. Traced
    BY IdKinds
       DEF Init, Traced, ReservedFirst, FailedIsAbsent, Pending, Unreserved, NoOrder
  <2>4. RowKeepsUp
    BY DEF Init, RowKeepsUp, AsRow, NoTrade
  <2> QED BY <2>1, <2>2, <2>3, <2>4 DEF Sound
<1>2. Sound /\ [Next]_vars => Sound'
  <2> SUFFICES ASSUME Sound, [Next]_vars PROVE Sound'
    OBVIOUS
  <2>1. Typed'
    BY TypedStep DEF Sound
  <2>2. Covered'
    BY BackedStep, StopsStep DEF Sound, Covered
  <2>3. Traced'
    BY TracedStep DEF Sound
  <2>4. RowKeepsUp'
    BY RowStep DEF Sound
  <2> QED BY <2>1, <2>2, <2>3, <2>4 DEF Sound
<1> QED BY <1>1, <1>2, PTL DEF Spec

\* Every variable of the trades keeps its type: in particular the broker never
\* holds a negative number of contracts, and no quantity leaves 0..Lots.
THEOREM TypeCorrect == Spec => []TypeOK
<1>1. Sound => TypeOK
  BY DEF Sound, Typed
<1> QED BY <1>1, SoundAlways, PTL

\* Whatever crashes and lost answers there are, no entry or exit is at the
\* broker without a row in the store (reserve_order comes before the submit).
THEOREM AlwaysReservedFirst == Spec => []ReservedFirst
<1>1. Sound => ReservedFirst
  BY DEF Sound, Traced
<1> QED BY <1>1, SoundAlways, PTL

\* What recovery gives up as FAILED was not sent: no crash between the reserve,
\* the submit and the answer makes reconcile write something untrue.
THEOREM GivenUpIsAbsent == Spec => []FailedIsAbsent
<1>1. Sound => FailedIsAbsent
  BY DEF Sound, Traced
<1> QED BY <1>1, SoundAlways, PTL

\* The protective orders of an entry, over all attempts, restarts and partial
\* fills, never sell more than the entry bought.
THEOREM StopsAlwaysCovered == Spec => []StopsCovered
<1>1. Sound => StopsCovered
  BY DEF Sound, Covered
<1> QED BY <1>1, SoundAlways, PTL

\* As long as every write succeeds the open_trades row is the trade in memory
\* at the end of every handler.
THEOREM RowAlwaysCurrent == Spec => []RowIsCurrent
<1>1. Sound => RowIsCurrent
  BY DEF Sound, RowKeepsUp, RowIsCurrent
<1> QED BY <1>1, SoundAlways, PTL
=============================================================================
