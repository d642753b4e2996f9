------------------------------- MODULE Trade --------------------------------
(***************************************************************************)
(* The life of the trades in one option contract, with quantities          *)
(* (crates/bot/src/lib.rs): handle_signal buys, reserves the order in the  *)
(* store first and protects the fill with a stop; manage_open_trade watches*)
(* the stop and sells; execute_market_closing flattens; reconcile compares *)
(* the book with the broker and repairs what a crash left behind.          *)
(*                                                                         *)
(* The handlers are cut where they wait for the broker, so that fills,     *)
(* cancellations and a crash come in between.  The broker refuses a client *)
(* order id it knows and a sell of more than the position (PaperBroker and *)
(* Alpaca do), and fills what rests in any portions.                       *)
(***************************************************************************)
EXTENDS Naturals, FiniteSetsExt

CONSTANTS
  Lots,        \* contracts bought by one entry order
  MaxEntries,  \* bound: entry orders
  MaxExits,    \* bound: exit orders
  MaxCrashes,  \* bound: crashes of the process
  MaxFaults    \* bound: lost answers of the broker and failed writes

ASSUME LotsAssumption == Lots \in Nat \ {0}
ASSUME BoundsAssumption ==
  /\ MaxEntries \in Nat \ {0} /\ MaxExits \in Nat \ {0}
  /\ MaxCrashes \in Nat /\ MaxFaults \in Nat

VARIABLES
  \* --- broker ---
  order,     \* orders by client order id
  pos,       \* contracts held
  \* --- store ---
  row,       \* the open_trades row
  idem,      \* the idempotency row of an order: none, RESERVED, FAILED, SENT
  \* --- runtime ---
  pc,        \* where the current handler waits
  mem,       \* open_trades in memory
  t,         \* the handler's clone of the trade, or the trade being opened
  n,         \* the number of the handler's order
  q,         \* the quantity the handler has read or ordered
  killed,    \* kill switch
  realized,  \* contracts whose profit is in daily_realized
  counted,   \* the same in the daily_realized row
  crashes, faults

broker  == <<order, pos>>
store   == <<row, idem>>
local   == <<pc, t, n, q>>
bounds  == <<crashes, faults>>
profit  == <<realized, counted>>
vars    == <<broker, store, local, mem, killed, profit, bounds>>

Entries == 1..MaxEntries
Exits   == 1..MaxExits
Ids     == ({"entry", "stop"} \X Entries) \cup ({"exit"} \X Exits)

Order == [status : {"none", "working", "filled", "cancelled"},
          qty : 0..Lots, filled : 0..Lots]
NoOrder == [status |-> "none", qty |-> 0, filled |-> 0]

\* A trade: quantity, the entry order it comes from, whether the id of its
\* protective order is recorded, and last_protective_filled_qty.
OpenTrade == [qty : 0..Lots, entry : 0..MaxEntries, pid : BOOLEAN, seen : 0..Lots]
NoTrade   == [qty |-> 0, entry |-> 0, pid |-> FALSE, seen |-> 0]

TypeOK ==
  /\ order \in [Ids -> Order]
  /\ pos \in Nat
  /\ row \in OpenTrade /\ row.seen = 0
  /\ idem \in [Ids -> {"none", "RESERVED", "FAILED", "SENT"}]
  /\ pc \in {"down", "idle", "reserved", "bought", "stopped", "managed", "sell",
             "selling", "sold", "flatten", "closing",
             "compare", "ingest"}
  /\ mem \in OpenTrade
  /\ t \in OpenTrade
  /\ n \in Nat /\ q \in Nat
  /\ killed \in BOOLEAN
  /\ realized \in Nat /\ counted \in Nat
  /\ crashes \in 0..MaxCrashes
  /\ faults \in 0..MaxFaults

Init ==
  /\ order = [id \in Ids |-> NoOrder] /\ pos = 0
  /\ row = NoTrade /\ idem = [id \in Ids |-> "none"]
  /\ pc = "idle" /\ mem = NoTrade /\ t = NoTrade /\ n = 0 /\ q = 0
  /\ killed = FALSE /\ realized = 0 /\ counted = 0
  /\ crashes = 0 /\ faults = 0

-----------------------------------------------------------------------------
(* Helpers                                                                  *)

Minus(a, b)   == IF a < b THEN 0 ELSE a - b     \* saturating_sub

\* One more write that fails or answer that is lost
Fault == faults < MaxFaults /\ faults' = faults + 1
Fine  == UNCHANGED faults

Goto(label, trade, number, quantity) ==
  pc' = label /\ t' = trade /\ n' = number /\ q' = quantity
Return == Goto("idle", NoTrade, 0, 0)

\* Variant: the whole trade is written.
WholeRow(trade) == trade

\* open_trades row: last_protective_filled_qty is not a column.
AsRow(trade) == [trade EXCEPT !.seen = 0]

\* The write of the row of trade succeeds, or it fails and the handler goes on.
WriteRow(trade) == (row' = AsRow(trade) /\ Fine) \/ (Fault /\ UNCHANGED row)

\* Variant: the id is the one of the session when there is no entry order.
SessionStopId(trade) == <<"stop", 1>>

\* protective_order_id_from_entry: derived from the client id of the entry, so
\* every attempt to protect the same entry has the same client order id.
StopId(trade) == <<"stop", trade.entry>>

Stop(trade) == order[StopId(trade)]

\* What the broker checks
Accepts(id, qty) == order[id].status = "none" /\ (id[1] = "entry" \/ qty <= pos)

Placed(qty, filled) ==
  [status |-> IF filled = qty THEN "filled" ELSE "working",
   qty |-> qty, filled |-> filled]

\* The broker takes the order and fills a part of it at once.
Submit(id, qty, filled) ==
  /\ Accepts(id, qty)
  /\ order' = [order EXCEPT ![id] = Placed(qty, filled)]
  /\ pos' = IF id[1] = "entry" THEN pos + filled ELSE pos - filled

\* Variant: the row is only written with the answer.
ReserveNothing(id) == UNCHANGED idem

\* reserve_order: the idempotency row is there before the order is sent.
Reserve(id) == idem' = [idem EXCEPT ![id] = "RESERVED"]
Settle(id, status) == idem' = [idem EXCEPT ![id] = status]

\* The profit of k contracts is added to daily_realized and its row.  But for the exit,
\* nobody looks whether the row was written.
Count(k)        == realized' = realized + k /\ counted' = realized'
Uncounted(k)    == realized' = realized + k /\ UNCHANGED counted /\ Fault
CountLoosely(k) == (Count(k) /\ Fine) \/ Uncounted(k)

\* The client order ids that have never been used
Unused(kind) ==
  {k \in IF kind = "entry" THEN Entries ELSE Exits : idem[<<kind, k>>] = "none"}

\* The id of the next order
Fresh(kind) == CHOOSE k \in Unused(kind) : TRUE

-----------------------------------------------------------------------------
(* handle_signal                                                            *)

\* No trade in the contract is open; the order is reserved.
EntryReserve ==
  /\ pc = "idle" /\ mem = NoTrade /\ Unused("entry") # {}
  /\ LET e == Fresh("entry")
     IN Reserve(<<"entry", e>>) /\ Goto("reserved", NoTrade, e, Lots)
  /\ UNCHANGED <<broker, row, mem, killed, profit, bounds>>

\* execute_with_stop returns an error, also when the broker has the order and
\* only its answer is lost.  Where this cannot be written the order stays reserved.
Failed(id) ==
  /\ \/ UNCHANGED broker /\ Settle(id, "FAILED") /\ Fine
     \/ UNCHANGED <<broker, idem>> /\ Fault
     \/ ~killed /\ (\E f \in 0..q : Submit(id, q, f)) /\ Settle(id, "FAILED") /\ Fault
  /\ Return

EntryFailed ==
  /\ pc = "reserved"
  /\ Failed(<<"entry", n>>)
  /\ UNCHANGED <<row, mem, killed, profit, crashes>>

\* The broker answers.  Without a fill in the answer nothing is tracked.
EntrySubmit ==
  /\ pc = "reserved" /\ ~killed
  /\ \E f \in 0..q :
       /\ Submit(<<"entry", n>>, q, f)
       /\ IF f = 0 THEN Return
          ELSE Goto("bought", [NoTrade EXCEPT !.qty = f, !.entry = n], n, f)
  /\ Settle(<<"entry", n>>, "SENT")
  /\ UNCHANGED <<row, mem, killed, profit, bounds>>

\* The broker answers, but the answer or the fill cannot be written, or the fill has
\* no price and is not booked.
EntryUnwritten ==
  /\ pc = "reserved" /\ ~killed
  /\ \E f \in 0..q : Submit(<<"entry", n>>, q, f)
  /\ \/ Settle(<<"entry", n>>, "SENT") \/ UNCHANGED idem
  /\ Fault /\ Return
  /\ UNCHANGED <<row, mem, killed, profit, crashes>>

\* A stop for what the answer said was bought.  When it is refused, or its
\* answer is lost, the trade has no protective id.
EntryProtect ==
  /\ pc = "bought"
  /\ \/ /\ \E f \in {0, q} : Submit(StopId(t), q, f)
        /\ \/ Goto("stopped", [t EXCEPT !.pid = TRUE], n, q) /\ Fine
           \/ Goto("stopped", t, n, q) /\ Fault
     \/ Goto("stopped", t, n, q) /\ UNCHANGED <<broker, faults>>
  /\ UNCHANGED <<store, mem, killed, profit, crashes>>

\* Variant: the trade is tracked although its row could not be written.
OpenedInMemory == mem' = t /\ WriteRow(t)

\* The row first, then memory; a failed write returns.
Opened ==
  \/ row' = AsRow(t) /\ mem' = t /\ Fine
  \/ Fault /\ UNCHANGED <<row, mem>>

EntryOpen ==
  /\ pc = "stopped"
  /\ Opened
  /\ Return
  /\ UNCHANGED <<broker, idem, killed, profit, crashes>>

-----------------------------------------------------------------------------
(* manage_open_trade                                                        *)

\* The trade leaves the book; a failing delete leaves its row.
Close == mem' = NoTrade /\ ((row' = NoTrade /\ Fine) \/ (Fault /\ UNCHANGED row))

\* The protective order is Filled: what has not been counted yet is counted.
StopClosed ==
  /\ mem.pid /\ Stop(mem).status = "filled"
  /\ LET delta == Minus(Stop(mem).filled, mem.seen)
     IN CountLoosely(IF delta > 0 THEN delta ELSE Stop(mem).filled)
  /\ Goto("closing", mem, 0, 0)
  /\ UNCHANGED <<mem, row>>

\* Variant: the quantity is reduced in memory only.
ShrunkInMemory(less) == mem' = less /\ UNCHANGED row /\ Fine

\* Quantity and count after a partial fill, in memory and in the row
Shrunk(less) == mem' = less /\ WriteRow(less)

\* It is PartiallyFilled: the difference to the last look is counted and the
\* trade shrinks; the clone that the handler goes on with does not.
StopPartial ==
  /\ mem.pid /\ Stop(mem).status = "working" /\ Stop(mem).filled > 0
  /\ LET delta == Minus(Stop(mem).filled, mem.seen)
         less  == [mem EXCEPT !.qty = Minus(@, delta), !.seen = Stop(mem).filled]
     IN \/ /\ delta = 0
           /\ Goto("managed", mem, 0, 0) /\ Fine /\ UNCHANGED <<mem, row, profit>>
        \/ /\ delta > 0 /\ less.qty = 0
           /\ Goto("closing", mem, 0, 0) /\ CountLoosely(delta) /\ UNCHANGED <<mem, row>>
        \/ /\ delta > 0 /\ less.qty > 0
           /\ Goto("managed", mem, 0, 0)
           /\ \/ Count(delta) /\ Shrunk(less)
              \/ Uncounted(delta) /\ mem' = less /\ row' = AsRow(less)

\* It is working, there is none, it cannot be read, or it is over: a stop that
\* is sent again has the same client order id and is refused.
StopOther ==
  /\ \/ ~mem.pid /\ Fine
     \/ mem.pid /\ Stop(mem).status = "working" /\ Stop(mem).filled = 0 /\ Fine
     \/ mem.pid /\ Stop(mem).status = "cancelled" /\ Fine
     \/ mem.pid /\ Fault
  /\ Goto("managed", mem, 0, 0)
  /\ UNCHANGED <<mem, row, profit>>

Manage ==
  /\ pc = "idle" /\ mem # NoTrade
  /\ StopClosed \/ StopPartial \/ StopOther
  /\ UNCHANGED <<broker, idem, killed, crashes>>

\* No exit condition holds.
ManageDone ==
  /\ pc = "managed"
  /\ Return
  /\ UNCHANGED <<broker, store, mem, killed, profit, bounds>>

\* An exit condition holds: the stop is cancelled and polled.  A cancel may
\* fail or stay pending, and after five polls the handler goes on regardless.
ExitCancel ==
  /\ pc = "managed" /\ Unused("exit") # {}
  /\ IF t.pid /\ Stop(t).status = "working"
       THEN order' \in {order, [order EXCEPT ![StopId(t)].status = "cancelled"]}
       ELSE UNCHANGED order
  /\ IF t.pid /\ Stop(t).status = "filled"
       THEN /\ realized' = realized + Stop(t).filled /\ UNCHANGED counted
            /\ Goto("closing", t, 0, 0)
       ELSE Goto("sell", t, 0, 0) /\ UNCHANGED profit
  /\ UNCHANGED <<pos, store, mem, killed, bounds>>

\* The trade is taken out of the book once its profit has been counted.
CloseTrade ==
  /\ pc = "closing"
  /\ Close
  /\ Return
  /\ UNCHANGED <<broker, idem, killed, profit, crashes>>

\* A sell order is reserved.
SellReserve(label, trade, quantity) ==
  LET x == Fresh("exit")
  IN Reserve(<<"exit", x>>) /\ Goto(label, trade, x, quantity)

\* The positions are read: nothing held closes the trade, otherwise the
\* clone's quantity, or what is held when that is less, is to be sold.
ExitReserve ==
  /\ pc = "sell"
  /\ \/ pos = 0 /\ Close /\ Return /\ UNCHANGED idem
     \/ /\ pos > 0
        /\ SellReserve("selling", t, IF pos < t.qty THEN pos ELSE t.qty)
        /\ Fine /\ UNCHANGED <<mem, row>>
  /\ UNCHANGED <<broker, killed, profit, crashes>>

ExitFailed ==
  /\ pc = "selling"
  /\ Failed(<<"exit", n>>)
  /\ UNCHANGED <<row, mem, killed, profit, crashes>>

\* The broker answers.  A limit order may rest: nothing remembers it.
ExitSubmit ==
  /\ pc = "selling" /\ ~killed
  /\ \E f \in 0..q :
       /\ Submit(<<"exit", n>>, q, f)
       /\ IF f = 0 THEN Return /\ UNCHANGED profit
          ELSE Count(f) /\ Goto("sold", t, n, f)
  /\ Settle(<<"exit", n>>, "SENT")
  /\ UNCHANGED <<row, mem, killed, bounds>>

\* The broker answers, but something after it cannot be written, or the fill has no
\* price: the handler ends, the trade is still open, the profit is counted or not.
ExitUnwritten ==
  /\ pc = "selling" /\ ~killed
  /\ \E f \in 0..q :
       /\ Submit(<<"exit", n>>, q, f)
       /\ \/ Settle(<<"exit", n>>, "SENT") /\ realized' \in {realized, realized + f}
          \/ UNCHANGED <<idem, realized>>
  /\ UNCHANGED counted
  /\ Fault /\ Return
  /\ UNCHANGED <<row, mem, killed, crashes>>

\* What is left of the clone after a sell of sold contracts
Rest(sold) == [t EXCEPT !.qty = Minus(@, sold)]

\* The trade is closed when the whole clone was sold, otherwise the rest of the
\* clone takes its place.
ExitBook ==
  /\ pc = "sold"
  /\ IF q >= t.qty THEN Close ELSE mem' = Rest(q) /\ WriteRow(Rest(q))
  /\ Return
  /\ UNCHANGED <<broker, idem, killed, profit, crashes>>

-----------------------------------------------------------------------------
(* execute_market_closing, for this contract                                *)

\* The quantity of the book, whatever the broker holds
FlattenReserve ==
  /\ pc = "idle" /\ mem # NoTrade
  /\ Unused("exit") # {}
  /\ SellReserve("flatten", mem, mem.qty)
  /\ UNCHANGED <<broker, row, mem, killed, profit, bounds>>

\* Any error leaves the order reserved.
FlattenFailed ==
  /\ pc = "flatten"
  /\ \/ UNCHANGED broker /\ Fine
     \/ ~killed /\ Fault /\ \E f \in 0..q : Submit(<<"exit", n>>, q, f)
  /\ Return
  /\ UNCHANGED <<store, mem, killed, profit, crashes>>

\* Nobody looks whether the answer to a flattening order was written.  Bound: it always
\* is after the last fault.
Answered == Settle(<<"exit", n>>, "SENT") \/ (faults < MaxFaults /\ UNCHANGED idem)

\* Filled: counted and closed, unless the report of the trade cannot be
\* written.  In part: counted and shrunk.  Not at all: pending.
FlattenSubmit ==
  /\ pc = "flatten" /\ ~killed
  /\ \E f \in 0..q :
       /\ Submit(<<"exit", n>>, q, f)
       /\ \/ /\ f = q
             /\ Goto("closing", t, 0, 0) /\ CountLoosely(f) /\ UNCHANGED <<mem, row>>
          \/ /\ f = q
             /\ Return /\ Count(f) /\ Fault /\ UNCHANGED <<mem, row>>
          \/ /\ f \in 1..(q - 1)
             /\ Return /\ mem' = Rest(f)
             /\ \/ Count(f) /\ WriteRow(Rest(f))
                \/ Uncounted(f) /\ row' = AsRow(Rest(f))
          \/ /\ f = 0
             /\ Return /\ Fine /\ UNCHANGED <<mem, row, profit>>
  /\ Answered
  /\ UNCHANGED <<killed, crashes>>

\* Rejected, or cancelled or expired with what was filled until then: the kill switch.
FlattenRejected ==
  /\ pc = "flatten" /\ ~killed
  /\ \/ UNCHANGED broker
     \/ \E f \in 0..(q - 1) :
          /\ Accepts(<<"exit", n>>, q)
          /\ order' = [order EXCEPT ![<<"exit", n>>] = [Placed(q, f) EXCEPT !.status = "cancelled"]]
          /\ pos' = pos - f
  /\ killed' = TRUE
  /\ Answered /\ Return
  /\ UNCHANGED <<row, mem, profit, bounds>>

-----------------------------------------------------------------------------
(* reconcile                                                                *)

\* The positions are read first.
ReconcileRead ==
  /\ pc = "idle"
  /\ Goto("compare", NoTrade, 0, pos)
  /\ UNCHANGED <<broker, store, mem, killed, profit, bounds>>

\* A trade whose stop is Filled leaves the book, its whole quantity counted.
Ingests == mem.pid /\ Stop(mem).status = "filled"

IngestCount ==
  /\ pc = "compare" /\ Ingests
  /\ CountLoosely(Stop(mem).filled)
  /\ pc' = "ingest"
  /\ UNCHANGED <<broker, store, mem, t, n, q, killed, crashes>>

IngestClose ==
  /\ pc = "ingest"
  /\ Close
  /\ pc' = "compare"
  /\ UNCHANGED <<broker, idem, t, n, q, killed, profit, crashes>>

\* Variant: a reserved order is given up without asking the broker.
GivenUp == [id \in Ids |-> IF idem[id] = "RESERVED" THEN "FAILED" ELSE idem[id]]

\* Every order that is still reserved is looked up at the broker.
Resolved ==
  [id \in Ids |->
     IF idem[id] # "RESERVED" THEN idem[id]
     ELSE IF order[id].status = "none" THEN "FAILED" ELSE "SENT"]

\* A trade without a protective id gets one: the order of a former attempt
\* when the broker knows it, a new one otherwise.  It gets none when the order
\* is refused, its answer is lost, or the look-up fails and it is sent twice.
Protect ==
  LET safe     == [mem EXCEPT !.pid = TRUE]
      known    == Stop(mem).status # "none"
      sent     == ~known /\ \E f \in {0, mem.qty} : Submit(StopId(mem), mem.qty, f)
      recorded == mem' = safe /\ WriteRow(safe)
  IN \/ known /\ UNCHANGED broker /\ recorded
     \/ sent /\ recorded
     \/ sent /\ Fault /\ UNCHANGED <<mem, row>>
     \/ UNCHANGED <<broker, mem, row>> /\ IF known THEN Fault ELSE Fine

\* Variant: a position the book does not have is overlooked.
BookDiffers == mem # NoTrade /\ mem.qty # q

\* reconcile_positions: the quantities differ, or one side has no position.
Differs == mem.qty # q

\* The comparison with the positions that were read
Compare ==
  /\ pc = "compare"
  /\ ~Ingests
  /\ idem' = Resolved
  /\ killed' = (killed \/ Differs)
  /\ IF ~Differs /\ mem # NoTrade /\ ~mem.pid
       THEN Protect
       ELSE UNCHANGED <<broker, row, mem, faults>>
  /\ Return
  /\ UNCHANGED <<profit, crashes>>

\* The report, or the stop or a reserved order, cannot be read or written.
CompareFails ==
  /\ pc = "compare"
  /\ Fault
  /\ idem' \in {idem, Resolved}
  /\ Return
  /\ UNCHANGED <<broker, row, mem, killed, profit, crashes>>

-----------------------------------------------------------------------------
(* The process and the broker                                               *)

Vanish ==
  /\ crashes < MaxCrashes /\ crashes' = crashes + 1
  /\ Goto("down", NoTrade, 0, 0)
  /\ mem' = NoTrade /\ killed' = FALSE /\ realized' = counted
  /\ UNCHANGED <<row, counted, faults>>

Crash ==
  /\ pc # "down"
  /\ Vanish
  /\ UNCHANGED <<broker, idem>>

\* The process dies after the broker took an order and before anything is
\* written about it.
CrashSubmitted ==
  /\ \/ pc = "reserved" /\ ~killed /\ \E f \in 0..q : Submit(<<"entry", n>>, q, f)
     \/ pc \in {"selling", "flatten"} /\ ~killed
        /\ \E f \in 0..q : Submit(<<"exit", n>>, q, f)
     \/ pc = "bought" /\ \E f \in {0, q} : Submit(StopId(t), q, f)
  /\ Vanish
  /\ UNCHANGED idem

\* The same in reconcile: the stop it sent is at the broker, no row names it.
CrashProtecting ==
  /\ pc = "compare" /\ ~Ingests /\ ~Differs /\ mem # NoTrade /\ ~mem.pid
  /\ \E f \in {0, mem.qty} : Submit(StopId(mem), mem.qty, f)
  /\ idem' = Resolved
  /\ Vanish

\* TradingRuntime::new, then the reconciliation of the start
Restart ==
  /\ pc = "down"
  /\ mem' = row
  /\ Goto("compare", NoTrade, 0, pos)
  /\ UNCHANGED <<broker, store, killed, profit, bounds>>

\* A resting order is filled by k contracts; a sell only closes what is held.
Fill(id, k) ==
  /\ order[id].status = "working"
  /\ k \in 1..(order[id].qty - order[id].filled)
  /\ id[1] # "entry" => k <= pos
  /\ order' = [order EXCEPT ![id] = Placed(@.qty, @.filled + k)]
  /\ pos' = IF id[1] = "entry" THEN pos + k ELSE pos - k
  /\ UNCHANGED <<store, local, mem, killed, profit, bounds>>

\* A resting order is cancelled: at the close of the session, by the broker
Cancel(id) ==
  /\ order[id].status = "working"
  /\ order' = [order EXCEPT ![id].status = "cancelled"]
  /\ UNCHANGED <<pos, store, local, mem, killed, profit, bounds>>

-----------------------------------------------------------------------------
Entry     == EntryReserve \/ EntryFailed \/ EntrySubmit \/ EntryUnwritten
               \/ EntryProtect \/ EntryOpen
Exit      == ManageDone \/ ExitCancel \/ ExitReserve \/ ExitFailed
               \/ ExitSubmit \/ ExitUnwritten \/ ExitBook \/ CloseTrade
Closing   == FlattenReserve \/ FlattenFailed \/ FlattenSubmit \/ FlattenRejected
Reconcile == ReconcileRead \/ IngestCount \/ IngestClose \/ Compare \/ CompareFails
Broker    == \E id \in Ids : Cancel(id) \/ \E k \in 1..Lots : Fill(id, k)

Next ==
  \/ Entry \/ Manage \/ Exit \/ Closing \/ Reconcile
  \/ Crash \/ CrashSubmitted \/ CrashProtecting \/ Restart \/ Broker

Spec == Init /\ [][Next]_vars

\* The handlers run to their end, the process is restarted, and every session
\* reconciles again.
FairSpec ==
  /\ Spec
  /\ WF_vars(EntryFailed \/ EntrySubmit \/ EntryUnwritten \/ EntryProtect \/ EntryOpen)
  /\ WF_vars(Exit \/ FlattenFailed \/ FlattenSubmit \/ FlattenRejected)
  /\ WF_vars(Reconcile) /\ WF_vars(Restart)

-----------------------------------------------------------------------------
(* Properties                                                               *)

\* No order of the program reaches the broker before the store knows it, so a
\* crash at any point leaves no order that reconcile could not look up.
ReservedFirst ==
  \A id \in Ids : id[1] # "stop" /\ order[id].status # "none" => idem[id] # "none"

\* What recovery writes about an order it looked up is true: without lost
\* answers an order given up as FAILED is not at the broker.
FailedIsAbsent ==
  faults = 0 => \A id \in Ids : idem[id] = "FAILED" => order[id].status = "none"

\* What the stops of one entry may sell, over all attempts and crashes, is
\* never more than that entry bought.
StopsCovered ==
  \A e \in Entries : order[<<"stop", e>>].qty <= order[<<"entry", e>>].filled

\* Without a failed write the row is what memory says whenever no handler is
\* under way, so that a crash there loses nothing of the trade.
RowIsCurrent == pc = "idle" /\ faults = 0 => row = AsRow(mem)

Sold == MapThenSumSet(LAMBDA id : order[id].filled, {id \in Ids : id[1] # "entry"})

\* A position that the book does not know does not go unnoticed: the kill
\* switch is engaged, or the position is gone, or it is in the book.
Noticed ==
  pos > 0 /\ mem = NoTrade /\ row = NoTrade
    ~> killed \/ pos = 0 \/ mem # NoTrade \/ row # NoTrade

\* Four paths count the profit of a sell (the watch of the stop, the poll of
\* its cancellation, the exit, reconcile): no contract is counted twice.  It
\* fails once a stop is filled in parts.
RealizedOnce == realized <= Sold
=============================================================================
