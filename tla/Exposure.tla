------------------------------ MODULE Exposure ------------------------------
(***************************************************************************)
(* How much the bots may buy: handle_signal (crates/bot/src/lib.rs) reads  *)
(* the positions, the account and the open orders of the broker in three   *)
(* calls, sizes the order (sizing.rs), asks the risk governor              *)
(* (crates/risk/src/lib.rs) and submits (ExecutionEngine).  The broker     *)
(* goes on filling in between.                                             *)
(*                                                                         *)
(* Money is counted in whole units and prices stand still.  The checks     *)
(* that look at one order only (hash, spread, trade risk, daily loss,      *)
(* market hours) can only refuse it: Refuse.  The store, crashes and the   *)
(* working of exits are in modules Trade and Supervisor.                   *)
(***************************************************************************)
EXTENDS Naturals, FiniteSets, FiniteSetsExt

CONSTANTS
  Contracts,    \* option contracts
  Underlying,   \* underlying symbol of a contract
  Price,        \* ask of a contract, times the multiplier
  StopPrice,    \* price of its protective stop, times the multiplier
  BasePrice,    \* 1.0, for an order of which no price is known, times the multiplier
  Cash,         \* cash at the start
  MaxTotal,     \* RiskLimits.max_total_notional
  MaxSymbol,    \* RiskLimits.max_symbol_exposure
  MaxPositions, \* RiskLimits.max_positions
  MaxQty,       \* RiskLimits.max_single_position_qty, the sizing ceiling too
  PlanCapital,  \* min of plan.capital_allocated and max_order_notional
  MaxOrders     \* bound: buy orders that are sent

ASSUME ContractsAssumption == IsFiniteSet(Contracts) /\ Contracts # {}
ASSUME PricesAssumption ==
  /\ Price \in [Contracts -> Nat \ {0}]
  /\ StopPrice \in [Contracts -> Nat \ {0}]
  /\ \A c \in Contracts : StopPrice[c] <= Price[c]
  /\ BasePrice \in Nat \ {0}
  /\ DOMAIN Underlying = Contracts
ASSUME LimitsAssumption ==
  /\ {Cash, MaxTotal, MaxSymbol, PlanCapital, MaxOrders} \subseteq Nat
  /\ {MaxPositions, MaxQty} \subseteq Nat \ {0}

VARIABLES
  pos,     \* contracts held at the broker
  cash,    \* cash of the account
  buys,    \* working buy orders, [id, c, qty, left]
  stop,    \* quantity of the working protective stop of a contract, or 0
  hit,     \* contracts whose protective stop has filled
  trade,   \* open_trades: tracked quantity of a contract, or 0
  sent,    \* buy orders sent
  pc,      \* next call of handle_signal
  target,  \* contract it wants to buy
  seen,    \* what it has read: positions and cash
  raced,   \* history: a buy filled between the reads of handle_signal
  rested   \* history: a buy did not fill entirely when it was sent

broker == <<pos, cash, buys, stop, hit>>
call   == <<pc, target, seen>>
past   == <<raced, rested>>
vars   == <<broker, trade, sent, call, past>>

Held == [Contracts -> Nat]
None == [c \in Contracts |-> 0]
BuyOrders == [id : 1..MaxOrders, c : Contracts, qty : 1..MaxQty, left : 1..MaxQty]

TypeOK ==
  /\ pos \in Held /\ cash \in Nat
  /\ buys \subseteq BuyOrders
  /\ stop \in Held /\ trade \in Held /\ hit \subseteq Contracts
  /\ sent \in 0..MaxOrders
  /\ pc \in {"idle", "account", "orders", "submit"}
  /\ target \in Contracts
  /\ seen \in [pos : Held, cash : Nat, qty : 0..MaxQty]
  /\ raced \in BOOLEAN /\ rested \in BOOLEAN

Init ==
  /\ pos = None /\ cash = Cash /\ buys = {} /\ stop = None /\ hit = {}
  /\ trade = None /\ sent = 0
  /\ pc = "idle" /\ target \in Contracts
  /\ seen = [pos |-> None, cash |-> 0, qty |-> 0]
  /\ raced = FALSE /\ rested = FALSE

-----------------------------------------------------------------------------
(* PortfolioRisk: what the risk governor counts                             *)

\* What is held of every contract, at a price each
Value(held, price) == [c \in Contracts |-> held[c] * price[c]]

\* What a buy may cost: when it was sent, and as far as it still works
Whole   == [b \in BuyOrders |-> b.qty * Price[b.c]]
Working == [b \in BuyOrders |-> b.left * Price[b.c]]

BuysOf(C) == {b \in buys : b.c \in C}

\* Variant: orders that rest at the broker are not counted.
OrdersIgnored(p, C) == 0

\* resolve_order_price of a stop, whose stop_price is not passed on: the mark of the
\* position that was read
StopReference(p) == [c \in Contracts |-> IF p[c] # 0 THEN Price[c] ELSE BasePrice]

\* Every open order of the broker is counted with its whole quantity, the
\* protective stops too: reduce_only is false in all of them.
OrdersNotional(p, C) ==
  SumFunctionOnSet(Whole, BuysOf(C)) + SumFunctionOnSet(Value(stop, StopReference(p)), C)

PositionsNotional(p, C) == SumFunctionOnSet(Value(p, Price), C)

\* total_notional for all contracts, underlying_notional for one family
Notional(p, C) == PositionsNotional(p, C) + OrdersNotional(p, C)

Family(c) == {d \in Contracts : Underlying[d] = Underlying[c]}

OpenPositions(p) == Cardinality({c \in Contracts : p[c] # 0})

\* Variant: the limit itself is still accepted as a count to add to.
RoomForOneMore(p) == OpenPositions(p) <= MaxPositions

\* MAX_POSITIONS counts the positions, not the orders.
RoomForPosition(p) == OpenPositions(p) < MaxPositions

\* Variant: the exposure is compared to its limits without the new order.
AuthorizedBefore(c, qty, p, money) ==
  /\ qty <= MaxQty
  /\ qty * Price[c] <= money
  /\ qty * Price[c] <= PlanCapital
  /\ Notional(p, Contracts) <= MaxTotal
  /\ Notional(p, Family(c)) <= MaxSymbol
  /\ RoomForPosition(p)

\* authorize_with_stop for a buy of qty of c, on the portfolio read
Authorized(c, qty, p, money) ==
  LET n == qty * Price[c]
  IN /\ qty <= MaxQty
     /\ n <= money
     /\ n <= PlanCapital
     /\ Notional(p, Contracts) + n <= MaxTotal
     /\ Notional(p, Family(c)) + n <= MaxSymbol
     /\ RoomForPosition(p)

\* calculate_dynamic_risk_quantity: the smaller of what the risk budget and
\* the capital allow, cut to the ceiling
Sized(byRisk, c, money) ==
  Min({byRisk, Min({money, PlanCapital}) \div Price[c], MaxQty})

-----------------------------------------------------------------------------
(* handle_signal                                                            *)

\* A signal for a contract with no open trade: positions()
ReadPositions(c) ==
  /\ pc = "idle"
  /\ trade[c] = 0
  /\ pc' = "account" /\ target' = c
  /\ seen' = [seen EXCEPT !.pos = pos]
  /\ UNCHANGED <<broker, trade, sent, past>>

\* account()
ReadAccount ==
  /\ pc = "account" /\ pc' = "orders"
  /\ seen' = [seen EXCEPT !.cash = cash]
  /\ UNCHANGED <<broker, trade, sent, target, past>>

\* list_open_orders(), then size and authorize, with no call in between.
ReadOrders(byRisk) ==
  /\ pc = "orders"
  /\ LET qty == Sized(byRisk, target, seen.cash)
     IN /\ qty > 0
        /\ Authorized(target, qty, seen.pos, seen.cash)
        /\ seen' = [seen EXCEPT !.qty = qty]
  /\ pc' = "submit"
  /\ UNCHANGED <<broker, trade, sent, target, past>>

\* Any refusal, on the way or by the broker, ends the signal.
Refuse ==
  /\ pc # "idle" /\ pc' = "idle"
  /\ UNCHANGED <<broker, trade, sent, target, seen, past>>

\* submit(): n contracts fill at once, the rest stays working; what filled is
\* protected (the stop may be refused) and tracked.  The broker takes no
\* order the cash cannot pay.
Submit(n, protected) ==
  /\ pc = "submit" /\ pc' = "idle"
  /\ sent < MaxOrders
  /\ LET c == target
         q == seen.qty
     IN /\ n \in 0..q
        /\ q * Price[c] + SumFunctionOnSet(Working, buys) <= cash
        /\ protected \in {0, n}
        /\ sent' = sent + 1
        /\ pos' = [pos EXCEPT ![c] = @ + n]
        /\ cash' = cash - n * Price[c]
        /\ buys' = buys \cup
             {b \in BuyOrders : b = [id |-> sent', c |-> c, qty |-> q, left |-> q - n]}
        /\ trade' = [trade EXCEPT ![c] = n]
        /\ stop' = [stop EXCEPT ![c] = IF protected > 0 THEN @ + n ELSE @]
        /\ rested' = (rested \/ n < q)
  /\ UNCHANGED <<hit, target, seen, raced>>

-----------------------------------------------------------------------------
(* The rest of the program: an open trade is sold, its stop first cancelled; *)
(* a trade whose stop has filled is dropped.                                 *)

Exit(c) ==
  /\ pc = "idle" /\ trade[c] > 0
  /\ c \notin hit
  /\ pos' = [pos EXCEPT ![c] = @ - trade[c]]
  /\ cash' = cash + trade[c] * Price[c]
  /\ stop' = [stop EXCEPT ![c] = 0]
  /\ trade' = [trade EXCEPT ![c] = 0]
  /\ UNCHANGED <<buys, hit, sent, call, past>>

\* Variant: the trade whose stop has filled is not dropped.
IngestKeeping(c) ==
  /\ pc = "idle" /\ c \in hit
  /\ hit' = hit \ {c}
  /\ UNCHANGED <<pos, cash, buys, stop, trade, sent, call, past>>

Ingest(c) ==
  /\ pc = "idle" /\ c \in hit
  /\ hit' = hit \ {c}
  /\ trade' = [trade EXCEPT ![c] = 0]
  /\ UNCHANGED <<pos, cash, buys, stop, sent, call, past>>

-----------------------------------------------------------------------------
(* The broker                                                               *)

\* A working buy fills, in part or entirely.
FillBuy(b, n) ==
  /\ b \in buys /\ n \in 1..b.left
  /\ n * Price[b.c] <= cash
  /\ pos' = [pos EXCEPT ![b.c] = @ + n]
  /\ cash' = cash - n * Price[b.c]
  /\ buys' = (buys \ {b}) \cup {o \in BuyOrders : o = [b EXCEPT !.left = @ - n]}
  /\ raced' = (raced \/ pc \in {"account", "orders"})
  /\ UNCHANGED <<stop, hit, trade, sent, call, rested>>

FillStop(c) ==
  /\ stop[c] > 0
  /\ pos' = [pos EXCEPT ![c] = @ - stop[c]]
  /\ cash' = cash + stop[c] * StopPrice[c]
  /\ stop' = [stop EXCEPT ![c] = 0]
  /\ hit' = hit \cup {c}
  /\ UNCHANGED <<buys, trade, sent, call, past>>

Signal ==
  \/ \E c \in Contracts : ReadPositions(c)
  \/ ReadAccount
  \/ \E byRisk \in 0..MaxQty + 1 : ReadOrders(byRisk)
  \/ Refuse
  \/ \E n, protected \in 0..MaxQty : Submit(n, protected)

Book == \E c \in Contracts : Exit(c) \/ Ingest(c)

Fills ==
  \/ \E b \in buys, n \in 1..MaxQty : FillBuy(b, n)
  \/ \E c \in Contracts : FillStop(c)

Next == Signal \/ Book \/ Fills

Spec == Init /\ [][Next]_vars

-----------------------------------------------------------------------------
(* Properties                                                               *)

\* What is held, or will be when the working buys have filled
Committed(C) == PositionsNotional(pos, C) + SumFunctionOnSet(Working, BuysOf(C))

\* The aggregate and the per symbol limit hold, unless a buy fills after the
\* positions and before the open orders are read: then it is in neither.
WithinLimits ==
  ~raced =>
    /\ Committed(Contracts) <= MaxTotal
    /\ \A c \in Contracts : Committed(Family(c)) <= MaxSymbol

\* However many buys are missed in this way, at most twice the limit is ever
\* committed: the buys still working never exceed it, and neither do the
\* positions that were seen.
AtMostTwice ==
  /\ Committed(Contracts) <= 2 * MaxTotal
  /\ \A c \in Contracts : Committed(Family(c)) <= 2 * MaxSymbol

\* While every buy fills when it is sent, there are never more positions than
\* allowed.
PositionsWithinLimit == ~rested => OpenPositions(pos) <= MaxPositions
=============================================================================
