------------------------------ MODULE Backtest ------------------------------
(***************************************************************************)
(* The bar loop of the two backtest engines (crates/backtest/src/lib.rs):  *)
(* OptionBacktestEngine::run_with_quotes fills at the quotes of the bar,   *)
(* UnderlyingBacktestEngine::run at its open.  Exits come first, then the  *)
(* order that is pending, then the strategy sees the bar.                  *)
(*                                                                         *)
(* Prices, costs and statistics are left out.  The quotes are chosen at    *)
(* the start: the sides that can be traded at each bar.  The strategy may  *)
(* signal anything.                                                        *)
(***************************************************************************)
EXTENDS Naturals, Sequences

CONSTANTS
  Bars,     \* number of bars
  Configs   \* configurations that are explored

\* Fewer bars are refused as InsufficientData.
ASSUME BarsAssumption == Bars \in Nat /\ Bars >= 3

\* BacktestConfig and the engine: max_hold_bars is checked at the start,
\* latency_bars may be 0.
Config == [options : BOOLEAN, maxHold : Nat \ {0}, latency : Nat]

ASSUME ConfigsAssumption == Configs \subseteq Config

VARIABLES
  cfg,      \* BacktestConfig, and which engine runs
  quoted,   \* sides with a quote, by bar
  i,        \* bar that is next
  open,     \* open position, or Nothing
  pending,  \* signal that waits for its bar, or Nothing
  trades,   \* trades that are closed
  result    \* "running", "report", or "error" (InsufficientData)

vars == <<cfg, quoted, i, open, pending, trades, result>>

Sides == {"LongCall", "LongPut"}
Index == 1..Bars
Nothing == [side |-> "Flat"]
\* signal: the bar of the signal, which the code does not keep
Positions == [side : Sides, entry : Index, signal : Index]
Signals == [side : Sides, bar : Index]
Trades == [side : Sides, entry : Index, signal : Index, exit : Index, held : 0..Bars]

TypeOK ==
  /\ cfg \in Configs
  /\ quoted \in [Index -> SUBSET Sides]
  /\ i \in 1..Bars + 1
  /\ open \in Positions \cup {Nothing}
  /\ pending \in Signals \cup {Nothing}
  /\ trades \in Seq(Trades)
  /\ result \in {"running", "report", "error"}

\* The underlying can always be traded.
Init ==
  /\ cfg \in Configs
  /\ quoted \in IF cfg.options THEN [Index -> SUBSET Sides]
                               ELSE {[b \in Index |-> Sides]}
  /\ i = 1 /\ open = Nothing /\ pending = Nothing /\ trades = <<>>
  /\ result = "running"

-----------------------------------------------------------------------------
Tradable(p) == p # Nothing /\ p.side \in quoted[i]

Closed(p, held) ==
  [side |-> p.side, entry |-> p.entry, signal |-> p.signal, exit |-> i, held |-> held]

\* Variant: a position is closed one bar late.
OverHeld(p) == Tradable(p) /\ i - p.entry > cfg.maxHold

\* 1. The position has been held long enough, and there is a price.
Expired(p) == Tradable(p) /\ i - p.entry >= cfg.maxHold

\* latency_bars.max(1)
Delay == IF cfg.latency > 1 THEN cfg.latency ELSE 1

\* Variant: the configured latency is not looked at.
DueAtOnce == pending # Nothing /\ i > pending.bar

\* 2. The pending signal is acted on, at the earliest one bar after it.
Due == pending # Nothing /\ i >= pending.bar + Delay

\* It closes a position of the other side, if that has a price.
Turned(p) == Due /\ Tradable(p) /\ p.side # pending.side

\* The position that is opened
Entered == [side |-> pending.side, entry |-> i, signal |-> pending.bar]

\* Variant: the position of the other side is still seen.
EntersWhenFlat(p) == Due /\ open = Nothing /\ Tradable(pending)

\* It opens one if none is left, and the side has a price: if it has none, the
\* signal is lost.
Enters(p) == Due /\ p = Nothing /\ Tradable(pending)

\* Variant: the pending signal stays pending.
StillPending == pending

\* The pending signal after the bar, unless the strategy gives a new one
Waiting == IF Due THEN Nothing ELSE pending

\* One bar: exits, then the pending signal, then the strategy, whose new
\* signal replaces one that still waits.
Bar(signal) ==
  LET p1 == IF Expired(open) THEN Nothing ELSE open
      p2 == IF Turned(p1) THEN Nothing ELSE p1
  IN /\ result = "running" /\ i <= Bars
     /\ open' = IF Enters(p2) THEN Entered ELSE p2
     /\ trades' = IF p2 = open THEN trades
                  ELSE Append(trades, Closed(open, i - open.entry))
     /\ pending' = IF signal \in Sides THEN [side |-> signal, bar |-> i] ELSE Waiting
     /\ i' = i + 1
     /\ UNCHANGED <<cfg, quoted, result>>

\* After the last bar the option engine closes what is open at the quotes of
\* that bar, and fails if there are none; the other engine drops it.
LastQuoted == open.side \in quoted[Bars]

End ==
  /\ result = "running" /\ i = Bars + 1
  /\ IF open # Nothing /\ cfg.options
       THEN IF LastQuoted
              THEN /\ result' = "report" /\ open' = Nothing
                   /\ trades' = Append(trades,
                        [Closed(open, i - open.entry) EXCEPT !.exit = Bars])
              ELSE result' = "error" /\ UNCHANGED <<open, trades>>
       ELSE result' = "report" /\ open' = Nothing /\ UNCHANGED trades
  /\ UNCHANGED <<cfg, quoted, i, pending>>

Next == End \/ \E signal \in Sides \cup {"Flat"} : Bar(signal)

Spec == Init /\ [][Next]_vars

-----------------------------------------------------------------------------
(* Properties                                                               *)

All == trades \o (IF open = Nothing THEN <<>>
                  ELSE <<[Closed(open, 0) EXCEPT !.exit = open.entry]>>)

\* No look-ahead: a position is entered at a later bar than the one whose
\* data gave the signal, whatever the latency, and by that latency at least.
NoLookAhead ==
  \A k \in DOMAIN All :
    /\ All[k].entry > All[k].signal
    /\ All[k].entry >= All[k].signal + cfg.latency

\* Positions follow each other, and no signal opens two of them.
OneAtATime ==
  /\ \A k \in DOMAIN All : All[k].entry <= All[k].exit
  /\ \A k \in 2..Len(All) :
       All[k - 1].exit <= All[k].entry /\ All[k - 1].signal < All[k].signal

\* A trade is held longer than configured only while it has no price.
HoldBounded ==
  \A k \in DOMAIN trades :
    LET t == trades[k]
    IN t.held > cfg.maxHold =>
         \A b \in t.entry + cfg.maxHold .. t.exit - 1 : t.side \notin quoted[b]

\* With the default latency every signal is acted on at the next bar: its side
\* is open then, unless it or the position to be closed has no price.
SignalsTaken ==
  [][pending # Nothing /\ cfg.latency <= 1 /\ i <= Bars /\ result = "running" =>
       \/ open' # Nothing /\ open'.side = pending.side
       \/ quoted[i] # Sides]_vars

=============================================================================
