-------------------------------- MODULE Feed ----------------------------------
(***************************************************************************)
(* From the minute bars of the market to the five-minute candles the bots  *)
(* decide on: the Trading tick of the supervisor, which looks at the age   *)
(* of the data and then polls the last minutes of every symbol             *)
(* (crates/bot/src/supervisor.rs), the durable key of every bar, the       *)
(* candle builder (crates/domain/src/lib.rs) with its ring of seen events  *)
(* (crates/market-data/src/lib.rs), and the candle rows.                   *)
(*                                                                         *)
(* Time is the minute of the day.  A bar is named by the minute it covers; *)
(* of its prices and its volume only the number of bars added is kept.     *)
(***************************************************************************)
EXTENDS MarketSession, FiniteSets

CONSTANTS
  Universe,     \* how many symbols are active; they are polled in order
  Frame,        \* minutes of a candle (5)
  Window,       \* minutes polled back from the last whole one (6)
  MaxAge,       \* max_quote_age_secs, in seconds (30)
  Day,          \* the date
  Start, Last,  \* bound: the minutes of the day that are explored
  MaxLag,       \* bound: minutes after which a bar is no longer published
  MaxGaps,      \* bound: bars that are late or never published
  MaxTroubles   \* bound: crashes of the process, failed polls and failed writes

ASSUME FrameAssumption ==
  Universe \in Nat \ {0} /\ Frame \in Nat \ {0} /\ Window \in Nat /\ MaxAge \in Nat
ASSUME SpanAssumption == Start \in Nat /\ Last \in Nat /\ Start <= Last
ASSUME TroublesAssumption == MaxLag \in Nat /\ MaxGaps \in Nat /\ MaxTroubles \in Nat

VARIABLES
  now,
  out,       \* bars the provider has published
  \* --- durable ---
  keys,      \* event_keys: bars that were reserved
  rows,      \* the candles table
  \* --- process ---
  seen,      \* MultiSymbolCandleEngine.seen_events
  fed,       \* CandleBuilder.last_event_ts
  cur,       \* CandleBuilder.current
  latest,    \* stats.last_market_event
  mode,      \* Trading, Halted, or FinalizingSession
  begun,     \* when the tick under way began
  polled,    \* how many symbols the tick has polled
  batch,     \* the symbol polled last, its bars still to feed, the end of the window
  \* --- history ---
  first,     \* first bar this process has fed of a symbol
  gaps,      \* bars that were not published when their minute was over
  late,      \* bars published after a later one, or long after their minute
  decision,  \* the last candle the bots decided on in this tick
  troubles

vars == <<now, out, keys, rows, seen, fed, cur, latest, mode, begun, polled,
          batch, first, late, gaps, decision, troubles>>

None    == -1
Symbols == 1..Universe
Minutes == Start..Last

\* A candle is named by its first minute.
Bucket(m) == m - (m % Frame)

Buckets == {Bucket(m) : m \in Minutes}
Candle  == [at : Buckets, mins : SUBSET Minutes, bars : Nat]
NoCandle == [at |-> None, mins |-> {}, bars |-> 0]
NoBatch  == [sym |-> 1, mins |-> {}, end |-> None]
Nothing  == [sym |-> 1, at |-> None, begun |-> None]

TypeOK ==
  /\ now \in Minutes
  /\ out \in [Symbols -> SUBSET Minutes] /\ late \in [Symbols -> SUBSET Minutes]
  /\ keys \in [Symbols -> SUBSET Minutes] /\ seen \in [Symbols -> SUBSET Minutes]
  /\ rows \in [Symbols -> SUBSET Candle] /\ cur \in [Symbols -> Candle \cup {NoCandle}]
  /\ fed \in [Symbols -> Minutes \cup {None}] /\ first \in [Symbols -> Minutes \cup {None}]
  /\ latest \in Minutes \cup {None} /\ begun \in Minutes \cup {None}
  /\ mode \in {"Trading", "Halted", "FinalizingSession"}
  /\ polled \in 0..Universe
  /\ batch \in [sym : Symbols, mins : SUBSET Minutes, end : Nat \cup {None}]
  /\ decision \in [sym : Symbols, at : Buckets \cup {None}, begun : Minutes \cup {None}]
  /\ troubles \in 0..MaxTroubles /\ gaps \in 0..MaxGaps

NoBars == [s \in Symbols |-> {}]
NoTime == [s \in Symbols |-> None]
NoCandles == [s \in Symbols |-> NoCandle]

Init ==
  /\ now = Start /\ out = NoBars /\ late = NoBars /\ gaps = 0
  /\ keys = NoBars /\ rows = NoBars
  /\ seen = NoBars /\ fed = NoTime /\ first = NoTime /\ cur = NoCandles
  /\ latest = None /\ begun = None /\ polled = 0 /\ batch = NoBatch
  /\ decision = Nothing /\ mode = "Trading"
  /\ troubles = 0

builders == <<seen, fed, first, cur>>
process  == <<builders, latest, begun, polled, batch, decision>>
durable == <<keys, rows>>
market  == <<now, out, late, gaps>>

Trouble == troubles < MaxTroubles /\ troubles' = troubles + 1

-----------------------------------------------------------------------------
(* The market.  At the turn of a minute bars are published: those of the     *)
(* minute that is over, those that are late, or none when nothing was        *)
(* traded.  Feeding the bars of a poll takes no time, and a tick less than a *)
(* minute: the watchdog of systemd kills it after 30 seconds.                *)

Feeding == batch.mins # {}

\* What a bar may take to be published and still be polled in time
Patience == Window + 1 - (MaxAge \div 60)

\* The bars, by symbol and minute, that may be published at the turn to minute n
Due(n) ==
  {b \in Symbols \X ((n - MaxLag)..(n - 1)) : b[2] >= Start /\ b[2] \notin out[b[1]]}

Late(s, n, new) == {m \in new : n - m > Patience \/ \E k \in out[s] : k > m}

Pass ==
  /\ ~Feeding /\ now < Last /\ begun \in {None, now}
  /\ now' = now + 1
  /\ \E published \in SUBSET Due(now + 1) :
       LET New(s) == {b[2] : b \in {x \in published : x[1] = s}}
       IN /\ gaps' = gaps + Cardinality({s \in Symbols : now \notin New(s)})
          /\ gaps' <= MaxGaps
          /\ out' = [s \in Symbols |-> out[s] \cup New(s)]
          /\ late' = [s \in Symbols |-> late[s] \cup Late(s, now + 1, New(s))]
  /\ UNCHANGED <<durable, process, mode, troubles>>

-----------------------------------------------------------------------------
(* The tick of Trading                                                       *)

\* Variant: old data does not matter as long as there was some.
EverHealthy(second) == latest # None

\* DataHealth: the age of the last event, at some second of this minute
Healthy(second) == latest # None /\ 60 * (now - latest) + second <= MaxAge

Ticks == mode = "Trading" /\ begun = None

\* Not judged before the first event of the process
MayTrade == Ticks /\ (latest = None \/ \E second \in {0, 59} : Healthy(second))

\* The data is too old: the kill switch, and Halted, for good.
TickHalt ==
  /\ Ticks
  /\ latest # None /\ \E second \in {0, 59} : ~Healthy(second)
  /\ mode' = "Halted"
  /\ UNCHANGED <<market, durable, process, troubles>>

TickClosed ==
  /\ MayTrade /\ PhaseAt(Day, now) # "MarketOpen"
  /\ mode' = "FinalizingSession"
  /\ UNCHANGED <<market, durable, process, troubles>>

\* The clock of the broker agrees with the calendar.  A tick on which it fails, or is
\* closed, polls nothing: a stutter here, where no minute needs to have a tick.
TickBegin ==
  /\ MayTrade /\ PhaseAt(Day, now) = "MarketOpen"
  /\ begun' = now
  /\ UNCHANGED <<market, durable, builders, latest, polled, batch, decision, mode, troubles>>

\* Variant: every bar of the window is fed again.
PolledAgain(s, end) == out[s] \cap ((end - Window)..end)

\* The bars of the window up to the last whole minute; those that were reserved
\* before are skipped without effect.
Polled(s, end) == (out[s] \cap ((end - Window)..end)) \ keys[s]

\* The provider's error is only printed.
Poll ==
  /\ begun # None /\ ~Feeding /\ polled < Universe
  /\ polled' = polled + 1
  /\ LET bars == Polled(polled + 1, now - 1)
     IN \/ /\ batch' = IF bars = {} THEN NoBatch
                       ELSE [sym |-> polled + 1, mins |-> bars, end |-> now - 1]
           /\ UNCHANGED troubles
        \/ Trouble /\ UNCHANGED batch
  /\ UNCHANGED <<market, durable, builders, latest, begun, decision, mode>>

TickEnd ==
  /\ begun # None /\ ~Feeding /\ polled = Universe
  /\ begun' = None /\ polled' = 0 /\ decision' = Nothing
  /\ UNCHANGED <<market, durable, builders, latest, batch, mode, troubles>>

-----------------------------------------------------------------------------
(* on_market_bar_at                                                          *)

\* Variant: the time of a candle is not set.
BeginUnnamed(m) == [at |-> None, mins |-> {m}, bars |-> 1]

Begin(m) == [at |-> Bucket(m), mins |-> {m}, bars |-> 1]
Grow(c, m) == [c EXCEPT !.mins = @ \cup {m}, !.bars = @ + 1]

\* The bars of a poll are fed in the order of time.
Sym == batch.sym
NextBar(bar) == bar \in batch.mins /\ \A k \in batch.mins : bar <= k
Take(bar) == batch' = IF batch.mins = {bar} THEN NoBatch ELSE [batch EXCEPT !.mins = @ \ {bar}]

\* The key cannot be reserved: the bar is given up, until the next poll.
FeedUnreserved(bar) ==
  /\ NextBar(bar)
  /\ Trouble
  /\ Take(bar)
  /\ UNCHANGED <<market, durable, builders, latest, begun, polled, decision, mode>>

\* The key is reserved first, and the bar is the last market event whatever
\* becomes of it.
Reserve(bar) ==
  /\ NextBar(bar) /\ Take(bar)
  /\ keys' = [keys EXCEPT ![Sym] = @ \cup {bar}]
  /\ latest' = bar
  /\ seen' = [seen EXCEPT ![Sym] = @ \cup {bar}]
  /\ UNCHANGED <<market, begun, polled, mode>>

\* push_event: a bar seen before, or older than the last one, is dropped.
Drops(bar) == bar \in seen[Sym] \/ bar < fed[Sym]

FeedDropped(bar) ==
  /\ Reserve(bar) /\ Drops(bar)
  /\ UNCHANGED <<rows, fed, first, cur, decision, troubles>>

Accept(bar) ==
  /\ Reserve(bar) /\ ~Drops(bar)
  /\ fed' = [fed EXCEPT ![Sym] = bar]
  /\ first' = [first EXCEPT ![Sym] = IF @ = None THEN bar ELSE @]

\* CandleBuilder::push: the bar begins the first candle or belongs to it.
FeedGrows(bar) ==
  /\ Accept(bar)
  /\ cur[Sym].at \in {None, Bucket(bar)}
  /\ cur' = [cur EXCEPT ![Sym] = IF @.at = None THEN Begin(bar) ELSE Grow(@, bar)]
  /\ UNCHANGED <<rows, decision, troubles>>

\* INSERT OR IGNORE
Stored(s, c) ==
  IF \E r \in rows[s] : r.at = c.at THEN rows ELSE [rows EXCEPT ![s] = @ \cup {c}]

\* The strategies are run on the candle, when the market is open.
Decide(s, c) ==
  decision' = IF PhaseAt(Day, batch.end) = "MarketOpen"
                THEN [sym |-> s, at |-> c.at, begun |-> begun] ELSE decision

\* The bar opens the next candle: the one before is complete, saved, and
\* decided on.  A candle that cannot be saved is lost.
FeedCompletes(bar) ==
  /\ Accept(bar)
  /\ cur[Sym].at \notin {None, Bucket(bar)}
  /\ cur' = [cur EXCEPT ![Sym] = Begin(bar)]
  /\ \/ rows' = Stored(Sym, cur[Sym]) /\ Decide(Sym, cur[Sym]) /\ UNCHANGED troubles
     \/ Trouble /\ UNCHANGED <<rows, decision>>

Feed(bar) ==
  FeedUnreserved(bar) \/ FeedDropped(bar) \/ FeedGrows(bar) \/ FeedCompletes(bar)

\* The process dies, possibly between the key and the candle, and starts again.
Crash ==
  /\ Trouble
  /\ seen' = NoBars /\ fed' = NoTime /\ first' = NoTime /\ cur' = NoCandles
  /\ latest' = None /\ begun' = None /\ polled' = 0 /\ batch' = NoBatch
  /\ decision' = Nothing
  /\ \/ UNCHANGED keys
     \/ \E bar \in batch.mins : NextBar(bar) /\ keys' = [keys EXCEPT ![Sym] = @ \cup {bar}]
  /\ UNCHANGED <<market, rows, mode>>

Next ==
  \/ Pass
  \/ TickHalt \/ TickClosed \/ TickBegin \/ Poll \/ TickEnd
  \/ \E bar \in batch.mins : Feed(bar)
  \/ Crash

Spec == Init /\ [][Next]_vars

-----------------------------------------------------------------------------
(* Properties                                                               *)

Candles(s) == rows[s] \cup {cur[s]}

\* No bar counts twice, neither within a candle nor in two of them, although
\* every poll returns bars of the polls before, and although a restart polls
\* what was built into candles before it.
NoBarTwice ==
  \A s \in Symbols :
    \A c \in Candles(s) :
      /\ c.bars = Cardinality(c.mins)
      /\ \A d \in Candles(s) : c # d => c.mins \cap d.mins = {}

\* No poll gap loses a bar: the health check halts before the ticks are so far
\* apart that the windows do not overlap.  A candle that was saved has every bar
\* of its minutes that was published in time since the process fed its first,
\* unless something crashed or failed.
WholeCandles ==
  troubles = 0 =>
    \A s \in Symbols : \A c \in rows[s] : \A m \in out[s] \ late[s] :
      Bucket(m) = c.at /\ first[s] <= m => m \in c.mins

\* A candle that is decided on was closed at most MaxAge before the tick, or at
\* most a window before the first tick of the process, which checks no age; or
\* else another symbol had a recent bar: the health check knows one age only.
DecisionFresh ==
  decision.at # None =>
    LET Recent(m) == decision.begun - m <= Window \/ 60 * (decision.begun - m) <= MaxAge
    IN Recent(decision.at + Frame) \/ \E r \in Symbols \ {decision.sym} : Recent(fed[r])

\* What a decision was made on has a row.
DecidedIsStored ==
  decision.at # None => \E c \in rows[decision.sym] : c.at = decision.at

\* The one that follows is what a test says of the halt, and fails.

\* The supervisor halts on data that is missing, not on data that arrived in time.
HaltMeansSilence ==
  mode = "Halted" => \E s \in Symbols : \E m \in Start..(now - 2) : m \notin out[s]
=============================================================================
