------------------------------ MODULE FeedProofs ------------------------------
(***************************************************************************)
(* Proofs about MarketSession.tla and Feed.tla: the phases of a day        *)
(* against the hours of the exchange, and, for every universe, window,     *)
(* frame, age limit and number of crashes, that no bar counts twice, that  *)
(* the bots decide on fresh and stored candles only, and that no gap       *)
(* between two polls loses a bar.                                          *)
(*                                                                         *)
(* The inductive invariant is Kept.  Its parts, each of which relies on    *)
(* the ones before: TypeOK; Feedable, what was reserved and what was built *)
(* of it; Timely, how far each symbol has come and what the health check   *)
(* has established; Whole, how old a bar may be that is still to be fed.   *)
(***************************************************************************)
EXTENDS Feed, FiniteSetTheorems, TLAPS

-----------------------------------------------------------------------------
(* The phases of a day                                                      *)

\* Sessions whose phases do not pass midnight
Ordinary == 60 <= Open /\ Open <= Close - 5 /\ Close + 90 < 1440

\* The bounds of the phases of an ordinary session are plain differences.
LEMMA NoWrap ==
  ASSUME Ordinary
  PROVE  /\ PreMarketStart = Open - 60 /\ ClosingStart = Close - 5
         /\ PostMarketEnd = Close + 30 /\ LearningEnd = Close + 90
<1>1. Open \in Int /\ Close \in Int
  BY SessionAssumption
<1> QED BY <1>1 DEF Ordinary, Shifted, PreMarketStart, ClosingStart, PostMarketEnd, LearningEnd

\* The two clocks of market_session.rs agree: session_state_at says open in exactly the
\* minutes that phase_at calls MarketOpen or MarketClosing.
THEOREM OpenPhases ==
  ASSUME Ordinary, NEW d, NEW t \in 0..1439
  PROVE  IsOpen(d, t) <=> PhaseAt(d, t) \in {"MarketOpen", "MarketClosing"}
<1>1. Open \in Int /\ Close \in Int
  BY SessionAssumption
<1>2. CASE ~IsTradingDay(d)
  BY <1>2 DEF IsOpen, PhaseAt
<1>3. CASE IsTradingDay(d)
  <2>1. IsOpen(d, t) <=> Open <= t /\ t < Close
    BY <1>3 DEF IsOpen
  <2>2. /\ In(t, PreMarketStart, Open) <=> Open - 60 <= t /\ t < Open
        /\ In(t, Open, ClosingStart) <=> Open <= t /\ t < Close - 5
        /\ In(t, ClosingStart, Close) <=> Close - 5 <= t /\ t < Close
    BY NoWrap DEF In
  <2>3. CASE In(t, PreMarketStart, Open)
    <3>1. PhaseAt(d, t) = "PreMarket"
      BY <1>3, <2>3, <1>1, <2>2 DEF PhaseAt
    <3> QED BY <1>1, <2>1, <2>2, <2>3, <3>1
  <2>4. CASE In(t, Open, ClosingStart)
    <3>1. ~In(t, PreMarketStart, Open)
      BY <1>1, <2>2, <2>4
    <3>2. PhaseAt(d, t) = "MarketOpen"
      BY <1>3, <2>4, <3>1 DEF PhaseAt
    <3> QED BY <1>1, <2>1, <2>2, <2>4, <3>2
  <2>5. CASE In(t, ClosingStart, Close)
    <3>1. ~In(t, PreMarketStart, Open) /\ ~In(t, Open, ClosingStart)
      BY <1>1, <2>2, <2>5 DEF Ordinary
    <3>2. PhaseAt(d, t) = "MarketClosing"
      BY <1>3, <2>5, <3>1 DEF PhaseAt
    <3> QED BY <1>1, <2>1, <2>2, <2>5, <3>2 DEF Ordinary
  <2>6. CASE ~In(t, PreMarketStart, Open) /\ ~In(t, Open, ClosingStart) /\ ~In(t, ClosingStart, Close)
    <3>1. PhaseAt(d, t) \in {"PostMarket", "Learning", "Waiting"}
      BY <1>3, <2>6 DEF PhaseAt
    <3> QED BY <1>1, <2>1, <2>2, <2>6, <3>1 DEF Ordinary
  <2> QED BY <2>3, <2>4, <2>5, <2>6
<1> QED BY <1>2, <1>3

-----------------------------------------------------------------------------
(* Bars and candles                                                         *)

AnyCandle == [at : Int, mins : SUBSET Int, bars : Int]

Shapes ==
  /\ keys \in [Symbols -> SUBSET Int] /\ out \in [Symbols -> SUBSET Int]
  /\ rows \in [Symbols -> SUBSET AnyCandle] /\ cur \in [Symbols -> AnyCandle]
  /\ batch \in [sym : Symbols, mins : SUBSET Int, end : Int]
  /\ decision \in [sym : Symbols, at : Int, begun : Int]
  /\ polled \in 0..Universe /\ begun \in Int /\ now \in Int

\* A candle is made of bars that were reserved, each of which it counts once.
Counted(k, c) == c.mins \subseteq k /\ IsFiniteSet(c.mins) /\ c.bars = Cardinality(c.mins)

\* The candles of a symbol, given its keys, its rows and its current candle
Sound(k, saved, c) ==
  /\ Counted(k, c)
  /\ \A r \in saved : Counted(k, r) /\ r.mins \cap c.mins = {}
  /\ \A r, q \in saved : r # q => r.mins \cap q.mins = {}

\* The strengthening: what is still to be fed was not reserved.
Feedable ==
  /\ Shapes
  /\ \A s \in Symbols : Sound(keys[s], rows[s], cur[s])
  /\ batch.mins \cap keys[batch.sym] = {}
  /\ DecidedIsStored

\* There is a symbol.
LEMMA FirstSymbol == 1 \in Symbols /\ Symbols \subseteq Int
  BY FrameAssumption DEF Symbols

\* An empty builder has counted nothing.
LEMMA NoCandleCounts ==
  ASSUME NEW k
  PROVE  Counted(k, NoCandle) /\ NoCandle \in AnyCandle
  BY FS_EmptySet DEF Counted, NoCandle, AnyCandle, None

\* A new candle counts its first bar once.
LEMMA BeginCounts ==
  ASSUME NEW k, NEW m \in Int
  PROVE  Counted(k \cup {m}, Begin(m)) /\ Begin(m).mins = {m} /\ Begin(m) \in AnyCandle
<1>1. m % Frame \in Int
  BY FrameAssumption
<1>2. Bucket(m) \in Int
  BY <1>1 DEF Bucket
<1>3. IsFiniteSet({m}) /\ Cardinality({m}) = 1
  BY FS_Singleton
<1>4. Begin(m).mins = {m} /\ Begin(m).bars = 1
  BY DEF Begin
<1>5. Begin(m) \in AnyCandle
  BY <1>2 DEF Begin, AnyCandle
<1> QED BY <1>3, <1>4, <1>5 DEF Counted

\* A candle that a new bar is added to counts it once.
LEMMA GrowCounts ==
  ASSUME NEW k, NEW c \in AnyCandle, NEW m \in Int, Counted(k, c), m \notin k
  PROVE  /\ Counted(k \cup {m}, Grow(c, m)) /\ Grow(c, m).mins = c.mins \cup {m}
         /\ Grow(c, m) \in AnyCandle
<1>1. Grow(c, m).mins = c.mins \cup {m} /\ Grow(c, m).bars = c.bars + 1 /\ Grow(c, m).at = c.at
  BY DEF Grow, AnyCandle
<1>2. m \notin c.mins /\ IsFiniteSet(c.mins)
  BY DEF Counted
<1>3. IsFiniteSet(c.mins \cup {m}) /\ Cardinality(c.mins \cup {m}) = Cardinality(c.mins) + 1
  BY <1>2, FS_AddElement
<1>4. Grow(c, m) \in AnyCandle
  <2>1. c.mins \cup {m} \in SUBSET Int /\ c.bars + 1 \in Int
    BY DEF AnyCandle
  <2> QED BY <2>1 DEF Grow, AnyCandle
<1> QED BY <1>1, <1>3, <1>4 DEF Counted

\* More keys leave a symbol's candles sound.
LEMMA SoundWithKey ==
  ASSUME NEW k, NEW m, NEW saved, NEW c, Sound(k, saved, c)
  PROVE  Sound(k \cup {m}, saved, c)
  BY DEF Sound, Counted

\* The candle under construction may take a bar that was not reserved before.
LEMMA GrowIsSound ==
  ASSUME NEW k, NEW saved, NEW c \in AnyCandle, NEW m \in Int, m \notin k, Sound(k, saved, c)
  PROVE  Sound(k \cup {m}, saved, Grow(c, m))
<1>1. Counted(k \cup {m}, Grow(c, m)) /\ Grow(c, m).mins = c.mins \cup {m}
  BY GrowCounts DEF Sound
<1>2. \A r \in saved : Counted(k \cup {m}, r) /\ m \notin r.mins /\ r.mins \cap c.mins = {}
  BY DEF Sound, Counted
<1> QED BY <1>1, <1>2 DEF Sound

\* A new candle may begin with such a bar, whether the one before is saved or lost.
LEMMA BeginIsSound ==
  ASSUME NEW k, NEW saved, NEW c, NEW m \in Int, m \notin k, Sound(k, saved, c)
  PROVE  Sound(k \cup {m}, saved, Begin(m)) /\ Sound(k \cup {m}, saved \cup {c}, Begin(m))
<1>1. Counted(k \cup {m}, Begin(m)) /\ Begin(m).mins = {m}
  BY BeginCounts
<1>2. \A r \in saved \cup {c} : Counted(k \cup {m}, r) /\ m \notin r.mins
  BY DEF Sound, Counted
<1>3. \A r, q \in saved \cup {c} : r # q => r.mins \cap q.mins = {}
  BY DEF Sound
<1> QED BY <1>1, <1>2, <1>3 DEF Sound

\* It holds before the first bar.
LEMMA FeedableInit == Init => Feedable
<1> SUFFICES ASSUME Init PROVE Feedable
  OBVIOUS
<1>1. Shapes
  <2>1. now \in Int /\ begun \in Int /\ polled \in 0..Universe
    BY SpanAssumption, FrameAssumption DEF Init, None
  <2>2. batch \in [sym : Symbols, mins : SUBSET Int, end : Int]
    BY FirstSymbol DEF Init, NoBatch, None
  <2>3. decision \in [sym : Symbols, at : Int, begun : Int]
    BY FirstSymbol DEF Init, Nothing, None
  <2>4. cur \in [Symbols -> AnyCandle]
    BY NoCandleCounts DEF Init, NoCandles
  <2>5. /\ keys \in [Symbols -> SUBSET Int] /\ out \in [Symbols -> SUBSET Int]
        /\ rows \in [Symbols -> SUBSET AnyCandle]
    BY DEF Init, NoBars
  <2> QED BY <2>1, <2>2, <2>3, <2>4, <2>5 DEF Shapes
<1>2. ASSUME NEW s \in Symbols PROVE Sound(keys[s], rows[s], cur[s])
  <2>1. keys[s] = {} /\ rows[s] = {} /\ cur[s] = NoCandle
    BY DEF Init, NoBars, NoCandles
  <2> QED BY <2>1, NoCandleCounts DEF Sound
<1>3. batch.mins = {} /\ decision.at = None
  BY DEF Init, NoBatch, Nothing
<1> QED BY <1>1, <1>2, <1>3 DEF Feedable, DecidedIsStored

\* A step that touches neither keys nor candles, nor feeds what it should not.
LEMMA QuietStep ==
  ASSUME Feedable, UNCHANGED <<keys, rows, cur>>, Shapes',
         batch'.mins \cap keys[batch'.sym] = {},
         decision' = decision \/ decision' = Nothing
  PROVE  Feedable'
<1>1. \A s \in Symbols : Sound(keys[s], rows[s], cur[s])'
  BY DEF Feedable
<1>2. DecidedIsStored'
  BY DEF Feedable, DecidedIsStored, Nothing
<1> QED BY <1>1, <1>2 DEF Feedable

\* The empty batch is a batch.
LEMMA NoBatchIsEmpty == NoBatch \in [sym : Symbols, mins : SUBSET Int, end : Int] /\ NoBatch.mins = {}
  BY FirstSymbol DEF NoBatch, None

\* What is left of a batch
LEMMA TakeShrinks ==
  ASSUME Feedable, NEW bar, NextBar(bar), Take(bar)
  PROVE  /\ batch' \in [sym : Symbols, mins : SUBSET Int, end : Int]
         /\ bar \in Int /\ bar \notin keys[Sym] /\ Sym \in Symbols
         /\ \/ batch'.mins = {}
            \/ batch'.sym = Sym /\ batch'.mins = batch.mins \ {bar}
<1>1. batch \in [sym : Symbols, mins : SUBSET Int, end : Int] /\ bar \in batch.mins
  BY DEF Feedable, Shapes, NextBar
<1>2. bar \in Int /\ bar \notin keys[Sym] /\ Sym \in Symbols
  BY <1>1 DEF Feedable, Sym
<1>3. CASE batch.mins = {bar}
  BY <1>2, <1>3, NoBatchIsEmpty DEF Take
<1>4. CASE batch.mins # {bar}
  <2>1. batch' = [batch EXCEPT !.mins = @ \ {bar}]
    BY <1>4 DEF Take
  <2> QED BY <1>1, <1>2, <2>1 DEF Sym
<1> QED BY <1>3, <1>4

\* A bar is reserved and taken from the batch; its symbol's candles change, nobody else's.
LEMMA ReservedStep ==
  ASSUME Feedable, NEW bar, Reserve(bar), polled' = polled,
         rows' \in [Symbols -> SUBSET AnyCandle], cur' \in [Symbols -> AnyCandle],
         \A s \in Symbols \ {Sym} : rows'[s] = rows[s] /\ cur'[s] = cur[s],
         Sound(keys[Sym] \cup {bar}, rows'[Sym], cur'[Sym]),
         decision' \in [sym : Symbols, at : Int, begun : Int], DecidedIsStored'
  PROVE  Feedable'
<1>1. /\ NextBar(bar) /\ Take(bar) /\ keys' = [keys EXCEPT ![Sym] = @ \cup {bar}]
      /\ UNCHANGED <<now, out, begun>>
  BY DEF Reserve, market
<1>2. /\ batch' \in [sym : Symbols, mins : SUBSET Int, end : Int]
      /\ bar \in Int /\ bar \notin keys[Sym] /\ Sym \in Symbols
      /\ \/ batch'.mins = {}
         \/ batch'.sym = Sym /\ batch'.mins = batch.mins \ {bar}
  BY <1>1, TakeShrinks
<1>3. keys \in [Symbols -> SUBSET Int]
  BY DEF Feedable, Shapes
<1>4. /\ keys' \in [Symbols -> SUBSET Int] /\ keys'[Sym] = keys[Sym] \cup {bar}
      /\ \A s \in Symbols \ {Sym} : keys'[s] = keys[s]
  BY <1>1, <1>2, <1>3
<1>5. Shapes'
  BY <1>1, <1>2, <1>4 DEF Feedable, Shapes
<1>6. ASSUME NEW s \in Symbols PROVE Sound(keys'[s], rows'[s], cur'[s])
  BY <1>4, <1>6 DEF Feedable
<1>7. batch'.mins \cap keys'[batch'.sym] = {}
  BY <1>2, <1>4 DEF Feedable, Sym
<1> QED BY <1>5, <1>6, <1>7 DEF Feedable

\* A published bar is a minute.
LEMMA DueBars ==
  ASSUME NEW n \in Int, NEW b \in Due(n)
  PROVE  b[2] \in Int
<1> DEFINE past == (n - MaxLag)..(n - 1)
<1>1. b \in {x \in Symbols \X past : x[2] >= Start /\ x[2] \notin out[x[1]]}
  BY DEF Due
<1> HIDE DEF past
<1>2. b \in Symbols \X past
  BY <1>1
<1>3. b[2] \in past
  BY <1>2
<1>4. past \subseteq Int
  BY TroublesAssumption DEF past
<1> QED BY <1>3, <1>4

\* A step of the market or of the tick: it touches no candle.
LEMMA TickKeepsFeedable ==
  ASSUME Feedable, Pass \/ TickHalt \/ TickClosed \/ TickBegin \/ Poll \/ TickEnd
  PROVE  Feedable'
<1>1. /\ Shapes /\ now \in Int /\ begun \in Int /\ polled \in 0..Universe /\ Universe \in Nat
      /\ keys \in [Symbols -> SUBSET Int] /\ out \in [Symbols -> SUBSET Int]
      /\ batch.mins \cap keys[batch.sym] = {}
  BY FrameAssumption DEF Feedable, Shapes
<1>2. CASE Pass
  <2>1. PICK published \in SUBSET Due(now + 1) :
          out' = [s \in Symbols |-> out[s] \cup {b[2] : b \in {x \in published : x[1] = s}}]
    BY <1>2 DEF Pass
  <2>2. \A b \in published : b[2] \in Int
    BY <1>1, DueBars
  <2>3. out' \in [Symbols -> SUBSET Int]
    BY <1>1, <2>1, <2>2
  <2>4. now' \in Int /\ UNCHANGED <<keys, rows, cur, batch, decision, polled, begun>>
    BY <1>1, <1>2 DEF Pass, durable, process, builders
  <2> QED BY <1>1, <2>3, <2>4, QuietStep DEF Shapes
<1>3. CASE TickHalt \/ TickClosed
  <2>1. UNCHANGED <<keys, rows, cur, batch, decision, polled, begun, now, out>>
    BY <1>3 DEF TickHalt, TickClosed, durable, process, builders, market
  <2> QED BY <1>1, <2>1, QuietStep DEF Shapes
<1>4. CASE TickBegin
  <2>1. UNCHANGED <<keys, rows, cur, batch, decision, polled, now, out>> /\ begun' = now
    BY <1>4 DEF TickBegin, durable, builders, market
  <2> QED BY <1>1, <2>1, QuietStep DEF Shapes
<1>5. CASE Poll
  <2>1. /\ UNCHANGED <<keys, rows, cur, decision, begun, now, out>>
        /\ polled < Universe /\ polled' = polled + 1
    BY <1>5 DEF Poll, durable, builders, market
  <2>2. polled' \in 0..Universe /\ polled + 1 \in Symbols
    BY <1>1, <2>1 DEF Symbols
  <2>3. \/ batch' = NoBatch \/ batch' = batch
        \/ batch' = [sym |-> polled + 1, mins |-> Polled(polled + 1, now - 1), end |-> now - 1]
    BY <1>5 DEF Poll
  <2>4. CASE batch' = NoBatch \/ batch' = batch
    BY <1>1, <2>1, <2>2, <2>4, NoBatchIsEmpty, QuietStep DEF Shapes
  <2>5. CASE batch' = [sym |-> polled + 1, mins |-> Polled(polled + 1, now - 1), end |-> now - 1]
    <3>1. /\ Polled(polled + 1, now - 1) \subseteq Int
          /\ Polled(polled + 1, now - 1) \cap keys[polled + 1] = {}
      BY <1>1, <2>2 DEF Polled
    <3>2. batch' \in [sym : Symbols, mins : SUBSET Int, end : Int]
      BY <1>1, <2>2, <2>5, <3>1
    <3> QED BY <1>1, <2>1, <2>2, <2>5, <3>1, <3>2, QuietStep DEF Shapes
  <2> QED BY <2>3, <2>4, <2>5
<1>6. CASE TickEnd
  <2>1. /\ UNCHANGED <<keys, rows, cur, batch, now, out>>
        /\ begun' = None /\ polled' = 0 /\ decision' = Nothing
    BY <1>6 DEF TickEnd, durable, builders, market
  <2>2. begun' \in Int /\ polled' \in 0..Universe
        /\ decision' \in [sym : Symbols, at : Int, begun : Int]
    BY <1>1, <2>1, FirstSymbol DEF None, Nothing
  <2> QED BY <1>1, <2>1, <2>2, QuietStep DEF Shapes
<1> QED BY <1>2, <1>3, <1>4, <1>5, <1>6 DEF Feedable

\* Feeding a bar leaves every candle sound.
LEMMA FeedKeepsFeedable ==
  ASSUME Feedable, NEW bar, Feed(bar)
  PROVE  Feedable'
<1>1. /\ Shapes /\ keys \in [Symbols -> SUBSET Int]
      /\ rows \in [Symbols -> SUBSET AnyCandle] /\ cur \in [Symbols -> AnyCandle]
      /\ batch \in [sym : Symbols, mins : SUBSET Int, end : Int]
      /\ decision \in [sym : Symbols, at : Int, begun : Int] /\ begun \in Int
  BY DEF Feedable, Shapes
<1>2. NextBar(bar) /\ Take(bar)
  BY DEF Feed, FeedUnreserved, FeedDropped, FeedGrows, FeedCompletes, Accept, Reserve
<1>3. /\ bar \in Int /\ bar \notin keys[Sym] /\ Sym \in Symbols
      /\ batch' \in [sym : Symbols, mins : SUBSET Int, end : Int]
      /\ \/ batch'.mins = {}
         \/ batch'.sym = Sym /\ batch'.mins = batch.mins \ {bar}
  BY <1>2, TakeShrinks
<1>4. Sound(keys[Sym], rows[Sym], cur[Sym]) /\ DecidedIsStored
  BY <1>3 DEF Feedable
<1>5. CASE FeedUnreserved(bar)
  <2>1. UNCHANGED <<keys, rows, cur, decision, polled, begun, now, out>>
    BY <1>5 DEF FeedUnreserved, durable, builders, market
  <2>2. batch'.mins \cap keys[batch'.sym] = {}
    BY <1>3 DEF Feedable, Sym
  <2>3. Shapes'
    BY <1>1, <1>3, <2>1 DEF Shapes
  <2> QED BY <2>1, <2>2, <2>3, QuietStep
<1>6. CASE FeedDropped(bar)
  <2>1. UNCHANGED <<rows, cur, decision, polled>> /\ Reserve(bar)
    BY <1>6 DEF FeedDropped, Reserve
  <2>2. DecidedIsStored'
    BY <1>4, <2>1 DEF DecidedIsStored
  <2>3. Sound(keys[Sym] \cup {bar}, rows[Sym], cur[Sym])
    BY <1>4, SoundWithKey
  <2> QED BY <1>1, <2>1, <2>2, <2>3, ReservedStep
<1>7. CASE FeedGrows(bar)
  <2>1. /\ UNCHANGED <<rows, decision, polled>> /\ Reserve(bar)
        /\ cur' = [cur EXCEPT ![Sym] = IF @.at = None THEN Begin(bar) ELSE Grow(@, bar)]
    BY <1>7 DEF FeedGrows, Accept, Reserve
  <2>2. DecidedIsStored'
    BY <1>4, <2>1 DEF DecidedIsStored
  <2>3. cur'[Sym] = Begin(bar) \/ cur'[Sym] = Grow(cur[Sym], bar)
    BY <1>1, <1>3, <2>1
  <2>4. cur[Sym] \in AnyCandle
    BY <1>1, <1>3
  <2>5. Begin(bar) \in AnyCandle
    BY <1>3, BeginCounts
  <2>6. Grow(cur[Sym], bar) \in AnyCandle
    BY <1>3, <1>4, <2>4, GrowCounts DEF Sound
  <2>7. Sound(keys[Sym] \cup {bar}, rows[Sym], Begin(bar))
    BY <1>3, <1>4, BeginIsSound
  <2>8. Sound(keys[Sym] \cup {bar}, rows[Sym], Grow(cur[Sym], bar))
    BY <1>3, <1>4, <2>4, GrowIsSound
  <2>9. /\ cur' \in [Symbols -> AnyCandle]
        /\ \A s \in Symbols \ {Sym} : rows'[s] = rows[s] /\ cur'[s] = cur[s]
        /\ Sound(keys[Sym] \cup {bar}, rows'[Sym], cur'[Sym])
    BY <1>1, <1>3, <2>1, <2>3, <2>5, <2>6, <2>7, <2>8
  <2> QED BY <1>1, <2>1, <2>2, <2>9, ReservedStep
<1>8. CASE FeedCompletes(bar)
  <2> DEFINE old == cur[Sym]
  <2>1. /\ polled' = polled /\ Reserve(bar) /\ cur' = [cur EXCEPT ![Sym] = Begin(bar)]
        /\ \/ rows' = Stored(Sym, old) /\ Decide(Sym, old)
           \/ UNCHANGED <<rows, decision>>
    BY <1>8 DEF FeedCompletes, Accept, Reserve
  <2>2. old \in AnyCandle /\ Begin(bar) \in AnyCandle
    BY <1>1, <1>3, BeginCounts
  <2>3. /\ cur' \in [Symbols -> AnyCandle] /\ cur'[Sym] = Begin(bar)
        /\ \A s \in Symbols \ {Sym} : cur'[s] = cur[s]
    BY <1>1, <1>3, <2>1, <2>2
  <2>4. /\ Sound(keys[Sym] \cup {bar}, rows[Sym], Begin(bar))
        /\ Sound(keys[Sym] \cup {bar}, rows[Sym] \cup {old}, Begin(bar))
    BY <1>3, <1>4, BeginIsSound
  <2>5. CASE UNCHANGED <<rows, decision>>
    <3>1. DecidedIsStored'
      BY <1>4, <2>5 DEF DecidedIsStored
    <3> QED BY <1>1, <2>1, <2>3, <2>4, <2>5, <3>1, ReservedStep
  <2>6. CASE rows' = Stored(Sym, old) /\ Decide(Sym, old)
    <3>1. rows' = rows \/ rows' = [rows EXCEPT ![Sym] = @ \cup {old}]
      BY <2>6 DEF Stored
    <3>2. /\ rows' \in [Symbols -> SUBSET AnyCandle]
          /\ rows'[Sym] = rows[Sym] \/ rows'[Sym] = rows[Sym] \cup {old}
          /\ \A s \in Symbols \ {Sym} : rows'[s] = rows[s]
          /\ \A s \in Symbols : rows[s] \subseteq rows'[s]
      BY <1>1, <1>3, <2>2, <3>1
    <3>3. \E r \in rows'[Sym] : r.at = old.at
      <4>1. CASE \E r \in rows[Sym] : r.at = old.at
        BY <1>3, <3>2, <4>1
      <4>2. CASE ~ \E r \in rows[Sym] : r.at = old.at
        <5>1. rows' = [rows EXCEPT ![Sym] = @ \cup {old}]
          BY <2>6, <4>2 DEF Stored
        <5>2. old \in rows'[Sym]
          BY <1>1, <1>3, <5>1
        <5> QED BY <5>2
      <4> QED BY <4>1, <4>2
    <3>4. decision' = decision \/ decision' = [sym |-> Sym, at |-> old.at, begun |-> begun]
      BY <2>6 DEF Decide
    <3>5. decision' \in [sym : Symbols, at : Int, begun : Int]
      <4>1. old.at \in Int
        BY <2>2 DEF AnyCandle
      <4> QED BY <1>1, <1>3, <3>4, <4>1
    <3>6. DecidedIsStored'
      <4>1. CASE decision' = decision
        <5>1. decision.sym \in Symbols
          BY <1>1
        <5> QED BY <1>4, <3>2, <4>1, <5>1 DEF DecidedIsStored
      <4>2. CASE decision' = [sym |-> Sym, at |-> old.at, begun |-> begun]
        <5>1. decision'.sym = Sym /\ decision'.at = old.at
          BY <4>2
        <5> QED BY <3>3, <5>1 DEF DecidedIsStored
      <4> QED BY <3>4, <4>1, <4>2
    <3>7. Sound(keys[Sym] \cup {bar}, rows'[Sym], cur'[Sym])
      BY <2>3, <2>4, <3>2
    <3> QED BY <2>1, <2>3, <3>2, <3>5, <3>6, <3>7, ReservedStep
  <2> QED BY <2>1, <2>5, <2>6
<1> QED BY <1>5, <1>6, <1>7, <1>8 DEF Feed

\* A crash forgets the candles under construction; it may leave a key without a candle.
LEMMA CrashKeepsFeedable ==
  ASSUME Feedable, Crash
  PROVE  Feedable'
<1>1. /\ keys \in [Symbols -> SUBSET Int] /\ rows \in [Symbols -> SUBSET AnyCandle]
      /\ batch \in [sym : Symbols, mins : SUBSET Int, end : Int]
      /\ out \in [Symbols -> SUBSET Int] /\ now \in Int
  BY DEF Feedable, Shapes
<1>2. /\ cur' = NoCandles /\ begun' = None /\ polled' = 0 /\ batch' = NoBatch
      /\ decision' = Nothing /\ UNCHANGED <<now, out, rows>>
  BY DEF Crash, market
<1>3. keys' = keys \/ \E bar \in Int : keys' = [keys EXCEPT ![Sym] = @ \cup {bar}]
  BY <1>1 DEF Crash
<1>4. keys' \in [Symbols -> SUBSET Int] /\ \A s \in Symbols : keys[s] \subseteq keys'[s]
  <2>1. Sym \in Symbols
    BY <1>1 DEF Sym
  <2> QED BY <1>1, <1>3, <2>1
<1>5. Shapes'
  <2>1. cur' \in [Symbols -> AnyCandle]
    BY <1>2, NoCandleCounts DEF NoCandles
  <2>2. /\ polled' \in 0..Universe /\ begun' \in Int
        /\ decision' \in [sym : Symbols, at : Int, begun : Int]
        /\ batch' \in [sym : Symbols, mins : SUBSET Int, end : Int]
    BY <1>2, FirstSymbol, FrameAssumption, NoBatchIsEmpty DEF None, Nothing
  <2> QED BY <1>1, <1>2, <1>4, <2>1, <2>2 DEF Shapes
<1>6. ASSUME NEW s \in Symbols PROVE Sound(keys'[s], rows'[s], cur'[s])
  <2>1. cur'[s] = NoCandle /\ NoCandle.mins = {} /\ Counted(keys'[s], NoCandle)
    BY <1>2, NoCandleCounts DEF NoCandles, NoCandle
  <2>2. Sound(keys[s], rows[s], cur[s])
    BY DEF Feedable
  <2>3. \A r \in rows[s] : Counted(keys'[s], r)
    BY <1>4, <2>2 DEF Sound, Counted
  <2> QED BY <1>2, <2>1, <2>2, <2>3 DEF Sound
<1>7. DecidedIsStored' /\ batch'.mins = {}
  BY <1>2, NoBatchIsEmpty DEF DecidedIsStored, Nothing
<1> QED BY <1>5, <1>6, <1>7 DEF Feedable

\* The strengthening is inductive.
LEMMA FeedableStep == Feedable /\ [Next]_vars => Feedable'
<1> SUFFICES ASSUME Feedable, [Next]_vars PROVE Feedable'
  OBVIOUS
<1>1. CASE Pass \/ TickHalt \/ TickClosed \/ TickBegin \/ Poll \/ TickEnd
  BY <1>1, TickKeepsFeedable
<1>2. CASE \E bar \in batch.mins : Feed(bar)
  BY <1>2, FeedKeepsFeedable
<1>3. CASE Crash
  BY <1>3, CrashKeepsFeedable
<1>4. CASE UNCHANGED vars
  BY <1>4 DEF vars, Feedable, Shapes, DecidedIsStored
<1> QED BY <1>1, <1>2, <1>3, <1>4 DEF Next

\* No bar counts twice, whatever the windows, the restarts and the failed writes: the
\* durable key of a bar comes before the candle.
THEOREM BarsCountOnce == Spec => []NoBarTwice
<1>1. Feedable => NoBarTwice
  BY DEF Feedable, NoBarTwice, Candles, Sound, Counted
<1> QED BY <1>1, FeedableInit, FeedableStep, PTL DEF Spec

\* What the strategies decided on is in the candles table: a candle that cannot be saved
\* is not decided on.
THEOREM DecisionsAreStored == Spec => []DecidedIsStored
<1>1. Feedable => DecidedIsStored
  BY DEF Feedable
<1> QED BY <1>1, FeedableInit, FeedableStep, PTL DEF Spec

-----------------------------------------------------------------------------
(* Types                                                                    *)

\* The bounds are integers.
LEMMA Bounds ==
  /\ Start \in Nat /\ Last \in Nat /\ Start <= Last /\ Minutes = Start..Last
  /\ Window \in Nat /\ Frame \in Nat \ {0} /\ MaxAge \in Nat /\ Universe \in Nat \ {0}
  /\ MaxLag \in Nat /\ MaxGaps \in Nat /\ MaxTroubles \in Nat
  /\ None = -1 /\ None \in Int /\ Minutes \subseteq Nat /\ None \notin Minutes
  BY FrameAssumption, SpanAssumption, TroublesAssumption DEF Minutes, None

\* A candle begins at most a frame before each of its minutes, and not before midnight.
LEMMA BucketBounds ==
  ASSUME NEW m \in Nat
  PROVE  Bucket(m) \in Nat /\ Bucket(m) <= m /\ m < Bucket(m) + Frame
<1>1. m % Frame \in Nat /\ m % Frame < Frame /\ m % Frame <= m
  BY FrameAssumption
<1> QED BY <1>1, FrameAssumption DEF Bucket

\* The names of candles are minutes.
LEMMA BucketsAreNat == Buckets \subseteq Nat /\ None \notin Buckets
<1>1. \A m \in Minutes : Bucket(m) \in Nat
  BY BucketBounds, Bounds
<1>2. Buckets \subseteq Nat
  BY <1>1 DEF Buckets
<1> QED BY <1>2 DEF None

\* The types hold when the process starts.
LEMMA TypedInit == Init => TypeOK
<1> SUFFICES ASSUME Init PROVE TypeOK
  OBVIOUS
<1>1. now \in Minutes /\ polled \in 0..Universe /\ troubles \in 0..MaxTroubles /\ gaps \in 0..MaxGaps
  BY Bounds DEF Init
<1>2. NoBars \in [Symbols -> SUBSET Minutes] /\ rows \in [Symbols -> SUBSET Candle]
  BY DEF NoBars, Init
<1>3. /\ NoTime \in [Symbols -> Minutes \cup {None}]
      /\ cur \in [Symbols -> Candle \cup {NoCandle}]
  BY DEF NoTime, NoCandles, Init
<1>4. /\ NoBatch \in [sym : Symbols, mins : SUBSET Minutes, end : Nat \cup {None}]
      /\ Nothing \in [sym : Symbols, at : Buckets \cup {None}, begun : Minutes \cup {None}]
  BY FirstSymbol DEF NoBatch, Nothing
<1> QED BY <1>1, <1>2, <1>3, <1>4 DEF Init, TypeOK

\* A bar that is published covers a minute that is over and that was not published before.
LEMMA DueMinutes ==
  ASSUME TypeOK, now < Last, NEW n, n = now + 1, NEW b \in Due(n)
  PROVE  b[1] \in Symbols /\ b[2] \in Minutes /\ b[2] <= now /\ b[2] \notin out[b[1]]
<1> DEFINE past == (n - MaxLag)..(n - 1)
<1>1. b \in {x \in Symbols \X past : x[2] >= Start /\ x[2] \notin out[x[1]]}
  BY DEF Due
<1> HIDE DEF past
<1>2. b[1] \in Symbols /\ b[2] \in past /\ b[2] >= Start /\ b[2] \notin out[b[1]]
  BY <1>1
<1>3. now \in Start..Last
  BY DEF TypeOK, Minutes
<1>4. \A k \in past : k \in Int /\ k <= now
  BY <1>3, Bounds DEF past
<1> QED BY <1>2, <1>3, <1>4, Bounds

\* The turn of a minute, symbol by symbol: the new bars are of minutes that are over, and
\* one that is not counted as late comes in time and after every other.
LEMMA PassPublishes ==
  ASSUME TypeOK, Pass
  PROVE  /\ now < Last /\ now' = now + 1
         /\ \E New \in [Symbols -> SUBSET Minutes] :
              /\ gaps' = gaps + Cardinality({s \in Symbols : now \notin New[s]})
              /\ out' = [s \in Symbols |-> out[s] \cup New[s]]
              /\ late' = [s \in Symbols |-> late[s] \cup Late(s, now + 1, New[s])]
              /\ \A s \in Symbols : \A m \in New[s] : m <= now /\ m \notin out[s]
<1>1. /\ now < Last /\ now' = now + 1 /\ now \in Minutes
  BY DEF Pass, TypeOK
<1>2. PICK published \in SUBSET Due(now + 1) :
        LET New(s) == {b[2] : b \in {x \in published : x[1] = s}}
        IN /\ gaps' = gaps + Cardinality({s \in Symbols : now \notin New(s)})
           /\ out' = [s \in Symbols |-> out[s] \cup New(s)]
           /\ late' = [s \in Symbols |-> late[s] \cup Late(s, now + 1, New(s))]
  BY DEF Pass
<1> DEFINE Of(s) == {b[2] : b \in {x \in published : x[1] = s}}
           New == [s \in Symbols |-> Of(s)]
<1>3. \A s \in Symbols : \A m \in Of(s) : m \in Minutes /\ m <= now /\ m \notin out[s]
  <2> SUFFICES ASSUME NEW s \in Symbols, NEW m \in Of(s)
               PROVE  m \in Minutes /\ m <= now /\ m \notin out[s]
    OBVIOUS
  <2>1. PICK b \in published : b[1] = s /\ m = b[2]
    OBVIOUS
  <2> QED BY <1>1, <2>1, DueMinutes
<1>4. New \in [Symbols -> SUBSET Minutes]
  BY <1>3
<1>5. \A s \in Symbols : New[s] = Of(s)
  OBVIOUS
<1>6. /\ gaps' = gaps + Cardinality({s \in Symbols : now \notin Of(s)})
      /\ out' = [s \in Symbols |-> out[s] \cup Of(s)]
      /\ late' = [s \in Symbols |-> late[s] \cup Late(s, now + 1, Of(s))]
  BY <1>2
<1> HIDE DEF Of, New
<1>7. {s \in Symbols : now \notin Of(s)} = {s \in Symbols : now \notin New[s]}
  BY <1>5
<1>8. /\ out' = [s \in Symbols |-> out[s] \cup New[s]]
      /\ late' = [s \in Symbols |-> late[s] \cup Late(s, now + 1, New[s])]
  BY <1>5, <1>6
<1> QED BY <1>1, <1>3, <1>4, <1>5, <1>6, <1>7, <1>8

\* There are finitely many symbols, and so a natural number of gaps.
LEMMA SymbolsFinite ==
  ASSUME NEW S \in SUBSET Symbols
  PROVE  Cardinality(S) \in Nat
<1>1. IsFiniteSet(Symbols)
  BY FrameAssumption, FS_Interval DEF Symbols
<1>2. IsFiniteSet(S)
  BY <1>1, FS_Subset
<1> QED BY <1>2, FS_CardinalityType

\* A turn of the minute keeps the types.
LEMMA PassTyped ==
  ASSUME TypeOK, Pass
  PROVE  TypeOK'
<1>1. PICK New \in [Symbols -> SUBSET Minutes] :
        /\ gaps' = gaps + Cardinality({s \in Symbols : now \notin New[s]})
        /\ out' = [s \in Symbols |-> out[s] \cup New[s]]
        /\ late' = [s \in Symbols |-> late[s] \cup Late(s, now + 1, New[s])]
  BY PassPublishes
<1>2. now' \in Minutes
  <2>1. now < Last /\ now' = now + 1
    BY PassPublishes
  <2> QED BY <2>1, Bounds DEF TypeOK, Minutes
<1>3. gaps' \in 0..MaxGaps
  <2>1. gaps' <= MaxGaps
    BY DEF Pass
  <2>2. Cardinality({s \in Symbols : now \notin New[s]}) \in Nat
    BY SymbolsFinite
  <2> HIDE DEF Symbols
  <2> QED BY <1>1, <2>1, <2>2, Bounds DEF TypeOK
<1>4. out' \in [Symbols -> SUBSET Minutes]
  BY <1>1 DEF TypeOK
<1>5. late' \in [Symbols -> SUBSET Minutes]
  <2>1. \A s \in Symbols : Late(s, now + 1, New[s]) \subseteq Minutes
    BY DEF Late
  <2> QED BY <1>1, <2>1 DEF TypeOK
<1>6. /\ UNCHANGED <<keys, rows, seen, fed, first, cur, latest, begun, polled, batch, decision>>
      /\ UNCHANGED <<mode, troubles>>
  BY DEF Pass, durable, process, builders
<1> QED BY <1>2, <1>3, <1>4, <1>5, <1>6 DEF TypeOK

\* So does the tick, around the feeding of bars.
LEMMA TickTyped ==
  ASSUME TypeOK, TickHalt \/ TickClosed \/ TickBegin \/ Poll \/ TickEnd
  PROVE  TypeOK'
<1>1. CASE TickHalt \/ TickClosed
  BY <1>1 DEF TypeOK, TickHalt, TickClosed, market, durable, process, builders
<1>2. CASE TickBegin
  BY <1>2 DEF TypeOK, TickBegin, market, durable, builders
<1>3. CASE TickEnd
  <2>1. Nothing \in [sym : Symbols, at : Buckets \cup {None}, begun : Minutes \cup {None}]
    BY FirstSymbol DEF Nothing
  <2>2. begun' \in Minutes \cup {None} /\ polled' \in 0..Universe /\ decision' = Nothing
    BY <1>3, Bounds DEF TickEnd
  <2> QED BY <1>3, <2>1, <2>2 DEF TypeOK, TickEnd, market, durable, builders
<1>4. CASE Poll
  <2>1. polled' \in 0..Universe /\ polled + 1 \in Symbols
    BY <1>4, Bounds DEF TypeOK, Poll, Symbols
  <2>2. now - 1 \in Nat \cup {None}
    BY Bounds DEF TypeOK, Minutes
  <2>3. Polled(polled + 1, now - 1) \subseteq Minutes
    BY <2>1 DEF TypeOK, Polled
  <2>4. batch' \in [sym : Symbols, mins : SUBSET Minutes, end : Nat \cup {None}]
    <3>1. NoBatch \in [sym : Symbols, mins : SUBSET Minutes, end : Nat \cup {None}]
      BY FirstSymbol DEF NoBatch
    <3>2. [sym |-> polled + 1, mins |-> Polled(polled + 1, now - 1), end |-> now - 1]
            \in [sym : Symbols, mins : SUBSET Minutes, end : Nat \cup {None}]
      BY <2>1, <2>2, <2>3
    <3>3. \/ batch' = NoBatch \/ batch' = batch
          \/ batch' = [sym |-> polled + 1, mins |-> Polled(polled + 1, now - 1), end |-> now - 1]
      BY <1>4 DEF Poll
    <3> QED BY <3>1, <3>2, <3>3 DEF TypeOK
  <2>5. troubles' \in 0..MaxTroubles
    BY <1>4, Bounds DEF TypeOK, Poll, Trouble
  <2> QED BY <1>4, <2>1, <2>4, <2>5 DEF TypeOK, Poll, market, durable, builders
<1> QED BY <1>1, <1>2, <1>3, <1>4

\* What is left of a batch is one.
LEMMA TakeTyped ==
  ASSUME TypeOK, NEW bar, NextBar(bar), Take(bar)
  PROVE  /\ batch' \in [sym : Symbols, mins : SUBSET Minutes, end : Nat \cup {None}]
         /\ bar \in Minutes /\ bar \in batch.mins /\ Sym \in Symbols
         /\ batch'.mins = batch.mins \ {bar}
         /\ batch'.mins # {} => batch'.sym = Sym
<1>1. batch \in [sym : Symbols, mins : SUBSET Minutes, end : Nat \cup {None}] /\ bar \in batch.mins
  BY DEF TypeOK, NextBar
<1>2. NoBatch \in [sym : Symbols, mins : SUBSET Minutes, end : Nat \cup {None}] /\ NoBatch.mins = {}
  BY FirstSymbol DEF NoBatch
<1>3. bar \in Minutes /\ Sym \in Symbols
  BY <1>1 DEF Sym
<1>4. CASE batch.mins = {bar}
  BY <1>1, <1>2, <1>3, <1>4 DEF Take
<1>5. CASE batch.mins # {bar}
  <2>1. batch' = [batch EXCEPT !.mins = @ \ {bar}]
    BY <1>5 DEF Take
  <2> QED BY <1>1, <1>3, <2>1 DEF Sym
<1> QED BY <1>4, <1>5

\* Feeding a bar keeps the types.
LEMMA FeedTyped ==
  ASSUME TypeOK, NEW bar, Feed(bar)
  PROVE  TypeOK'
<1>1. NextBar(bar) /\ Take(bar)
  BY DEF Feed, FeedUnreserved, FeedDropped, FeedGrows, FeedCompletes, Accept, Reserve
<1>2. /\ batch' \in [sym : Symbols, mins : SUBSET Minutes, end : Nat \cup {None}]
      /\ bar \in Minutes /\ Sym \in Symbols
  BY <1>1, TakeTyped
<1>3. troubles' \in 0..MaxTroubles
  <2>1. troubles' = troubles \/ Trouble
    BY DEF Feed, FeedUnreserved, FeedDropped, FeedGrows, FeedCompletes
  <2> QED BY <2>1, Bounds DEF Trouble, TypeOK
<1>4. CASE FeedUnreserved(bar)
  BY <1>2, <1>3, <1>4 DEF TypeOK, FeedUnreserved, market, durable, builders
<1>5. CASE Reserve(bar)
  <2>1. /\ keys' \in [Symbols -> SUBSET Minutes] /\ seen' \in [Symbols -> SUBSET Minutes]
        /\ latest' \in Minutes \cup {None}
    BY <1>2, <1>5 DEF TypeOK, Reserve
  <2>2. UNCHANGED <<now, out, late, gaps, begun, polled, mode>>
    BY <1>5 DEF Reserve, market
  <2>3. CASE FeedDropped(bar)
    BY <1>2, <1>3, <2>1, <2>2, <2>3 DEF TypeOK, FeedDropped
  <2>4. Begin(bar) \in Candle
    BY <1>2 DEF Begin, Candle, Buckets
  <2>5. CASE Accept(bar)
    <3>1. fed' \in [Symbols -> Minutes \cup {None}] /\ first' \in [Symbols -> Minutes \cup {None}]
      BY <1>2, <2>5 DEF TypeOK, Accept
    <3>2. cur[Sym].at # None => cur[Sym] \in Candle
      BY <1>2 DEF TypeOK, NoCandle
    <3>3. CASE FeedGrows(bar)
      <4>1. cur[Sym].at # None => Grow(cur[Sym], bar) \in Candle
        <5> SUFFICES ASSUME cur[Sym] \in Candle PROVE Grow(cur[Sym], bar) \in Candle
          BY <3>2
        <5>1. cur[Sym].mins \cup {bar} \in SUBSET Minutes /\ cur[Sym].bars + 1 \in Nat
          BY <1>2 DEF Candle
        <5> QED BY <5>1 DEF Grow, Candle
      <4>2. cur' = [cur EXCEPT ![Sym] = IF @.at = None THEN Begin(bar) ELSE Grow(@, bar)]
        BY <3>3 DEF FeedGrows
      <4>3. cur' \in [Symbols -> Candle \cup {NoCandle}]
        BY <1>2, <2>4, <4>1, <4>2 DEF TypeOK
      <4>4. UNCHANGED <<rows, decision>>
        BY <3>3 DEF FeedGrows
      <4> QED BY <1>2, <1>3, <2>1, <2>2, <3>1, <4>3, <4>4 DEF TypeOK
    <3>4. CASE FeedCompletes(bar)
      <4>1. cur' \in [Symbols -> Candle \cup {NoCandle}] /\ cur[Sym] \in Candle
        BY <1>2, <2>4, <3>2, <3>4 DEF TypeOK, FeedCompletes
      <4>2. rows' = rows \/ rows' = [rows EXCEPT ![Sym] = @ \cup {cur[Sym]}]
        BY <3>4 DEF FeedCompletes, Stored
      <4>3. rows' \in [Symbols -> SUBSET Candle]
        BY <1>2, <4>1, <4>2 DEF TypeOK
      <4>4. decision' = decision \/ decision' = [sym |-> Sym, at |-> cur[Sym].at, begun |-> begun]
        BY <3>4 DEF FeedCompletes, Decide
      <4>5. cur[Sym].at \in Buckets /\ begun \in Minutes \cup {None}
        BY <4>1 DEF Candle, TypeOK
      <4>6. decision' \in [sym : Symbols, at : Buckets \cup {None}, begun : Minutes \cup {None}]
        BY <1>2, <4>4, <4>5 DEF TypeOK
      <4> QED BY <1>2, <1>3, <2>1, <2>2, <3>1, <4>1, <4>3, <4>6 DEF TypeOK
    <3> QED BY <1>4, <2>3, <3>3, <3>4 DEF Feed
  <2> QED BY <1>4, <2>3, <2>5 DEF Feed, FeedGrows, FeedCompletes
<1> QED BY <1>4, <1>5 DEF Feed, FeedDropped, FeedGrows, FeedCompletes, Accept

\* So does a crash.
LEMMA CrashTyped ==
  ASSUME TypeOK, Crash
  PROVE  TypeOK'
<1>1. /\ NoBars \in [Symbols -> SUBSET Minutes] /\ NoTime \in [Symbols -> Minutes \cup {None}]
      /\ NoCandles \in [Symbols -> Candle \cup {NoCandle}]
  BY DEF NoBars, NoTime, NoCandles
<1>2. /\ NoBatch \in [sym : Symbols, mins : SUBSET Minutes, end : Nat \cup {None}]
      /\ Nothing \in [sym : Symbols, at : Buckets \cup {None}, begun : Minutes \cup {None}]
  BY FirstSymbol DEF NoBatch, Nothing
<1>3. keys' \in [Symbols -> SUBSET Minutes]
  <2>1. batch.mins \subseteq Minutes
    BY DEF TypeOK
  <2>2. keys' = keys \/ \E bar \in Minutes : keys' = [keys EXCEPT ![Sym] = @ \cup {bar}]
    BY <2>1 DEF Crash
  <2> QED BY <2>2 DEF TypeOK
<1>4. troubles' \in 0..MaxTroubles /\ 0 \in 0..Universe
  BY Bounds DEF Crash, Trouble, TypeOK
<1>5. UNCHANGED <<now, out, late, gaps, rows, mode>>
  BY DEF Crash, market
<1> QED BY <1>1, <1>2, <1>3, <1>4, <1>5 DEF TypeOK, Crash

\* The types are inductive as they stand.
LEMMA TypedStep == TypeOK /\ [Next]_vars => TypeOK'
<1> SUFFICES ASSUME TypeOK, [Next]_vars PROVE TypeOK'
  OBVIOUS
<1>1. CASE UNCHANGED vars
  BY <1>1 DEF vars, TypeOK
<1>2. CASE Next
  BY <1>2, PassTyped, TickTyped, FeedTyped, CrashTyped DEF Next
<1> QED BY <1>1, <1>2

\* Types of the feed, whatever is published when and whatever fails: in particular a
\* candle that exists is always named by the frame of a minute, which the reads of the
\* candles table go by.
THEOREM FeedIsTyped == Spec => []TypeOK
  BY TypedInit, TypedStep, PTL DEF Spec

-----------------------------------------------------------------------------
(* How old the data of a decision is                                        *)

\* How far a symbol has been fed: the candle under construction is that of the last bar.
InOrder(s) ==
  /\ seen[s] \subseteq keys[s] /\ keys[s] \subseteq out[s]
  /\ \A m \in out[s] : m < now
  /\ \A m \in seen[s] : m <= fed[s]
  /\ IF fed[s] = None
       THEN first[s] = None /\ seen[s] = {} /\ cur[s].at = None
       ELSE /\ fed[s] \in seen[s] /\ first[s] # None /\ first[s] <= fed[s]
            /\ cur[s].at = Bucket(fed[s])

\* The tick under way and what it feeds
Polling ==
  /\ begun # None => now \in {begun, begun + 1}
  /\ begun = None => polled = 0
  /\ batch.mins \subseteq out[batch.sym]
  /\ Feeding => /\ begun # None /\ batch.sym = polled
                /\ \A m \in batch.mins : m >= begun - 1 - Window

\* The last market event of the process is not later than the last bar of some symbol.
Remembered ==
  IF latest = None THEN \A s \in Symbols : fed[s] = None
  ELSE latest < now /\ \E s \in Symbols : latest <= fed[s]

\* What the health check has established for the tick under way
Judged ==
  begun # None =>
    \/ \E r \in Symbols : 60 * (begun - fed[r]) <= MaxAge
    \/ \A r \in Symbols : fed[r] # None => fed[r] >= begun - 1 - Window

\* The strengthening of DecisionFresh
Timely ==
  (\A s \in Symbols : InOrder(s)) /\ Polling /\ Remembered /\ Judged /\ DecisionFresh

\* Recent of DecisionFresh, for a tick that began at b
Fresh(b, m) == b - m <= Window \/ 60 * (b - m) <= MaxAge

\* What is fresh stays so when it grows.
LEMMA FreshGrows ==
  ASSUME NEW b \in Int, NEW m \in Int, NEW n \in Int, m <= n, Fresh(b, m)
  PROVE  Fresh(b, n)
  BY Bounds DEF Fresh

\* DecisionFresh in these words
LEMMA FreshMeans ==
  DecisionFresh <=>
    (decision.at # None =>
       \/ Fresh(decision.begun, decision.at + Frame)
       \/ \E r \in Symbols \ {decision.sym} : Fresh(decision.begun, fed[r]))
  BY DEF DecisionFresh, Fresh

\* Time is a number.
LEMMA Times ==
  ASSUME TypeOK
  PROVE  /\ now \in Nat /\ latest \in Int /\ begun \in Int /\ polled \in Int
         /\ begun # None => begun \in Nat
         /\ decision.begun \in Int /\ decision.at \in Int
         /\ \A s \in Symbols : /\ fed[s] \in Int /\ first[s] \in Int /\ fed[s] >= None
                               /\ fed[s] # None => fed[s] \in Nat
                               /\ out[s] \subseteq Nat /\ seen[s] \subseteq Nat
         /\ batch.mins \subseteq Nat /\ batch.sym \in Symbols
<1>1. /\ now \in Minutes /\ latest \in Minutes \cup {None} /\ begun \in Minutes \cup {None}
      /\ polled \in 0..Universe
  BY DEF TypeOK
<1>2. decision.begun \in Minutes \cup {None} /\ decision.at \in Buckets \cup {None}
  BY DEF TypeOK
<1>3. \A s \in Symbols : /\ fed[s] \in Minutes \cup {None} /\ first[s] \in Minutes \cup {None}
                         /\ out[s] \subseteq Minutes /\ seen[s] \subseteq Minutes
  BY DEF TypeOK
<1>4. batch.mins \subseteq Minutes /\ batch.sym \in Symbols
  BY DEF TypeOK
<1>5. Minutes \subseteq Nat /\ Buckets \subseteq Nat /\ None = -1
  BY Bounds, BucketsAreNat
<1>6. \A m \in Minutes \cup {None} : m \in Int /\ m >= None /\ (m # None => m \in Nat)
  BY <1>5
<1>7. \A m \in Buckets \cup {None} : m \in Int
  BY <1>5
<1>8. now \in Nat /\ polled \in Int /\ batch.mins \subseteq Nat /\ batch.sym \in Symbols
  BY <1>1, <1>4, <1>5, Bounds
<1>9. /\ latest \in Int /\ begun \in Int /\ (begun # None => begun \in Nat)
      /\ decision.begun \in Int /\ decision.at \in Int
  BY <1>1, <1>2, <1>6, <1>7
<1>10. ASSUME NEW s \in Symbols
       PROVE  /\ fed[s] \in Int /\ first[s] \in Int /\ fed[s] >= None
              /\ fed[s] # None => fed[s] \in Nat
              /\ out[s] \subseteq Nat /\ seen[s] \subseteq Nat
  BY <1>3, <1>5, <1>6
<1> QED BY <1>8, <1>9, <1>10

\* It holds before the first tick.
LEMMA TimelyInit == Init => Timely
<1> SUFFICES ASSUME Init PROVE Timely
  OBVIOUS
<1>1. \A s \in Symbols : InOrder(s)
  BY DEF Init, InOrder, NoBars, NoTime, NoCandles, NoCandle
<1>2. batch.mins = {} /\ begun = None /\ polled = 0 /\ latest = None /\ decision.at = None
  BY DEF Init, NoBatch, Nothing
<1>3. \A s \in Symbols : fed[s] = None
  BY DEF Init, NoTime
<1> QED BY <1>1, <1>2, <1>3 DEF Timely, Polling, Feeding, Remembered, Judged, DecisionFresh

\* A step that feeds nothing leaves every symbol in order.
LEMMA UnfedInOrder ==
  ASSUME TypeOK, NEW s \in Symbols, InOrder(s), UNCHANGED <<keys, seen, fed, first, cur>>,
         out[s] \subseteq out'[s], \A m \in out'[s] : m < now'
  PROVE  InOrder(s)'
  BY DEF InOrder

\* A decision stays fresh while the bars of all symbols go on.
LEMMA FreshStays ==
  ASSUME TypeOK, DecisionFresh, decision' = decision,
         \A s \in Symbols : fed'[s] \in Int /\ fed[s] <= fed'[s]
  PROVE  DecisionFresh'
<1>1. SUFFICES ASSUME decision.at # None
               PROVE  \/ Fresh(decision.begun, decision.at + Frame)
                      \/ \E r \in Symbols \ {decision.sym} : Fresh(decision.begun, fed'[r])
  BY DEF DecisionFresh, Fresh
<1>2. CASE Fresh(decision.begun, decision.at + Frame)
  BY <1>2
<1>3. CASE \E r \in Symbols \ {decision.sym} : Fresh(decision.begun, fed[r])
  <2>1. PICK r \in Symbols \ {decision.sym} : Fresh(decision.begun, fed[r])
    BY <1>3
  <2>2. Fresh(decision.begun, fed'[r])
    BY <2>1, Times, FreshGrows
  <2> QED BY <2>2
<1> QED BY <1>1, <1>2, <1>3, FreshMeans

\* The market and the clock
LEMMA PassTimely ==
  ASSUME TypeOK, Timely, Pass
  PROVE  Timely'
<1>1. PICK New \in [Symbols -> SUBSET Minutes] :
        /\ now' = now + 1
        /\ out' = [s \in Symbols |-> out[s] \cup New[s]]
        /\ \A s \in Symbols : \A m \in New[s] : m <= now
  BY PassPublishes
<1>2. /\ UNCHANGED <<keys, seen, fed, first, cur, latest, begun, polled, batch, decision>>
      /\ batch.mins = {} /\ begun \in {None, now}
  BY DEF Pass, durable, process, builders, Feeding
<1>3. ASSUME NEW s \in Symbols PROVE InOrder(s)'
  <2>1. InOrder(s) /\ now \in Nat /\ out[s] \subseteq Nat /\ New[s] \subseteq Nat
    BY Times, Bounds DEF Timely
  <2>2. out'[s] = out[s] \cup New[s]
    BY <1>1
  <2>3. \A m \in out[s] : m < now
    BY <2>1 DEF InOrder
  <2>4. \A m \in out'[s] : m < now'
    BY <1>1, <2>1, <2>2, <2>3
  <2> QED BY <1>2, <2>1, <2>2, <2>4, UnfedInOrder
<1>4. Polling'
  BY <1>1, <1>2, Times DEF Timely, Polling, Feeding
<1>5. Remembered'
  BY <1>1, <1>2, Times DEF Timely, Remembered
<1>6. Judged'
  BY <1>2 DEF Timely, Judged
<1>7. DecisionFresh'
  BY <1>2 DEF Timely, DecisionFresh
<1> QED BY <1>3, <1>4, <1>5, <1>6, <1>7 DEF Timely

\* A tick only begins when some symbol has a recent bar, or before the first bar of the
\* process.
LEMMA TickBeginJudges ==
  ASSUME TypeOK, Timely, TickBegin
  PROVE  Judged'
<1>1. begun' = now /\ fed' = fed /\ MayTrade
  BY DEF TickBegin, builders
<1>2. CASE latest = None
  BY <1>1, <1>2 DEF Timely, Remembered, Judged
<1>3. CASE latest # None
  <2>1. \E second \in {0, 59} : 60 * (now - latest) + second <= MaxAge
    BY <1>1, <1>3 DEF MayTrade, Healthy
  <2>2. 60 * (now - latest) <= MaxAge
    BY <2>1, Times, Bounds
  <2>3. PICK r \in Symbols : latest <= fed[r]
    BY <1>3 DEF Timely, Remembered
  <2>4. 60 * (now - fed[r]) <= MaxAge
    BY <2>2, <2>3, Times, Bounds
  <2> QED BY <1>1, <2>4 DEF Judged
<1> QED BY <1>2, <1>3

\* The tick, around the feeding of bars
LEMMA TickTimely ==
  ASSUME TypeOK, Timely, TickHalt \/ TickClosed \/ TickBegin \/ Poll \/ TickEnd
  PROVE  Timely'
<1>1. UNCHANGED <<now, out, keys, seen, fed, first, cur, latest>>
  BY DEF TickHalt, TickClosed, TickBegin, Poll, TickEnd, market, durable, process, builders
<1>2. \A s \in Symbols : InOrder(s)'
  BY <1>1 DEF Timely, InOrder
<1>3. Remembered'
  BY <1>1 DEF Timely, Remembered
<1>4. CASE TickHalt \/ TickClosed
  <2>1. UNCHANGED <<begun, polled, batch, decision>>
    BY <1>4 DEF TickHalt, TickClosed, process
  <2> QED BY <1>1, <1>2, <1>3, <2>1 DEF Timely, Polling, Feeding, Judged, DecisionFresh
<1>5. CASE TickBegin
  <2>1. begun' = now /\ begun = None /\ UNCHANGED <<polled, batch, decision>>
    BY <1>5 DEF TickBegin, MayTrade, Ticks
  <2>2. Polling'
    BY <1>1, <2>1, Times, Bounds DEF Timely, Polling, Feeding
  <2>3. DecisionFresh'
    BY <1>1, <2>1 DEF Timely, DecisionFresh
  <2> QED BY <1>2, <1>3, <1>5, <2>2, <2>3, TickBeginJudges DEF Timely
<1>6. CASE TickEnd
  <2>1. begun' = None /\ polled' = 0 /\ decision'.at = None /\ batch' = batch /\ batch.mins = {}
    BY <1>6 DEF TickEnd, Feeding, Nothing
  <2> QED BY <1>1, <1>2, <1>3, <2>1 DEF Timely, Polling, Feeding, Judged, DecisionFresh
<1>7. CASE Poll
  <2>1. /\ begun # None /\ batch.mins = {} /\ polled' = polled + 1
        /\ UNCHANGED <<begun, decision>>
    BY <1>7 DEF Poll, Feeding
  <2>2. \/ batch' = NoBatch \/ batch' = batch
        \/ batch' = [sym |-> polled + 1, mins |-> Polled(polled + 1, now - 1), end |-> now - 1]
    BY <1>7 DEF Poll
  <2>3. Polling'
    <3>1. CASE batch' = NoBatch \/ batch' = batch
      <4>1. batch'.mins = {}
        BY <2>1, <3>1 DEF NoBatch
      <4> QED BY <1>1, <2>1, <4>1 DEF Timely, Polling, Feeding
    <3>2. CASE batch' = [sym |-> polled + 1, mins |-> Polled(polled + 1, now - 1), end |-> now - 1]
      <4>1. batch'.sym = polled + 1 /\ batch'.mins = Polled(polled + 1, now - 1)
        BY <3>2
      <4>2. \A m \in batch'.mins : m \in out[batch'.sym] /\ m >= now - 1 - Window
        BY <4>1, Times, Bounds DEF Polled
      <4>3. now >= begun
        BY <2>1, Times DEF Timely, Polling
      <4>4. \A m \in batch'.mins : m \in Int
        BY <4>1, Times, Bounds DEF Polled
      <4>5. \A m \in batch'.mins : m >= begun - 1 - Window
        BY <4>2, <4>3, <4>4, Times, Bounds
      <4> QED BY <1>1, <2>1, <4>1, <4>2, <4>5 DEF Timely, Polling, Feeding
    <3> QED BY <2>2, <3>1, <3>2
  <2> QED BY <1>1, <1>2, <1>3, <2>1, <2>3 DEF Timely, Judged, DecisionFresh
<1> QED BY <1>4, <1>5, <1>6, <1>7

\* The bar that is next
LEMMA BarNext ==
  ASSUME TypeOK, Timely, NEW bar, NextBar(bar), Take(bar)
  PROVE  /\ bar \in Nat /\ bar < now /\ Sym \in Symbols /\ bar \in out[Sym]
         /\ begun # None /\ begun \in Nat /\ Sym = polled /\ bar >= begun - 1 - Window
         /\ batch'.mins = batch.mins \ {bar}
         /\ batch'.mins # {} => batch'.sym = Sym
         /\ bar \in batch.mins
<1>1. /\ bar \in Minutes /\ bar \in batch.mins /\ Sym \in Symbols
      /\ batch'.mins = batch.mins \ {bar} /\ (batch'.mins # {} => batch'.sym = Sym)
  BY TakeTyped
<1>2. Feeding /\ Polling /\ Sym = batch.sym
  BY <1>1 DEF Feeding, Timely, Sym
<1>3. bar \in out[Sym] /\ begun # None /\ Sym = polled /\ bar >= begun - 1 - Window
  BY <1>1, <1>2 DEF Polling
<1>4. bar < now
  BY <1>1, <1>3 DEF Timely, InOrder
<1> QED BY <1>1, <1>3, <1>4, Times, Bounds

\* What is left of the batch is still polled by the tick.
LEMMA TakePolling ==
  ASSUME TypeOK, Timely, NEW bar, NextBar(bar), Take(bar), UNCHANGED <<now, out, begun, polled>>
  PROVE  Polling'
<1>1. /\ batch'.mins = batch.mins \ {bar} /\ (batch'.mins # {} => batch'.sym = Sym)
      /\ Sym = batch.sym
  BY BarNext DEF Sym
<1>2. CASE batch'.mins = {}
  BY <1>2 DEF Timely, Polling, Feeding
<1>3. CASE batch'.mins # {}
  BY <1>1, <1>3 DEF Timely, Polling, Feeding
<1> QED BY <1>2, <1>3

\* A bar that is dropped is not later than the last one of its symbol.
LEMMA DroppedTimely ==
  ASSUME TypeOK, Timely, NEW bar, FeedDropped(bar)
  PROVE  Timely'
<1>1. /\ NextBar(bar) /\ Take(bar)
      /\ keys' = [keys EXCEPT ![Sym] = @ \cup {bar}] /\ seen' = [seen EXCEPT ![Sym] = @ \cup {bar}]
      /\ latest' = bar /\ UNCHANGED <<now, out, begun, polled, rows, fed, first, cur, decision>>
  BY DEF FeedDropped, Reserve, market
<1>2. /\ bar \in Nat /\ bar < now /\ Sym \in Symbols /\ bar \in out[Sym]
  BY <1>1, BarNext
<1>3. bar <= fed[Sym] /\ fed[Sym] # None
  <2>1. InOrder(Sym) /\ (bar \in seen[Sym] \/ bar < fed[Sym])
    BY <1>2 DEF Timely, FeedDropped, Drops
  <2>2. bar <= fed[Sym]
    BY <1>2, <2>1, Times DEF InOrder
  <2> QED BY <1>2, <2>2, Times, Bounds
<1>4. keys \in [Symbols -> SUBSET Minutes] /\ seen \in [Symbols -> SUBSET Minutes]
  BY DEF TypeOK
<1>5. ASSUME NEW s \in Symbols PROVE InOrder(s)'
  <2>1. InOrder(s)
    BY DEF Timely
  <2>2. CASE s = Sym
    <3>1. keys'[s] = keys[s] \cup {bar} /\ seen'[s] = seen[s] \cup {bar}
      BY <1>1, <1>2, <1>4, <2>2
    <3> QED BY <1>1, <1>2, <1>3, <2>1, <2>2, <3>1 DEF InOrder
  <2>3. CASE s # Sym
    <3>1. keys'[s] = keys[s] /\ seen'[s] = seen[s]
      BY <1>1, <1>2, <1>4, <2>3
    <3> QED BY <1>1, <2>1, <3>1 DEF InOrder
  <2> QED BY <2>2, <2>3
<1>6. Remembered'
  BY <1>1, <1>2, <1>3, Bounds DEF Remembered
<1>7. Judged' /\ DecisionFresh'
  BY <1>1 DEF Timely, Judged, DecisionFresh
<1> QED BY <1>1, <1>5, <1>6, <1>7, TakePolling DEF Timely

\* A bar that is accepted
LEMMA AcceptedBar ==
  ASSUME TypeOK, Timely, NEW bar, Accept(bar)
  PROVE  /\ NextBar(bar) /\ Take(bar) /\ bar \in Nat /\ bar < now /\ Sym \in Symbols
         /\ bar \in out[Sym] /\ fed[Sym] <= bar
         /\ keys'[Sym] = keys[Sym] \cup {bar} /\ seen'[Sym] = seen[Sym] \cup {bar}
         /\ fed'[Sym] = bar /\ first'[Sym] = (IF first[Sym] = None THEN bar ELSE first[Sym])
         /\ \A s \in Symbols \ {Sym} : /\ keys'[s] = keys[s] /\ seen'[s] = seen[s]
                                       /\ fed'[s] = fed[s] /\ first'[s] = first[s]
         /\ latest' = bar /\ UNCHANGED <<now, out, late, begun, polled>>
<1>1. /\ NextBar(bar) /\ Take(bar) /\ ~Drops(bar)
      /\ keys' = [keys EXCEPT ![Sym] = @ \cup {bar}] /\ seen' = [seen EXCEPT ![Sym] = @ \cup {bar}]
      /\ fed' = [fed EXCEPT ![Sym] = bar]
      /\ first' = [first EXCEPT ![Sym] = IF @ = None THEN bar ELSE @]
      /\ latest' = bar /\ UNCHANGED <<now, out, late, begun, polled>>
  BY DEF Accept, Reserve, market
<1>2. bar \in Nat /\ bar < now /\ Sym \in Symbols /\ bar \in out[Sym]
  BY <1>1, BarNext
<1>3. /\ keys \in [Symbols -> SUBSET Minutes] /\ seen \in [Symbols -> SUBSET Minutes]
      /\ fed \in [Symbols -> Minutes \cup {None}] /\ first \in [Symbols -> Minutes \cup {None}]
  BY DEF TypeOK
<1>4. fed[Sym] <= bar
  BY <1>1, <1>2, Times DEF Drops
<1> QED BY <1>1, <1>2, <1>3, <1>4

\* An accepted bar leaves everything in order, whatever becomes of the candle before it.
LEMMA AcceptTimely ==
  ASSUME TypeOK, Timely, NEW bar, Accept(bar), cur'[Sym].at = Bucket(bar),
         \A s \in Symbols \ {Sym} : cur'[s] = cur[s]
  PROVE  (\A s \in Symbols : InOrder(s)') /\ Polling' /\ Remembered' /\ Judged'
<1>1. /\ NextBar(bar) /\ Take(bar) /\ bar \in Nat /\ bar < now /\ Sym \in Symbols
      /\ bar \in out[Sym] /\ fed[Sym] <= bar
      /\ keys'[Sym] = keys[Sym] \cup {bar} /\ seen'[Sym] = seen[Sym] \cup {bar}
      /\ fed'[Sym] = bar /\ first'[Sym] = (IF first[Sym] = None THEN bar ELSE first[Sym])
      /\ \A s \in Symbols \ {Sym} : /\ keys'[s] = keys[s] /\ seen'[s] = seen[s]
                                    /\ fed'[s] = fed[s] /\ first'[s] = first[s]
      /\ latest' = bar /\ UNCHANGED <<now, out, begun, polled>>
  BY AcceptedBar
<1>2. ASSUME NEW s \in Symbols PROVE InOrder(s)'
  <2>1. InOrder(s)
    BY DEF Timely
  <2>2. CASE s = Sym
    <3>1. fed[s] \in Int /\ first[s] \in Int /\ seen[s] \subseteq Nat
      BY Times
    <3>2. first'[s] # None /\ first'[s] <= bar
      <4>1. first[s] # None => first[s] <= fed[s]
        BY <2>1 DEF InOrder
      <4> QED BY <1>1, <2>2, <3>1, <4>1, Bounds
    <3>3. \A m \in seen'[s] : m <= bar
      BY <1>1, <2>1, <2>2, <3>1 DEF InOrder
    <3>4. bar # None
      BY <1>1, Bounds
    <3> QED BY <1>1, <2>1, <2>2, <3>2, <3>3, <3>4 DEF InOrder
  <2>3. CASE s # Sym
    BY <1>1, <2>1, <2>3 DEF InOrder
  <2> QED BY <2>2, <2>3
<1>3. Polling'
  BY <1>1, TakePolling
<1>4. Remembered'
  <2>1. latest' # None /\ latest' < now' /\ latest' <= fed'[Sym]
    BY <1>1, Times, Bounds
  <2> QED BY <1>1, <2>1 DEF Remembered
<1>5. Judged'
  <2>1. begun # None /\ begun \in Nat /\ bar >= begun - 1 - Window
    BY <1>1, BarNext
  <2>2. CASE \E r \in Symbols : 60 * (begun - fed[r]) <= MaxAge
    <3>1. PICK r \in Symbols : 60 * (begun - fed[r]) <= MaxAge
      BY <2>2
    <3>2. fed[r] <= fed'[r] /\ fed[r] \in Int /\ fed'[r] \in Int
      BY <1>1, Times
    <3>3. 60 * (begun - fed'[r]) <= MaxAge
      BY <2>1, <3>1, <3>2, Bounds
    <3> QED BY <1>1, <3>3 DEF Judged
  <2>3. CASE \A r \in Symbols : fed[r] # None => fed[r] >= begun - 1 - Window
    <3>1. \A r \in Symbols : fed'[r] # None => fed'[r] >= begun - 1 - Window
      BY <1>1, <2>1, <2>3
    <3> QED BY <1>1, <3>1 DEF Judged
  <2> QED BY <2>1, <2>2, <2>3 DEF Timely, Judged
<1> QED BY <1>2, <1>3, <1>4, <1>5

\* The bar that begins a candle or belongs to it
LEMMA GrowsTimely ==
  ASSUME TypeOK, Timely, NEW bar, FeedGrows(bar)
  PROVE  Timely'
<1>1. /\ Accept(bar) /\ cur[Sym].at \in {None, Bucket(bar)} /\ decision' = decision
      /\ cur' = [cur EXCEPT ![Sym] = IF @.at = None THEN Begin(bar) ELSE Grow(@, bar)]
  BY DEF FeedGrows
<1>2. Sym \in Symbols /\ cur \in [Symbols -> Candle \cup {NoCandle}]
  BY <1>1, AcceptedBar DEF TypeOK
<1>3. cur'[Sym] = IF cur[Sym].at = None THEN Begin(bar) ELSE Grow(cur[Sym], bar)
  BY <1>1, <1>2
<1>4. cur'[Sym].at = Bucket(bar)
  <2>1. CASE cur[Sym].at = None
    BY <1>3, <2>1 DEF Begin
  <2>2. CASE cur[Sym].at # None
    <3>1. cur[Sym] \in Candle
      BY <1>2, <2>2 DEF NoCandle
    <3>2. Grow(cur[Sym], bar).at = cur[Sym].at
      BY <3>1 DEF Grow, Candle
    <3> QED BY <1>1, <1>3, <2>2, <3>2
  <2> QED BY <2>1, <2>2
<1>5. \A s \in Symbols \ {Sym} : cur'[s] = cur[s]
  BY <1>1, <1>2
<1>6. DecisionFresh'
  <2>1. \A s \in Symbols : fed'[s] \in Int /\ fed[s] <= fed'[s]
    BY <1>1, AcceptedBar, Times
  <2> QED BY <1>1, <2>1, FreshStays DEF Timely
<1> QED BY <1>1, <1>4, <1>5, <1>6, AcceptTimely DEF Timely

\* The bar that completes a candle: what the bots decide on is fresh.
LEMMA CompletesTimely ==
  ASSUME TypeOK, Timely, NEW bar, FeedCompletes(bar)
  PROVE  Timely'
<1> DEFINE old == cur[Sym]
<1>1. /\ Accept(bar) /\ old.at # None /\ cur' = [cur EXCEPT ![Sym] = Begin(bar)]
      /\ decision' = decision \/ decision' = [sym |-> Sym, at |-> old.at, begun |-> begun]
  BY DEF FeedCompletes, Decide
<1>2. Sym \in Symbols /\ cur \in [Symbols -> Candle \cup {NoCandle}]
  BY <1>1, AcceptedBar DEF TypeOK
<1>3. cur'[Sym].at = Bucket(bar) /\ \A s \in Symbols \ {Sym} : cur'[s] = cur[s]
  BY <1>1, <1>2 DEF Begin
<1>4. \A s \in Symbols : fed'[s] \in Int /\ fed[s] <= fed'[s]
  BY <1>1, AcceptedBar, Times
<1>5. CASE decision' = decision
  <2>1. DecisionFresh'
    BY <1>4, <1>5, FreshStays DEF Timely
  <2> QED BY <1>1, <1>3, <2>1, AcceptTimely DEF Timely
<1>6. CASE decision' = [sym |-> Sym, at |-> old.at, begun |-> begun]
  <2>1. /\ fed[Sym] # None /\ old.at = Bucket(fed[Sym])
    BY <1>1, <1>2 DEF Timely, InOrder
  <2>2. fed[Sym] \in Nat /\ begun # None /\ begun \in Nat
    BY <1>1, <1>2, <2>1, AcceptedBar, BarNext, Times
  <2>3. old.at \in Nat /\ fed[Sym] < old.at + Frame
    BY <2>1, <2>2, BucketBounds
  <2>4. \/ Fresh(begun, old.at + Frame)
        \/ \E r \in Symbols \ {Sym} : Fresh(begun, fed'[r])
    <3>1. CASE \E r \in Symbols : 60 * (begun - fed[r]) <= MaxAge
      <4>1. PICK r \in Symbols : 60 * (begun - fed[r]) <= MaxAge
        BY <3>1
      <4>2. Fresh(begun, fed[r])
        BY <4>1 DEF Fresh
      <4>3. CASE r = Sym
        BY <2>2, <2>3, <4>2, <4>3, FreshGrows, Bounds
      <4>4. CASE r # Sym
        BY <1>4, <2>2, <4>2, <4>4, FreshGrows, Times
      <4> QED BY <4>3, <4>4
    <3>2. CASE \A r \in Symbols : fed[r] # None => fed[r] >= begun - 1 - Window
      <4>1. fed[Sym] >= begun - 1 - Window
        BY <1>2, <2>1, <3>2
      <4>2. begun - (old.at + Frame) <= Window
        <5> HIDE DEF old
        <5> QED BY <2>2, <2>3, <4>1, Bounds
      <4> QED BY <4>2 DEF Fresh
    <3>3. Judged
      BY DEF Timely
    <3> QED BY <2>2, <3>1, <3>2, <3>3 DEF Judged
  <2>5. DecisionFresh'
    <3>1. decision'.sym = Sym /\ decision'.at = old.at /\ decision'.begun = begun
      BY <1>6
    <3> QED BY <2>4, <3>1 DEF DecisionFresh, Fresh
  <2> QED BY <1>1, <1>3, <2>5, AcceptTimely DEF Timely
<1> QED BY <1>1, <1>5, <1>6

\* A bar whose key cannot be reserved is only taken from the batch.
LEMMA UnreservedTimely ==
  ASSUME TypeOK, Timely, NEW bar, FeedUnreserved(bar)
  PROVE  Timely'
<1>1. /\ NextBar(bar) /\ Take(bar)
      /\ UNCHANGED <<now, out, keys, seen, fed, first, cur, latest, begun, polled, decision>>
  BY DEF FeedUnreserved, market, durable, builders
<1>2. \A s \in Symbols : InOrder(s)'
  BY <1>1 DEF Timely, InOrder
<1>3. Remembered' /\ Judged' /\ DecisionFresh'
  BY <1>1 DEF Timely, Remembered, Judged, DecisionFresh
<1> QED BY <1>1, <1>2, <1>3, TakePolling DEF Timely

\* A crash forgets it all; the key it may leave is of a bar that was published.
LEMMA CrashTimely ==
  ASSUME TypeOK, Timely, Crash
  PROVE  Timely'
<1>1. /\ seen' = NoBars /\ fed' = NoTime /\ first' = NoTime /\ cur' = NoCandles
      /\ latest' = None /\ begun' = None /\ polled' = 0 /\ batch' = NoBatch
      /\ decision' = Nothing /\ UNCHANGED <<now, out>>
  BY DEF Crash, market
<1>2. \A s \in Symbols : keys'[s] \subseteq out[s]
  <2>1. /\ batch.mins \subseteq out[Sym] /\ Sym \in Symbols
        /\ keys \in [Symbols -> SUBSET Minutes] /\ \A s \in Symbols : keys[s] \subseteq out[s]
    BY Times DEF Timely, Polling, InOrder, Sym, TypeOK
  <2>2. keys' = keys \/ \E bar \in out[Sym] : keys' = [keys EXCEPT ![Sym] = @ \cup {bar}]
    BY <2>1 DEF Crash
  <2> QED BY <2>1, <2>2
<1>3. \A s \in Symbols : /\ seen'[s] = {} /\ fed'[s] = None /\ first'[s] = None
                         /\ cur'[s].at = None
  BY <1>1 DEF NoBars, NoTime, NoCandles, NoCandle
<1>4. \A s \in Symbols : InOrder(s)'
  BY <1>1, <1>2, <1>3 DEF Timely, InOrder
<1>5. batch'.mins = {} /\ decision'.at = None
  BY <1>1 DEF NoBatch, Nothing
<1> QED BY <1>1, <1>3, <1>4, <1>5 DEF Timely, Polling, Feeding, Remembered, Judged, DecisionFresh

\* The strengthening is inductive.
LEMMA TimelyStep == TypeOK /\ Timely /\ [Next]_vars => Timely'
<1> SUFFICES ASSUME TypeOK, Timely, [Next]_vars PROVE Timely'
  OBVIOUS
<1>1. CASE UNCHANGED vars
  BY <1>1 DEF vars, Timely, InOrder, Polling, Feeding, Remembered, Judged, DecisionFresh
<1>2. CASE \E bar \in batch.mins : Feed(bar)
  BY <1>2, UnreservedTimely, DroppedTimely, GrowsTimely, CompletesTimely DEF Feed
<1>3. CASE Next /\ ~ \E bar \in batch.mins : Feed(bar)
  BY <1>3, PassTimely, TickTimely, CrashTimely DEF Next
<1> QED BY <1>1, <1>2, <1>3

\* The bots never decide on data that is older than the health check allows, or than a
\* window, unless another symbol had a recent bar: the one age that the check knows.
THEOREM DecisionsAreFresh == Spec => []DecisionFresh
<1>1. Init => TypeOK /\ Timely
  BY TypedInit, TimelyInit
<1>2. (TypeOK /\ Timely) /\ [Next]_vars => (TypeOK /\ Timely)'
  BY TypedStep, TimelyStep
<1>3. TypeOK /\ Timely => DecisionFresh
  BY DEF Timely
<1> QED BY <1>1, <1>2, <1>3, PTL DEF Spec

-----------------------------------------------------------------------------
(* No poll gap loses a bar                                                  *)

\* The greatest age of the data, in whole minutes
AgeLimit == MaxAge \div 60

\* The bars published in time that the builder of a symbol has not come to
Waiting(s) == {m \in out[s] \ late[s] : first[s] # None /\ fed[s] < m}

\* How old the oldest of them may be: the health check bounds the time since the last
\* event, and the patience the time since a bar was published.
Oldest(s) ==
  IF begun = None THEN latest + AgeLimit - Window
  ELSE IF s <= polled THEN begun + AgeLimit - Window ELSE begun - Window

\* None of them falls out of the window: it is in the batch, or will be in the next one.
Reachable(s) ==
  IF Feeding /\ s = batch.sym
    THEN IF first[s] = None
           THEN \A b \in batch.mins : \A m \in out[s] : b <= m => m \in batch.mins
           ELSE Waiting(s) \subseteq batch.mins
    ELSE \A m \in Waiting(s) : Oldest(s) <= m

\* A candle has all the bars of its frame that the builder has come to.
Complete(s) ==
  /\ \A c \in rows[s] : c.at < cur[s].at
  /\ \A c \in rows[s] \cup {cur[s]} : \A m \in out[s] \ late[s] :
       /\ Bucket(m) = c.at
       /\ first[s] # None /\ first[s] <= m /\ m <= fed[s]
       => m \in c.mins

\* The strengthening of WholeCandles
Whole ==
  troubles = 0 => \A s \in Symbols : keys[s] = seen[s] /\ Complete(s) /\ Reachable(s)

\* What the step lemmas start from
Kept == TypeOK /\ Feedable /\ Timely /\ Whole

\* The frames of later minutes are later ones.
LEMMA BucketMonotone ==
  ASSUME NEW m \in Nat, NEW n \in Nat, m <= n
  PROVE  Bucket(m) <= Bucket(n)
<1> DEFINE p == m \div Frame
           q == n \div Frame
<1>1. /\ p \in Int /\ q \in Int
      /\ Bucket(m) = p * Frame /\ Bucket(n) = q * Frame
  BY FrameAssumption DEF Bucket
<1>2. m < Bucket(m) + Frame /\ Bucket(n) <= n /\ n < Bucket(n) + Frame
  BY BucketBounds
<1> HIDE DEF p, q
<1>3. SUFFICES ASSUME q < p PROVE FALSE
  BY <1>1, <1>2, FrameAssumption
<1>4. (q + 1) * Frame <= p * Frame
  BY <1>1, <1>3, FrameAssumption
<1>5. (q + 1) * Frame = q * Frame + Frame
  BY <1>1, FrameAssumption
<1>6. Bucket(n) + Frame <= Bucket(m) /\ Bucket(m) <= m
  BY <1>1, <1>4, <1>5, BucketBounds
<1>7. Bucket(n) \in Nat /\ Bucket(m) \in Nat
  BY BucketBounds
<1> QED BY <1>2, <1>6, <1>7, FrameAssumption

\* The strengthening is one.
LEMMA WholeSuffices == TypeOK /\ Timely /\ Whole => WholeCandles
<1> SUFFICES ASSUME TypeOK, Timely, Whole, troubles = 0, NEW s \in Symbols, NEW c \in rows[s],
                    NEW m \in out[s] \ late[s], Bucket(m) = c.at, first[s] <= m
             PROVE  m \in c.mins
  BY DEF WholeCandles
<1>1. Complete(s) /\ InOrder(s)
  BY DEF Whole, Timely
<1>2. c.at \in Nat /\ m \in Nat /\ cur[s].at > c.at
  <2>1. c \in Candle
    BY DEF TypeOK
  <2> QED BY <1>1, <2>1, Times, BucketsAreNat DEF Complete, Candle
<1>3. fed[s] # None
  BY <1>1, <1>2, Bounds DEF InOrder
<1>4. fed[s] \in Nat /\ first[s] # None /\ cur[s].at = Bucket(fed[s])
  BY <1>1, <1>3, Times DEF InOrder
<1>5. m <= fed[s]
  <2> SUFFICES ASSUME fed[s] <= m PROVE m <= fed[s]
    BY <1>2, <1>4
  <2>1. Bucket(fed[s]) <= Bucket(m)
    BY <1>2, <1>4, BucketMonotone
  <2>2. Bucket(fed[s]) > Bucket(m)
    BY <1>2, <1>4
  <2> QED BY <1>2, <1>4, <2>1, <2>2, BucketBounds
<1> QED BY <1>1, <1>4, <1>5 DEF Complete

\* It holds before the first bar.
LEMMA WholeInit == Init => Whole
<1> SUFFICES ASSUME Init, NEW s \in Symbols PROVE keys[s] = seen[s] /\ Complete(s) /\ Reachable(s)
  BY DEF Whole
<1>1. keys[s] = {} /\ seen[s] = {} /\ out[s] = {} /\ rows[s] = {} /\ batch.mins = {}
  BY DEF Init, NoBars, NoBatch
<1> QED BY <1>1 DEF Complete, Reachable, Feeding, Waiting

\* A step that leaves the bars of a symbol alone leaves its candles complete.
LEMMA CompleteStays ==
  ASSUME NEW s \in Symbols, Complete(s), rows'[s] = rows[s], cur'[s] = cur[s],
         first'[s] = first[s], fed'[s] = fed[s], out'[s] = out[s], late'[s] = late[s]
  PROVE  Complete(s)'
  BY DEF Complete

\* Seconds and minutes
LEMMA AgeLimitIsFloor ==
  /\ AgeLimit \in Nat
  /\ \A k \in Int : 60 * k <= MaxAge => k <= AgeLimit
<1>1. MaxAge \in Nat
  BY Bounds
<1> QED BY <1>1 DEF AgeLimit

\* What is new at the turn of a minute and not late can still be polled.
LEMMA PassWhole ==
  ASSUME Kept, Pass
  PROVE  Whole'
<1>1. /\ TypeOK /\ UNCHANGED <<keys, seen, rows, fed, first, cur, latest, begun, polled, batch>>
      /\ troubles' = troubles /\ batch.mins = {} /\ begun \in {None, now} /\ ~Feeding /\ ~Feeding'
  BY DEF Kept, Pass, durable, process, builders, Feeding
<1>2. PICK New \in [Symbols -> SUBSET Minutes] :
        /\ out' = [s \in Symbols |-> out[s] \cup New[s]]
        /\ late' = [s \in Symbols |-> late[s] \cup Late(s, now + 1, New[s])]
        /\ \A s \in Symbols : \A m \in New[s] : m <= now /\ m \notin out[s]
  BY <1>1, PassPublishes
<1> SUFFICES ASSUME troubles = 0, NEW s \in Symbols
             PROVE  keys'[s] = seen'[s] /\ Complete(s)' /\ Reachable(s)'
  BY <1>1 DEF Whole
<1>3. keys[s] = seen[s] /\ Complete(s) /\ InOrder(s) /\ \A m \in Waiting(s) : Oldest(s) <= m
  BY <1>1 DEF Kept, Whole, Timely, Reachable
<1>4. /\ out'[s] = out[s] \cup New[s] /\ late'[s] = late[s] \cup Late(s, now + 1, New[s])
      /\ New[s] \subseteq Nat /\ out[s] \subseteq Nat
  BY <1>1, <1>2, Bounds, Times
<1>5. ASSUME NEW m \in out'[s] \ late'[s], m \notin out[s] \ late[s]
      PROVE  /\ m \in Nat /\ now + AgeLimit - Window <= m
             /\ fed[s] # None => fed[s] < m
  <2>1. m \in New[s] /\ m \notin out[s] /\ m \notin Late(s, now + 1, New[s]) /\ m \in Nat
    BY <1>4, <1>5
  <2>2. ~((now + 1) - m > Patience) /\ \A k \in out[s] : ~(k > m)
    BY <2>1 DEF Late
  <2>3. now + AgeLimit - Window <= m
    BY <1>1, <2>1, <2>2, Times, Bounds, AgeLimitIsFloor DEF Patience, AgeLimit
  <2>4. fed[s] # None => fed[s] \in out[s] /\ fed[s] \in Nat
    BY <1>1, <1>3, Times DEF InOrder
  <2> QED BY <2>1, <2>2, <2>3, <2>4
<1>6. Complete(s)'
  <2>1. \A m \in out'[s] \ late'[s] : first[s] # None /\ m <= fed[s] => m \in out[s] \ late[s]
    <3> SUFFICES ASSUME NEW m \in out'[s] \ late'[s], first[s] # None, m <= fed[s],
                        m \notin out[s] \ late[s]
                 PROVE  FALSE
      OBVIOUS
    <3>1. fed[s] # None
      BY <1>3 DEF InOrder
    <3> QED BY <1>1, <1>5, <3>1, Times
  <2> QED BY <1>1, <1>3, <2>1 DEF Complete
<1>7. Reachable(s)'
  <2>1. UNCHANGED Oldest(s)
    BY <1>1 DEF Oldest
  <2>2. SUFFICES ASSUME NEW m \in Waiting(s)' PROVE Oldest(s) <= m
    BY <1>1, <2>1 DEF Reachable
  <2>3. m \in out'[s] \ late'[s] /\ first[s] # None /\ fed[s] < m
    BY <1>1 DEF Waiting
  <2>4. CASE m \in out[s] \ late[s]
    BY <1>3, <2>3, <2>4 DEF Waiting
  <2>5. CASE m \notin out[s] \ late[s]
    <3>1. m \in Nat /\ now + AgeLimit - Window <= m
      BY <1>5, <2>3, <2>5
    <3>2. latest < now
      <4>1. fed[s] # None
        BY <1>3, <2>3 DEF InOrder
      <4> QED BY <4>1 DEF Kept, Timely, Remembered
    <3>3. AgeLimit \in Nat
      BY AgeLimitIsFloor
    <3> QED BY <1>1, <3>1, <3>2, <3>3, Times, Bounds DEF Oldest
  <2> QED BY <2>4, <2>5
<1> QED BY <1>1, <1>3, <1>6, <1>7

\* The health check of a tick that begins: the age of the last event leaves the bars that
\* wait within the window.
LEMMA TickBeginWhole ==
  ASSUME Kept, TickBegin
  PROVE  Whole'
<1>1. /\ TypeOK /\ UNCHANGED <<out, late, keys, seen, rows, fed, first, cur, latest, polled, batch>>
      /\ troubles' = troubles /\ begun' = now /\ begun = None /\ MayTrade
  BY DEF Kept, TickBegin, MayTrade, Ticks, market, durable, builders
<1>2. ~Feeding /\ ~Feeding' /\ polled = 0
  BY <1>1 DEF Kept, Timely, Polling, Feeding
<1> SUFFICES ASSUME troubles = 0, NEW s \in Symbols
             PROVE  keys'[s] = seen'[s] /\ Complete(s)' /\ Reachable(s)'
  BY <1>1 DEF Whole
<1>3. keys[s] = seen[s] /\ Complete(s) /\ InOrder(s) /\ \A m \in Waiting(s) : Oldest(s) <= m
  BY <1>1, <1>2 DEF Kept, Whole, Timely, Reachable
<1>4. Complete(s)'
  BY <1>1, <1>3, CompleteStays
<1>5. Reachable(s)'
  <2>1. now # None /\ ~(s <= polled)
    BY <1>1, <1>2, Times, Bounds, FirstSymbol DEF Symbols
  <2>2. Oldest(s)' = now - Window /\ Oldest(s) = latest + AgeLimit - Window
    BY <1>1, <2>1 DEF Oldest
  <2>3. SUFFICES ASSUME NEW m \in Waiting(s) PROVE now - Window <= m
    BY <1>1, <1>2, <2>2 DEF Reachable, Waiting
  <2>4. m \in Nat /\ latest + AgeLimit - Window <= m /\ fed[s] # None
    BY <1>1, <1>3, <2>2, Times DEF Waiting, InOrder
  <2>5. latest # None
    BY <2>4 DEF Kept, Timely, Remembered
  <2>6. \E second \in {0, 59} : 60 * (now - latest) + second <= MaxAge
    BY <1>1, <2>5 DEF MayTrade, Healthy
  <2>7. 60 * (now - latest) <= MaxAge /\ now - latest \in Int
    BY <1>1, <2>6, Times, Bounds
  <2>8. now - latest <= AgeLimit /\ AgeLimit \in Nat
    BY <2>7, AgeLimitIsFloor
  <2> QED BY <1>1, <2>4, <2>8, Times, Bounds
<1> QED BY <1>1, <1>3, <1>4, <1>5

\* A tick that ends has polled every symbol, and its events are not later than it.
LEMMA TickEndWhole ==
  ASSUME Kept, TickEnd
  PROVE  Whole'
<1>1. /\ TypeOK /\ UNCHANGED <<out, late, keys, seen, rows, fed, first, cur, latest, batch>>
      /\ troubles' = troubles /\ begun' = None /\ begun # None /\ polled = Universe
      /\ ~Feeding /\ ~Feeding'
  BY DEF Kept, TickEnd, market, durable, builders, Feeding
<1> SUFFICES ASSUME troubles = 0, NEW s \in Symbols
             PROVE  keys'[s] = seen'[s] /\ Complete(s)' /\ Reachable(s)'
  BY <1>1 DEF Whole
<1>2. keys[s] = seen[s] /\ Complete(s) /\ InOrder(s) /\ \A m \in Waiting(s) : Oldest(s) <= m
  BY <1>1 DEF Kept, Whole, Timely, Reachable
<1>3. Complete(s)'
  BY <1>1, <1>2, CompleteStays
<1>4. Reachable(s)'
  <2>1. s <= polled
    BY <1>1, Bounds DEF Symbols
  <2>2. Oldest(s)' = latest + AgeLimit - Window /\ Oldest(s) = begun + AgeLimit - Window
    BY <1>1, <2>1 DEF Oldest
  <2>3. SUFFICES ASSUME NEW m \in Waiting(s) PROVE latest + AgeLimit - Window <= m
    BY <1>1, <2>2 DEF Reachable, Waiting
  <2>4. begun + AgeLimit - Window <= m /\ m \in Nat
    BY <1>1, <1>2, <2>2, Times DEF Waiting
  <2>5. now \in {begun, begun + 1} /\ (latest # None => latest < now)
    BY <1>1 DEF Kept, Timely, Polling, Remembered
  <2>6. latest <= begun
    BY <1>1, <2>5, Times, Bounds
  <2> QED BY <1>1, <2>4, <2>6, Times, Bounds, AgeLimitIsFloor
<1> QED BY <1>1, <1>2, <1>3, <1>4

\* A poll returns all the bars that wait for its symbol.
LEMMA PollWhole ==
  ASSUME Kept, Poll
  PROVE  Whole'
<1> DEFINE sym == polled + 1
           bars == Polled(polled + 1, now - 1)
<1>1. /\ TypeOK /\ UNCHANGED <<out, late, keys, seen, rows, fed, first, cur, latest, begun>>
      /\ begun # None /\ polled' = sym /\ ~Feeding
      /\ \/ /\ batch' = IF bars = {} THEN NoBatch ELSE [sym |-> sym, mins |-> bars, end |-> now - 1]
            /\ troubles' = troubles
         \/ Trouble
  BY DEF Kept, Poll, market, durable, builders
<1> SUFFICES ASSUME troubles' = 0, NEW s \in Symbols
             PROVE  keys'[s] = seen'[s] /\ Complete(s)' /\ Reachable(s)'
  BY DEF Whole
<1>2. troubles \in Nat
  BY <1>1 DEF TypeOK
<1>3. /\ batch' = IF bars = {} THEN NoBatch ELSE [sym |-> sym, mins |-> bars, end |-> now - 1]
      /\ troubles = 0
  BY <1>1, <1>2 DEF Trouble
<1>4. keys[s] = seen[s] /\ Complete(s) /\ InOrder(s) /\ \A m \in Waiting(s) : Oldest(s) <= m
  BY <1>1, <1>3 DEF Kept, Whole, Timely, Reachable
<1>5. Complete(s)'
  BY <1>1, <1>4, CompleteStays
<1>6. Waiting(s)' = Waiting(s)
  BY <1>1 DEF Waiting
<1>7. (Feeding' <=> bars # {}) /\ (Feeding' => batch'.sym = sym /\ batch'.mins = bars)
  BY <1>3 DEF Feeding, NoBatch
<1>8. s \in Int /\ polled \in Int
  BY <1>1, Times, FirstSymbol
<1>9. CASE s # sym
  <2>1. s <= polled' <=> s <= polled
    BY <1>1, <1>8, <1>9
  <2>2. Oldest(s)' = Oldest(s)
    BY <1>1, <2>1 DEF Oldest
  <2>3. Reachable(s)'
    BY <1>4, <1>6, <1>7, <1>9, <2>2 DEF Reachable
  <2> QED BY <1>1, <1>4, <1>5, <2>3
<1>10. CASE s = sym
  <2>1. bars = (out[s] \cap ((now - 1 - Window)..(now - 1))) \ keys[s]
    BY <1>10 DEF Polled
  <2>2. now \in Nat /\ begun \in Int /\ out[s] \subseteq Nat /\ fed[s] \in Int /\ Window \in Nat
        /\ seen[s] \subseteq Nat
    BY <1>1, Times, Bounds
  <2>3. \A m \in out[s] : m < now
    BY <1>4 DEF InOrder
  <2>4. Waiting(s) \subseteq bars
    <3> SUFFICES ASSUME NEW m \in Waiting(s) PROVE m \in bars
      OBVIOUS
    <3>1. m \in out[s] /\ fed[s] < m /\ m \in Nat /\ m < now
      BY <2>2, <2>3 DEF Waiting
    <3>2. begun - Window <= m
      <4>1. ~(s <= polled)
        BY <1>8, <1>10
      <4>2. Oldest(s) = begun - Window
        BY <1>1, <4>1 DEF Oldest
      <4> QED BY <1>4, <4>2
    <3>3. now <= begun + 1
      BY <1>1, <2>2 DEF Kept, Timely, Polling
    <3>4. m \in (now - 1 - Window)..(now - 1)
      BY <2>2, <3>1, <3>2, <3>3
    <3>5. m \notin keys[s]
      BY <1>4, <2>2, <3>1 DEF InOrder
    <3> QED BY <2>1, <3>1, <3>4, <3>5
  <2>5. ASSUME first[s] = None, NEW b \in bars, NEW m \in out[s], b <= m
        PROVE  m \in bars
    <3>1. b \in (now - 1 - Window)..(now - 1) /\ m \in Nat /\ m < now
      BY <2>1, <2>2, <2>3
    <3>2. m \in (now - 1 - Window)..(now - 1)
      BY <2>2, <2>5, <3>1
    <3>3. m \notin keys[s]
      BY <1>4, <2>5 DEF InOrder
    <3> QED BY <2>1, <3>2, <3>3
  <2>6. Reachable(s)'
    <3>1. CASE bars = {}
      BY <1>6, <1>7, <2>4, <3>1 DEF Reachable
    <3>2. CASE bars # {}
      <4>1. CASE first[s] = None
        <5>1. \A b \in batch'.mins : \A m \in out'[s] : b <= m => m \in batch'.mins
          BY <1>1, <1>7, <2>5, <3>2, <4>1
        <5> QED BY <1>1, <1>7, <1>10, <3>2, <4>1, <5>1 DEF Reachable
      <4>2. CASE first[s] # None
        BY <1>1, <1>6, <1>7, <1>10, <2>4, <3>2, <4>2 DEF Reachable
      <4> QED BY <4>1, <4>2
    <3> QED BY <3>1, <3>2
  <2> QED BY <1>1, <1>4, <1>5, <2>6
<1> QED BY <1>9, <1>10

\* Feeding a bar of one symbol leaves the others within reach.
LEMMA OthersReachable ==
  ASSUME NEW s \in Symbols, s # Sym, batch'.mins # {} => batch'.sym = Sym, Reachable(s),
         begun # None, UNCHANGED <<out, late, begun, polled>>,
         first'[s] = first[s], fed'[s] = fed[s]
  PROVE  Reachable(s)'
<1>1. Waiting(s)' = Waiting(s) /\ Oldest(s)' = Oldest(s)
  BY DEF Waiting, Oldest
<1> QED BY <1>1 DEF Reachable, Feeding, Sym

\* The symbol itself: what waits after the bar was in the batch and was not the bar.
LEMMA FedReachable ==
  ASSUME NEW s \in Symbols, NEW bar, batch'.mins = batch.mins \ {bar},
         batch'.mins # {} => batch'.sym = s, first'[s] # None,
         Waiting(s)' \subseteq batch.mins, bar \notin Waiting(s)'
  PROVE  Reachable(s)'
<1>1. Waiting(s)' \subseteq batch'.mins
  OBVIOUS
<1>2. CASE Feeding'
  BY <1>1, <1>2 DEF Reachable, Feeding
<1>3. CASE ~Feeding'
  <2>1. Waiting(s)' = {}
    BY <1>1, <1>3 DEF Feeding
  <2> QED BY <1>3, <2>1 DEF Reachable
<1> QED BY <1>2, <1>3

\* A bar that is dropped is one the builder has already passed.
LEMMA DroppedWhole ==
  ASSUME Kept, NEW bar, FeedDropped(bar)
  PROVE  Whole'
<1>1. /\ TypeOK /\ Timely /\ NextBar(bar) /\ Take(bar) /\ Drops(bar)
      /\ keys' = [keys EXCEPT ![Sym] = @ \cup {bar}] /\ seen' = [seen EXCEPT ![Sym] = @ \cup {bar}]
      /\ UNCHANGED <<out, late, begun, polled, rows, fed, first, cur, troubles>>
  BY DEF Kept, FeedDropped, Reserve, market
<1>2. /\ bar \in Nat /\ Sym \in Symbols /\ begun # None /\ bar \in batch.mins
      /\ batch'.mins = batch.mins \ {bar} /\ (batch'.mins # {} => batch'.sym = Sym)
  BY <1>1, BarNext
<1> SUFFICES ASSUME troubles = 0, NEW s \in Symbols
             PROVE  keys'[s] = seen'[s] /\ Complete(s)' /\ Reachable(s)'
  BY <1>1 DEF Whole
<1>3. \A r \in Symbols : keys[r] = seen[r] /\ Complete(r) /\ Reachable(r) /\ InOrder(r)
  BY DEF Kept, Whole, Timely
<1>4. keys \in [Symbols -> SUBSET Minutes] /\ seen \in [Symbols -> SUBSET Minutes]
  BY <1>1 DEF TypeOK
<1>5. keys'[s] = seen'[s]
  BY <1>1, <1>2, <1>3, <1>4
<1>6. Complete(s)'
  BY <1>1, <1>3, CompleteStays
<1>7. CASE s # Sym
  <2>1. Reachable(s)'
    BY <1>1, <1>2, <1>3, <1>7, OthersReachable
  <2> QED BY <1>5, <1>6, <2>1
<1>8. CASE s = Sym
  <2>1. bar \notin keys[Sym]
    BY <1>2 DEF Kept, Feedable, Sym
  <2>2. bar < fed[Sym]
    BY <1>1, <1>2, <1>3, <2>1 DEF Drops
  <2>3. fed[Sym] \in Int /\ fed[Sym] # None
    BY <1>1, <1>2, <2>2, Times, Bounds
  <2>4. first[Sym] # None
    BY <1>2, <1>3, <2>3 DEF InOrder
  <2>5. Waiting(s)' = Waiting(s) /\ s = batch.sym /\ Feeding
    BY <1>1, <1>2, <1>8 DEF Waiting, Sym, Feeding
  <2>6. Waiting(s) \subseteq batch.mins
    BY <1>3, <1>8, <2>4, <2>5 DEF Reachable
  <2>7. bar \notin Waiting(s)
    BY <1>2, <1>8, <2>2, <2>3 DEF Waiting
  <2>8. Reachable(s)'
    <3>1. first'[s] # None
      BY <1>1, <1>8, <2>4
    <3> QED BY <1>2, <1>8, <2>5, <2>6, <2>7, <3>1, FedReachable
  <2> QED BY <1>5, <1>6, <2>8
<1> QED BY <1>7, <1>8

\* No bar published in time lies between the last one and the one that is fed.
LEMMA NoneBetween ==
  ASSUME Kept, troubles = 0, NEW bar, Accept(bar), first[Sym] # None,
         NEW m \in out[Sym] \ late[Sym], m <= bar
  PROVE  m <= fed[Sym] \/ m = bar
<1>1. /\ TypeOK /\ Sym \in Symbols /\ bar \in Nat /\ bar \in batch.mins
      /\ \A k \in batch.mins : bar <= k
  BY AcceptedBar, BarNext DEF Kept, NextBar
<1>2. Feeding /\ Sym = batch.sym /\ Reachable(Sym)
  BY <1>1 DEF Kept, Whole, Feeding, Sym
<1>3. Waiting(Sym) \subseteq batch.mins
  BY <1>2 DEF Reachable
<1>4. m \in Nat /\ fed[Sym] \in Int
  BY <1>1, Times
<1> QED BY <1>1, <1>3, <1>4 DEF Waiting

\* What waits after an accepted bar was in the batch.
LEMMA AcceptReachable ==
  ASSUME Kept, troubles = 0, NEW bar, Accept(bar), NEW s \in Symbols
  PROVE  Reachable(s)' /\ keys'[s] = seen'[s]
<1>1. /\ TypeOK /\ NextBar(bar) /\ Take(bar) /\ bar \in Nat /\ Sym \in Symbols
      /\ bar \in out[Sym] /\ fed[Sym] <= bar
      /\ keys'[Sym] = keys[Sym] \cup {bar} /\ seen'[Sym] = seen[Sym] \cup {bar}
      /\ fed'[Sym] = bar /\ first'[Sym] = (IF first[Sym] = None THEN bar ELSE first[Sym])
      /\ \A r \in Symbols \ {Sym} : /\ keys'[r] = keys[r] /\ seen'[r] = seen[r]
                                    /\ fed'[r] = fed[r] /\ first'[r] = first[r]
      /\ UNCHANGED <<out, late, begun, polled>>
  BY AcceptedBar DEF Kept
<1>2. /\ begun # None /\ bar \in batch.mins
      /\ batch'.mins = batch.mins \ {bar} /\ (batch'.mins # {} => batch'.sym = Sym)
  BY <1>1, BarNext DEF Kept
<1>3. \A r \in Symbols : keys[r] = seen[r] /\ Reachable(r)
  BY DEF Kept, Whole
<1>4. keys'[s] = seen'[s]
  BY <1>1, <1>3
<1>5. CASE s # Sym
  BY <1>1, <1>2, <1>3, <1>4, <1>5, OthersReachable
<1>6. CASE s = Sym
  <2>1. s = batch.sym /\ Feeding
    BY <1>2, <1>6 DEF Sym, Feeding
  <2>2. first'[s] # None
    BY <1>1, <1>6, Bounds
  <2>3. Waiting(s)' = {m \in out[s] \ late[s] : bar < m}
    BY <1>1, <1>6, <2>2 DEF Waiting
  <2>4. Waiting(s)' \subseteq batch.mins
    <3> SUFFICES ASSUME NEW m \in out[s] \ late[s], bar < m PROVE m \in batch.mins
      BY <2>3
    <3>1. m \in Nat /\ fed[s] \in Int
      BY <1>1, Times
    <3>2. CASE first[s] = None
      BY <1>1, <1>2, <1>3, <2>1, <3>1, <3>2 DEF Reachable
    <3>3. CASE first[s] # None
      <4>1. m \in Waiting(s)
        BY <1>1, <1>6, <3>1, <3>3 DEF Waiting
      <4> QED BY <1>1, <1>3, <2>1, <3>3, <4>1 DEF Reachable
    <3> QED BY <3>2, <3>3
  <2>5. bar \notin Waiting(s)'
    BY <1>1, <2>3
  <2>6. Reachable(s)'
    BY <1>2, <1>6, <2>2, <2>4, <2>5, FedReachable
  <2> QED BY <1>4, <2>6
<1> QED BY <1>5, <1>6

\* The bar completes the candle it belongs to as far as it goes, and one that is saved had
\* all its bars.
LEMMA AcceptComplete ==
  ASSUME Kept, troubles = 0, NEW bar, Accept(bar), NEW s \in Symbols, s = Sym,
         \/ /\ rows'[Sym] = rows[Sym] /\ cur[Sym].at = Bucket(bar)
            /\ cur'[Sym].mins = cur[Sym].mins \cup {bar}
         \/ /\ rows'[Sym] \subseteq rows[Sym] \cup {cur[Sym]} /\ cur[Sym].at # Bucket(bar)
            /\ cur[Sym].at = None => rows'[Sym] = rows[Sym]
            /\ cur'[Sym].mins = {bar},
         cur'[Sym].at = Bucket(bar)
  PROVE  Complete(s)'
<1>1. /\ TypeOK /\ bar \in Nat /\ Sym \in Symbols /\ fed[Sym] <= bar /\ fed'[Sym] = bar
      /\ first'[Sym] = (IF first[Sym] = None THEN bar ELSE first[Sym])
      /\ UNCHANGED <<out, late>>
  BY AcceptedBar DEF Kept
<1>2. Complete(Sym) /\ InOrder(Sym)
  BY <1>1 DEF Kept, Whole, Timely
<1>3. /\ \A c \in rows[Sym] : c.at \in Nat
      /\ fed[Sym] \in Int /\ first[Sym] \in Int /\ out[Sym] \subseteq Nat
      /\ fed[Sym] # None => fed[Sym] \in Nat
  <2>1. \A c \in rows[Sym] : c \in Candle
    BY <1>1 DEF TypeOK
  <2> QED BY <1>1, <2>1, BucketsAreNat, Times DEF Candle
<1>4. Bucket(bar) \in Nat /\ (cur[Sym].at # None => cur[Sym].at <= Bucket(bar) /\ cur[Sym].at \in Nat)
  <2>1. Bucket(bar) \in Nat
    BY <1>1, BucketBounds
  <2>2. ASSUME cur[Sym].at # None PROVE cur[Sym].at <= Bucket(bar) /\ cur[Sym].at \in Nat
    <3>1. fed[Sym] # None /\ cur[Sym].at = Bucket(fed[Sym])
      BY <1>2, <2>2 DEF InOrder
    <3> QED BY <1>1, <1>3, <3>1, BucketMonotone, BucketBounds
  <2> QED BY <2>1, <2>2
<1>5. \A c \in rows'[Sym] : c.at < Bucket(bar)
  <2> SUFFICES ASSUME NEW c \in rows'[Sym] PROVE c.at < Bucket(bar)
    OBVIOUS
  <2>1. CASE c \in rows[Sym]
    <3>1. c.at < cur[Sym].at /\ c.at \in Nat
      BY <1>2, <1>3, <2>1 DEF Complete
    <3>2. cur[Sym].at # None
      BY <3>1, Bounds
    <3> QED BY <1>4, <3>1, <3>2
  <2>2. CASE c \notin rows[Sym]
    <3>1. c = cur[Sym] /\ cur[Sym].at # Bucket(bar) /\ cur[Sym].at # None
      BY <2>2
    <3> QED BY <1>4, <3>1
  <2> QED BY <2>1, <2>2
<1>6. ASSUME NEW c \in rows'[Sym] \cup {cur'[Sym]}, NEW m \in out[Sym] \ late[Sym],
             Bucket(m) = c.at, first'[Sym] <= m, m <= bar
      PROVE  m \in c.mins
  <2>1. m \in Nat
    BY <1>3
  <2>2. CASE m = bar
    <3>1. c \notin rows'[Sym]
      BY <1>4, <1>5, <1>6, <2>2
    <3> QED BY <1>6, <2>2, <3>1
  <2>3. CASE m # bar
    <3>1. first[Sym] # None /\ first[Sym] <= m
      BY <1>1, <1>3, <1>6, <2>1, <2>3
    <3>2. m <= fed[Sym]
      BY <1>6, <2>3, <3>1, NoneBetween
    <3>3. fed[Sym] # None /\ cur[Sym].at = Bucket(fed[Sym])
      BY <1>2, <3>1 DEF InOrder
    <3>4. CASE c \in rows[Sym] \cup {cur[Sym]}
      BY <1>2, <1>6, <3>1, <3>2, <3>4 DEF Complete
    <3>5. CASE c \notin rows[Sym] \cup {cur[Sym]}
      <4>1. c = cur'[Sym] /\ c.at = Bucket(bar)
        BY <1>6, <3>5
      <4>2. Bucket(m) <= Bucket(fed[Sym]) /\ Bucket(m) \in Nat
        BY <1>3, <2>1, <3>2, <3>3, BucketMonotone, BucketBounds
      <4>3. cur[Sym].at # None
        <5>1. Bucket(fed[Sym]) \in Nat
          BY <1>3, <3>3, BucketBounds
        <5> QED BY <3>3, <5>1, Bounds
      <4>4. cur[Sym].at = Bucket(bar)
        BY <1>4, <1>6, <3>3, <4>1, <4>2, <4>3
      <4>5. m \in cur[Sym].mins
        BY <1>2, <1>6, <3>1, <3>2, <4>1, <4>4 DEF Complete
      <4> QED BY <4>1, <4>4, <4>5
    <3> QED BY <3>4, <3>5
  <2> QED BY <2>2, <2>3
<1>7. \A c \in rows'[s] : c.at < cur'[s].at
  BY <1>5
<1>8. \A c \in rows'[s] \cup {cur'[s]} : \A m \in out'[s] \ late'[s] :
        Bucket(m) = c.at /\ first'[s] <= m /\ m <= fed'[s] => m \in c.mins
  BY <1>1, <1>6
<1> QED BY <1>7, <1>8 DEF Complete

\* An accepted bar keeps every candle whole.
LEMMA AcceptWhole ==
  ASSUME Kept, NEW bar, FeedGrows(bar) \/ FeedCompletes(bar)
  PROVE  Whole'
<1> SUFFICES ASSUME troubles' = 0, NEW s \in Symbols
             PROVE  keys'[s] = seen'[s] /\ Complete(s)' /\ Reachable(s)'
  BY DEF Whole
<1>1. TypeOK /\ Accept(bar) /\ Sym \in Symbols
  BY AcceptedBar DEF Kept, FeedGrows, FeedCompletes
<1>2. troubles = 0 /\ (FeedGrows(bar) \/ rows' = Stored(Sym, cur[Sym]))
  BY <1>1 DEF FeedGrows, FeedCompletes, Trouble, TypeOK
<1>3. /\ rows \in [Symbols -> SUBSET Candle] /\ cur \in [Symbols -> Candle \cup {NoCandle}]
  BY <1>1 DEF TypeOK
<1>4. keys'[s] = seen'[s] /\ Reachable(s)'
  BY <1>1, <1>2, AcceptReachable
<1>5. \A r \in Symbols \ {Sym} : rows'[r] = rows[r] /\ cur'[r] = cur[r]
  BY <1>1, <1>3 DEF FeedGrows, FeedCompletes, Stored
<1>6. CASE s # Sym
  <2>1. Complete(s) /\ first'[s] = first[s] /\ fed'[s] = fed[s] /\ UNCHANGED <<out, late>>
    BY <1>1, <1>2, <1>6, AcceptedBar DEF Kept, Whole
  <2> QED BY <1>4, <1>5, <1>6, <2>1, CompleteStays
<1>7. CASE s = Sym
  <2>1. CASE FeedGrows(bar)
    <3>1. /\ rows'[Sym] = rows[Sym] /\ cur[Sym].at \in {None, Bucket(bar)}
          /\ cur'[Sym] = IF cur[Sym].at = None THEN Begin(bar) ELSE Grow(cur[Sym], bar)
      BY <1>1, <1>3, <2>1 DEF FeedGrows
    <3>2. CASE cur[Sym].at = None
      <4>1. bar \in Nat
        BY <1>1, AcceptedBar DEF Kept
      <4>2. Bucket(bar) # None /\ cur'[Sym].at = Bucket(bar) /\ cur'[Sym].mins = {bar}
        BY <3>1, <3>2, <4>1, BucketBounds, Bounds DEF Begin
      <4> QED BY <1>1, <1>2, <1>4, <1>7, <3>1, <3>2, <4>2, AcceptComplete
    <3>3. CASE cur[Sym].at # None
      <4>1. cur[Sym] \in Candle
        BY <1>1, <1>3, <3>3 DEF NoCandle
      <4>2. cur'[Sym].at = Bucket(bar) /\ cur'[Sym].mins = cur[Sym].mins \cup {bar}
        BY <3>1, <3>3, <4>1 DEF Grow, Candle
      <4> QED BY <1>1, <1>2, <1>4, <1>7, <3>1, <3>3, <4>2, AcceptComplete
    <3> QED BY <3>2, <3>3
  <2>2. CASE FeedCompletes(bar) /\ rows' = Stored(Sym, cur[Sym])
    <3>1. cur[Sym].at \notin {None, Bucket(bar)} /\ cur'[Sym] = Begin(bar)
      BY <1>1, <1>3, <2>2 DEF FeedCompletes
    <3>2. rows'[Sym] \subseteq rows[Sym] \cup {cur[Sym]}
      BY <1>1, <1>3, <2>2 DEF Stored
    <3>3. cur'[Sym].at = Bucket(bar) /\ cur'[Sym].mins = {bar}
      BY <3>1 DEF Begin
    <3> QED BY <1>1, <1>2, <1>4, <1>7, <3>1, <3>2, <3>3, AcceptComplete
  <2> QED BY <1>2, <2>1, <2>2
<1> QED BY <1>6, <1>7

\* The strengthening is inductive.
LEMMA WholeStep == Kept /\ [Next]_vars => Whole'
<1> SUFFICES ASSUME Kept, [Next]_vars PROVE Whole'
  OBVIOUS
<1>1. troubles \in Nat
  BY DEF Kept, TypeOK
<1>2. CASE UNCHANGED vars
  BY <1>2 DEF vars, Kept, Whole, Complete, Reachable, Feeding, Waiting, Oldest
<1>3. CASE TickHalt \/ TickClosed
  <2>1. UNCHANGED <<out, late, keys, seen, rows, fed, first, cur, latest, begun, polled, batch, troubles>>
    BY <1>3 DEF TickHalt, TickClosed, market, durable, process, builders
  <2> QED BY <2>1 DEF Kept, Whole, Complete, Reachable, Feeding, Waiting, Oldest
<1>4. CASE Crash
  BY <1>1, <1>4 DEF Crash, Trouble, Whole
<1>5. CASE \E bar \in batch.mins : FeedUnreserved(bar)
  BY <1>1, <1>5 DEF FeedUnreserved, Trouble, Whole
<1>6. CASE \E bar \in batch.mins : FeedDropped(bar) \/ FeedGrows(bar) \/ FeedCompletes(bar)
  BY <1>6, DroppedWhole, AcceptWhole
<1>7. CASE Pass \/ TickBegin \/ Poll \/ TickEnd
  BY <1>7, PassWhole, TickBeginWhole, PollWhole, TickEndWhole
<1> QED BY <1>2, <1>3, <1>4, <1>5, <1>6, <1>7 DEF Next, Feed

\* Without crashes and failures every candle that is saved has all the bars of its frame
\* that were published in time, since the first one fed: whatever gaps the market leaves,
\* the health check halts before a window is missed.
THEOREM CandlesAreWhole == Spec => []WholeCandles
<1>1. Init => Kept
  BY TypedInit, FeedableInit, TimelyInit, WholeInit DEF Kept
<1>2. Kept /\ [Next]_vars => Kept'
  BY TypedStep, FeedableStep, TimelyStep, WholeStep DEF Kept
<1>3. Kept => WholeCandles
  BY WholeSuffices DEF Kept
<1> QED BY <1>1, <1>2, <1>3, PTL DEF Spec
===============================================================================
