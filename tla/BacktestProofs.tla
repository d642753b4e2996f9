--------------------------- MODULE BacktestProofs ----------------------------
(***************************************************************************)
(* Proofs about Backtest, for any number of bars, any configurations and   *)
(* any quotes: the types, that no trade looks ahead, that positions follow *)
(* each other, how long they are held, and that signals are acted on.      *)
(***************************************************************************)
EXTENDS Backtest, TLAPS

Patient(p) == p.entry >= p.signal + Delay

\* The signal that waits was given at an earlier bar, and so was the one that
\* opened the position, by the latency.
IInv ==
  /\ TypeOK
  /\ pending # Nothing => pending.bar < i
  /\ open # Nothing => Patient(open) /\ open.entry < i
  /\ \A k \in DOMAIN trades : Patient(trades[k])

\* The delay is a positive number of bars.
LEMMA DelayTyped == cfg \in Configs => Delay \in Nat \ {0}
<1> SUFFICES ASSUME cfg \in Configs PROVE Delay \in Nat \ {0}
  OBVIOUS
<1>1. cfg.latency \in Nat
  BY ConfigsAssumption DEF Config
<1> QED
  BY <1>1 DEF Delay

\* A position is a record with a side that is traded.
LEMMA NotNothing ==
  /\ \A p \in Positions : p # Nothing
  /\ \A s \in Signals : s # Nothing
BY DEF Positions, Signals, Sides, Nothing

\* A position that is closed in the run is a trade.
LEMMA ClosedTyped ==
  ASSUME IInv, open # Nothing
  PROVE  /\ open \in Positions
         /\ open.entry \in Index /\ open.signal \in Index /\ open.side \in Sides
         /\ i - open.entry \in 0..Bars
BY BarsAssumption DEF IInv, TypeOK, Positions, Index

\* Nothing has been traded at first.
LEMMA InitIInv == Init => IInv
<1> SUFFICES ASSUME Init PROVE IInv
  OBVIOUS
<1>1. quoted \in [Index -> SUBSET Sides]
  BY DEF Init
<1>2. TypeOK
  BY <1>1, BarsAssumption DEF Init, TypeOK
<1> QED
  BY <1>2 DEF Init, IInv

-----------------------------------------------------------------------------
\* A bar: what is entered at it comes from a signal that is due.
LEMMA BarStep ==
  ASSUME IInv, NEW signal \in Sides \cup {"Flat"}, Bar(signal)
  PROVE  IInv'
<1> DEFINE p1 == IF Expired(open) THEN Nothing ELSE open
           p2 == IF Turned(p1) THEN Nothing ELSE p1
<1>1. i \in Index /\ i' = i + 1 /\ i' \in 1..Bars + 1
  BY BarsAssumption DEF IInv, TypeOK, Bar, Index
<1>2. /\ cfg' = cfg /\ quoted' = quoted /\ result' = result
      /\ cfg \in Configs /\ Delay \in Nat \ {0} /\ Delay' = Delay
  BY DelayTyped DEF Bar, IInv, TypeOK, Delay
<1>3. /\ open' = IF Enters(p2) THEN Entered ELSE p2
      /\ p2 \in {open, Nothing}
  BY DEF Bar
<1>4. pending' \in Signals \cup {Nothing} /\ (pending' # Nothing => pending'.bar < i')
  <2>1. CASE signal \in Sides
    <3>1. pending' = [side |-> signal, bar |-> i]
      BY <2>1 DEF Bar
    <3> QED
      BY <1>1, <2>1, <3>1 DEF Signals, Index
  <2>2. CASE signal \notin Sides
    <3>1. pending' \in {pending, Nothing}
      BY <2>2 DEF Bar, Waiting
    <3>2. pending # Nothing => pending.bar \in Index
      BY DEF IInv, TypeOK, Signals
    <3> QED
      BY <1>1, <3>1, <3>2 DEF IInv, TypeOK, Index
  <2> QED
    BY <2>1, <2>2
<1>5. /\ open' \in Positions \cup {Nothing}
      /\ open' # Nothing => open'.entry >= open'.signal + Delay /\ open'.entry < i'
  <2>1. CASE Enters(p2)
    <3>1. pending \in Signals /\ i >= pending.bar + Delay
      BY <2>1 DEF Enters, Due, IInv, TypeOK
    <3>2. pending.side \in Sides /\ pending.bar \in Index
      BY <3>1 DEF Signals
    <3>3. open' = [side |-> pending.side, entry |-> i, signal |-> pending.bar]
      BY <1>3, <2>1 DEF Entered
    <3> QED
      BY <1>1, <3>1, <3>2, <3>3 DEF Positions, Index
  <2>2. CASE ~Enters(p2) /\ p2 = Nothing
    BY <1>3, <2>2
  <2>3. CASE ~Enters(p2) /\ p2 = open /\ open # Nothing
    <3>1. open' = open
      BY <1>3, <2>3
    <3> QED
      BY <1>1, <2>3, <3>1, ClosedTyped DEF IInv, TypeOK, Patient, Index
  <2> QED
    BY <1>3, <2>1, <2>2, <2>3
<1>6. trades' \in Seq(Trades) /\ \A k \in DOMAIN trades' : trades'[k].entry >= trades'[k].signal + Delay
  <2>1. CASE trades' = trades
    BY <2>1 DEF IInv, TypeOK, Patient
  <2>2. CASE trades' # trades
    <3>1. open # Nothing /\ trades' = Append(trades, Closed(open, i - open.entry))
      BY <1>3, <2>2 DEF Bar
    <3>2. /\ Closed(open, i - open.entry) \in Trades
          /\ Closed(open, i - open.entry).entry >= Closed(open, i - open.entry).signal + Delay
      BY <1>1, <3>1, ClosedTyped DEF Closed, Trades, IInv, Patient
    <3> HIDE DEF Closed
    <3>3. trades \in Seq(Trades) /\ \A k \in DOMAIN trades : trades[k].entry >= trades[k].signal + Delay
      BY DEF IInv, TypeOK, Patient
    <3> QED
      BY <3>1, <3>2, <3>3
  <2> QED
    BY <2>1, <2>2
<1> QED
  BY <1>1, <1>2, <1>4, <1>5, <1>6 DEF IInv, TypeOK, Patient

\* After the last bar what is open is closed, or the run fails.
LEMMA EndStep == IInv /\ End => IInv'
<1> SUFFICES ASSUME IInv, End PROVE IInv'
  OBVIOUS
<1>1. /\ cfg' = cfg /\ quoted' = quoted /\ i' = i /\ pending' = pending
      /\ cfg \in Configs /\ Delay \in Nat \ {0} /\ Delay' = Delay
      /\ result' \in {"report", "error"} /\ open' \in {open, Nothing}
  BY DelayTyped DEF End, IInv, TypeOK, Delay
<1>2. trades' \in Seq(Trades) /\ \A k \in DOMAIN trades' : trades'[k].entry >= trades'[k].signal + Delay
  <2>1. CASE trades' = trades
    BY <2>1 DEF IInv, TypeOK, Patient
  <2>2. CASE trades' # trades
    <3> DEFINE last == [Closed(open, i - open.entry) EXCEPT !.exit = Bars]
    <3>1. open # Nothing /\ trades' = Append(trades, last)
      BY <2>2 DEF End
    <3>2. last \in Trades /\ last.entry >= last.signal + Delay
      BY <1>1, <3>1, ClosedTyped, BarsAssumption DEF Closed, Trades, IInv, Patient, Index
    <3> HIDE DEF last
    <3>3. trades \in Seq(Trades) /\ \A k \in DOMAIN trades : trades[k].entry >= trades[k].signal + Delay
      BY DEF IInv, TypeOK, Patient
    <3> QED
      BY <3>1, <3>2, <3>3
  <2> QED
    BY <2>1, <2>2
<1> QED
  BY <1>1, <1>2 DEF IInv, TypeOK, Patient

\* The inductive invariant holds in every reachable state.
LEMMA Inductive == Spec => []IInv
<1>1. Init => IInv
  BY InitIInv
<1>2. IInv /\ [Next]_vars => IInv'
  <2> SUFFICES ASSUME IInv, [Next]_vars PROVE IInv'
    OBVIOUS
  <2>1. CASE End
    BY <2>1, EndStep
  <2>2. ASSUME NEW signal \in Sides \cup {"Flat"}, Bar(signal) PROVE IInv'
    BY <2>2, BarStep
  <2>3. CASE UNCHANGED vars
    BY <2>3 DEF vars, IInv, TypeOK, Patient, Delay
  <2> QED
    BY <2>1, <2>2, <2>3 DEF Next
<1> QED
  BY <1>1, <1>2, PTL DEF Spec

-----------------------------------------------------------------------------
\* The types of the variables.
THEOREM TypeCorrect == Spec => []TypeOK
<1>1. IInv => TypeOK
  BY DEF IInv
<1> QED
  BY <1>1, Inductive, PTL

\* No engine looks ahead: whatever the latency, a position is entered at a later
\* bar than the one that gave the signal.
THEOREM Causal == Spec => []NoLookAhead
<1>1. ASSUME IInv, NEW k \in DOMAIN All
      PROVE  All[k] \in Trades /\ All[k].entry >= All[k].signal + Delay
  <2>0. trades \in Seq(Trades)
    BY <1>1 DEF IInv, TypeOK
  <2>1. CASE open = Nothing
    <3>1. All = trades
      BY <2>0, <2>1 DEF All
    <3> QED
      BY <1>1, <2>0, <3>1 DEF IInv, Patient
  <2>2. CASE open # Nothing
    <3> DEFINE last == [Closed(open, 0) EXCEPT !.exit = open.entry]
    <3>1. last \in Trades /\ last.entry >= last.signal + Delay
      <4>1. i \in Nat /\ Bars \in Nat /\ open.entry \in 1..Bars /\ open.signal \in 1..Bars
        BY <1>1, <2>2, ClosedTyped, BarsAssumption DEF IInv, TypeOK, Index
      <4>2. last = [side |-> open.side, entry |-> open.entry, signal |-> open.signal,
                    exit |-> open.entry, held |-> 0]
        BY DEF Closed
      <4> QED
        BY <1>1, <2>2, <4>1, <4>2, ClosedTyped DEF Trades, Index, IInv, Patient
    <3> HIDE DEF last
    <3>2. All = trades \o <<last>>
      BY <2>2 DEF All, last
    <3>3. k \in 1..Len(trades) + 1
      BY <1>1, <2>0, <3>1, <3>2
    <3>4. CASE k \in 1..Len(trades)
      <4>1. All[k] = trades[k] /\ k \in DOMAIN trades
        BY <2>0, <3>1, <3>2, <3>4
      <4> QED
        BY <1>1, <2>0, <4>1 DEF IInv, Patient
    <3>5. CASE k = Len(trades) + 1
      <4>1. All[k] = last
        BY <2>0, <3>1, <3>2, <3>5
      <4> QED
        BY <3>1, <4>1
    <3> QED
      BY <3>3, <3>4, <3>5
  <2> QED
    BY <2>1, <2>2
<1>2. IInv => NoLookAhead
  <2> SUFFICES ASSUME IInv, NEW k \in DOMAIN All
               PROVE  All[k].entry > All[k].signal /\ All[k].entry >= All[k].signal + cfg.latency
    BY DEF NoLookAhead
  <2>1. All[k].entry \in Nat /\ All[k].signal \in Nat /\ All[k].entry >= All[k].signal + Delay
    BY <1>1, BarsAssumption DEF Trades, Index
  <2>2. cfg.latency \in Nat
    BY ConfigsAssumption DEF IInv, TypeOK, Config
  <2>3. Delay \in Nat /\ Delay >= 1 /\ Delay >= cfg.latency
    BY <2>2 DEF Delay
  <2> QED
    BY <2>1, <2>2, <2>3
<1> QED
  BY <1>2, Inductive, PTL

-----------------------------------------------------------------------------
(* Positions follow each other and are closed in time.                      *)

Unquoted(side, from, to) == \A b \in from .. to : side \notin quoted[b]

Before(t, p) == t.exit <= p.entry /\ t.signal < p.signal

Ended(t) ==
  /\ t.entry <= t.exit
  /\ Unquoted(t.side, t.entry + cfg.maxHold, t.exit - 1)

\* The trades are in order, the open position comes after all of them, and the
\* signal that waits after the one of the position; the position had no price
\* since it has been held long enough.
Orderly ==
  /\ \A k \in DOMAIN trades : Ended(trades[k]) /\ trades[k].exit < i
  /\ \A j, k \in DOMAIN trades : j < k => Before(trades[j], trades[k])
  /\ open # Nothing =>
       /\ Unquoted(open.side, open.entry + cfg.maxHold, i - 1)
       /\ \A k \in DOMAIN trades : Before(trades[k], open)
  /\ pending # Nothing =>
       /\ \A k \in DOMAIN trades : trades[k].signal < pending.bar
       /\ open # Nothing => open.signal < pending.bar

\* A sequence that grew has the old elements and the new one.
LEMMA Grown ==
  ASSUME NEW s \in Seq(Trades), NEW c \in Trades
  PROVE  /\ DOMAIN s = 1..Len(s) /\ Len(s) \in Nat
         /\ \A k \in 1..Len(s) : s[k] \in Trades
         /\ DOMAIN Append(s, c) = 1..(Len(s) + 1)
         /\ Append(s, c)[Len(s) + 1] = c
         /\ \A k \in 1..Len(s) : Append(s, c)[k] = s[k]
OBVIOUS

\* The fields of what is typed
LEMMA Fields ==
  /\ \A t \in Trades : t.entry \in 1..Bars /\ t.exit \in 1..Bars /\ t.signal \in 1..Bars
  /\ \A p \in Positions : p.entry \in 1..Bars /\ p.signal \in 1..Bars /\ p.side \in Sides
  /\ \A s \in Signals : s.bar \in 1..Bars /\ s.side \in Sides
  /\ cfg \in Configs => cfg.maxHold \in Nat \ {0}
BY ConfigsAssumption DEF Trades, Positions, Signals, Index, Config

\* Closing the open position at a bar that is not after the next one keeps the
\* trades in order.
LEMMA CloseStep ==
  ASSUME IInv, Orderly, open # Nothing,
         NEW c \in Trades, trades' = Append(trades, c),
         c.side = open.side, c.entry = open.entry, c.signal = open.signal,
         open.entry <= c.exit, c.exit <= i, c.exit < i',
         i' \in Nat, i <= i'
  PROVE  /\ \A k \in DOMAIN trades' : Ended(trades'[k]) /\ trades'[k].exit < i'
         /\ \A j, k \in DOMAIN trades' : j < k => Before(trades'[j], trades'[k])
         /\ \A k \in DOMAIN trades' :
              trades'[k] = c \/ \E j \in DOMAIN trades : trades'[k] = trades[j]
<1> DEFINE n == Len(trades)
<1>1. /\ trades \in Seq(Trades) /\ open \in Positions /\ i \in Nat /\ i' >= i
      /\ i' \in Nat /\ cfg.maxHold \in Nat /\ Bars \in Nat
  BY ClosedTyped, Fields, BarsAssumption DEF IInv, TypeOK
<1>2. /\ n \in Nat /\ DOMAIN trades = 1..n /\ DOMAIN trades' = 1..(n + 1)
      /\ trades'[n + 1] = c /\ \A k \in 1..n : trades'[k] = trades[k] /\ trades[k] \in Trades
  BY <1>1, Grown
<1>3. c.exit \in 1..Bars /\ c.entry \in 1..Bars
  BY Fields
<1> HIDE DEF n
<1>4. Ended(c) /\ c.exit < i'
  <2>1. Unquoted(open.side, open.entry + cfg.maxHold, i - 1)
    BY DEF Orderly
  <2>2. \A b \in (c.entry + cfg.maxHold) .. (c.exit - 1) : b \in (open.entry + cfg.maxHold) .. (i - 1)
    BY <1>1, <1>3
  <2> QED
    BY <1>3, <2>1, <2>2 DEF Ended, Unquoted
<1>5. ASSUME NEW k \in 1..n PROVE Ended(trades[k]) /\ trades[k].exit < i'
  <2>1. Ended(trades[k]) /\ trades[k].exit < i /\ trades[k] \in Trades
    BY <1>2 DEF Orderly
  <2>2. trades[k].exit \in 1..Bars
    BY <2>1, Fields
  <2> QED
    BY <1>1, <2>1, <2>2
<1>6. \A k \in 1..n : Before(trades[k], c)
  BY <1>2 DEF Orderly, Before
<1>7. ASSUME NEW k \in DOMAIN trades' PROVE Ended(trades'[k]) /\ trades'[k].exit < i'
  <2>1. k \in 1..n \/ k = n + 1
    BY <1>2
  <2> QED
    BY <1>2, <1>4, <1>5, <2>1
<1>8. ASSUME NEW j \in DOMAIN trades', NEW k \in DOMAIN trades', j < k
      PROVE  Before(trades'[j], trades'[k])
  <2>1. j \in 1..n /\ (k \in 1..n \/ k = n + 1)
    BY <1>2, <1>8
  <2>2. CASE k \in 1..n
    BY <1>2, <1>8, <2>1, <2>2 DEF Orderly
  <2>3. CASE k = n + 1
    BY <1>2, <1>6, <2>1, <2>3
  <2> QED
    BY <2>1, <2>2, <2>3
<1>9. ASSUME NEW k \in DOMAIN trades'
      PROVE  trades'[k] = c \/ \E j \in DOMAIN trades : trades'[k] = trades[j]
  <2>1. k \in 1..n \/ k = n + 1
    BY <1>2
  <2> QED
    BY <1>2, <2>1
<1> QED
  BY <1>7, <1>8, <1>9

\* A bar: what is closed comes before what is opened, and its signal before the
\* one that waits.
LEMMA BarOrderly ==
  ASSUME IInv, Orderly, NEW signal \in Sides \cup {"Flat"}, Bar(signal)
  PROVE  Orderly'
<1> DEFINE p1 == IF Expired(open) THEN Nothing ELSE open
           p2 == IF Turned(p1) THEN Nothing ELSE p1
<1>1. /\ i \in 1..Bars /\ i' = i + 1 /\ i' \in Nat /\ Bars \in Nat
      /\ cfg' = cfg /\ quoted' = quoted
      /\ Delay \in Nat \ {0} /\ cfg.maxHold \in Nat \ {0}
      /\ open' = IF Enters(p2) THEN Entered ELSE p2
      /\ p2 \in {open, Nothing}
      /\ trades' = IF p2 = open THEN trades ELSE Append(trades, Closed(open, i - open.entry))
      /\ pending' = IF signal \in Sides THEN [side |-> signal, bar |-> i] ELSE Waiting
  BY DelayTyped, Fields, BarsAssumption DEF IInv, TypeOK, Bar
<1>2. ASSUME NEW k \in DOMAIN trades
      PROVE  /\ Ended(trades[k]) /\ trades[k].exit < i /\ trades[k] \in Trades
             /\ trades[k].signal < i
  <2>1. Ended(trades[k]) /\ trades[k].exit < i /\ trades[k] \in Trades /\ Patient(trades[k])
    BY DEF Orderly, IInv, TypeOK
  <2> QED
    BY <1>1, <2>1, Fields DEF Ended, Patient
<1>3. open # Nothing => /\ open \in Positions /\ open.signal \in 1..Bars /\ open.entry \in 1..Bars
                        /\ open.signal < open.entry /\ open.entry < i
  BY <1>1, ClosedTyped, Fields DEF IInv, Patient
<1>4. pending # Nothing => pending \in Signals /\ pending.bar \in 1..Bars /\ pending.bar < i
  BY Fields DEF IInv, TypeOK
<1>5. /\ \A k \in DOMAIN trades' : Ended(trades'[k]) /\ trades'[k].exit < i'
      /\ \A j, k \in DOMAIN trades' : j < k => Before(trades'[j], trades'[k])
      /\ \A k \in DOMAIN trades' :
           /\ trades'[k].exit \in 1..i /\ trades'[k].signal \in 1..Bars /\ trades'[k].signal < i
           /\ pending # Nothing => trades'[k].signal < pending.bar
  <2>1. CASE p2 = open
    <3>1. trades' = trades
      BY <1>1, <2>1
    <3>2. \A k \in DOMAIN trades : trades[k].exit \in 1..i /\ trades[k].signal \in 1..Bars
      BY <1>1, <1>2, Fields
    <3>3. \A k \in DOMAIN trades : trades[k].exit < i'
      BY <1>1, <1>2, <3>2
    <3> QED
      BY <1>2, <3>1, <3>2, <3>3 DEF Orderly
  <2>2. CASE p2 # open
    <3>1. open # Nothing /\ trades' = Append(trades, Closed(open, i - open.entry))
      BY <1>1, <2>2
    <3>2. /\ Closed(open, i - open.entry) \in Trades
          /\ Closed(open, i - open.entry).side = open.side
          /\ Closed(open, i - open.entry).entry = open.entry
          /\ Closed(open, i - open.entry).signal = open.signal
          /\ Closed(open, i - open.entry).exit = i
      BY <1>1, <1>3, <3>1, ClosedTyped DEF Closed, Trades, Index
    <3> HIDE DEF Closed
    <3>3. PICK c \in Trades : c = Closed(open, i - open.entry)
      BY <3>2
    <3>4. /\ \A k \in DOMAIN trades' : Ended(trades'[k]) /\ trades'[k].exit < i'
          /\ \A j, k \in DOMAIN trades' : j < k => Before(trades'[j], trades'[k])
          /\ \A k \in DOMAIN trades' :
               trades'[k] = c \/ \E j \in DOMAIN trades : trades'[k] = trades[j]
      <4>1. /\ trades' = Append(trades, c) /\ c.side = open.side /\ c.entry = open.entry
            /\ c.signal = open.signal /\ c.exit = i /\ c.exit <= i
        BY <1>1, <3>1, <3>2, <3>3
      <4>2. open.entry <= c.exit /\ c.exit < i' /\ i <= i'
        BY <1>1, <1>3, <3>1, <4>1
      <4> QED
        BY <1>1, <3>1, <4>1, <4>2, CloseStep
    <3>5. ASSUME NEW k \in DOMAIN trades'
          PROVE  /\ trades'[k].exit \in 1..i /\ trades'[k].signal \in 1..Bars /\ trades'[k].signal < i
                 /\ pending # Nothing => trades'[k].signal < pending.bar
      <4>1. CASE trades'[k] = c
        BY <1>1, <1>3, <3>1, <3>2, <3>3, <4>1 DEF Orderly
      <4>2. CASE \E j \in DOMAIN trades : trades'[k] = trades[j]
        <5>1. PICK j \in DOMAIN trades : trades'[k] = trades[j]
          BY <4>2
        <5>2. trades[j].exit \in 1..i /\ trades[j].signal \in 1..Bars
          BY <1>1, <1>2, Fields
        <5>3. pending # Nothing => trades[j].signal < pending.bar
          BY DEF Orderly
        <5> QED
          BY <1>2, <5>1, <5>2, <5>3
      <4> QED
        BY <3>4, <4>1, <4>2
    <3> QED
      BY <3>4, <3>5
  <2> QED
    BY <2>1, <2>2
<1>6. open' # Nothing =>
        /\ \A b \in (open'.entry + cfg.maxHold) .. i : open'.side \notin quoted[b]
        /\ \A k \in DOMAIN trades' : Before(trades'[k], open')
        /\ open'.signal < i
  <2>1. CASE Enters(p2)
    <3>1. pending # Nothing /\ open' = [side |-> pending.side, entry |-> i, signal |-> pending.bar]
      BY <1>1, <2>1 DEF Enters, Due, Entered
    <3>2. \A k \in DOMAIN trades' : Before(trades'[k], open')
      BY <1>1, <1>5, <3>1 DEF Before
    <3>3. (open'.entry + cfg.maxHold) .. i = {} /\ open'.signal < i
      BY <1>1, <1>4, <3>1
    <3> QED
      BY <3>2, <3>3
  <2>2. CASE ~Enters(p2) /\ p2 = open /\ open # Nothing
    <3>1. open' = open /\ trades' = trades /\ ~Expired(open)
      BY <1>1, <2>2
    <3>2. ASSUME NEW b \in (open.entry + cfg.maxHold) .. i PROVE open.side \notin quoted[b]
      <4>1. CASE b = i
        <5>1. i - open.entry >= cfg.maxHold
          BY <1>1, <1>3, <2>2, <4>1
        <5> QED
          BY <2>2, <3>1, <4>1, <5>1 DEF Expired, Tradable
      <4>2. CASE b # i
        <5>1. b \in (open.entry + cfg.maxHold) .. (i - 1)
          BY <1>1, <1>3, <2>2, <4>2
        <5> QED
          BY <2>2, <5>1 DEF Orderly, Unquoted
      <4> QED
        BY <4>1, <4>2
    <3>3. open.signal < i
      BY <1>1, <1>3, <2>2
    <3> QED
      BY <2>2, <3>1, <3>2, <3>3 DEF Orderly
  <2>3. CASE ~Enters(p2) /\ p2 = Nothing
    BY <1>1, <2>3
  <2> QED
    BY <1>1, <2>1, <2>2, <2>3
<1>7. pending' # Nothing =>
        /\ \A k \in DOMAIN trades' : trades'[k].signal < pending'.bar
        /\ open' # Nothing => open'.signal < pending'.bar
  <2>1. CASE signal \in Sides
    <3>1. pending' = [side |-> signal, bar |-> i]
      BY <1>1, <2>1
    <3> QED
      BY <1>5, <1>6, <3>1
  <2>2. CASE signal \notin Sides /\ Due
    BY <1>1, <2>2 DEF Waiting
  <2>3. CASE signal \notin Sides /\ ~Due
    <3>1. pending' = pending /\ open' \in {open, Nothing}
      BY <1>1, <2>3 DEF Waiting, Enters
    <3> QED
      BY <1>5, <3>1 DEF Orderly
  <2> QED
    BY <2>1, <2>2, <2>3
<1>8. i' - 1 = i
  BY <1>1
<1> HIDE DEF p1, p2
<1> QED
  BY <1>1, <1>5, <1>6, <1>7, <1>8 DEF Orderly, Ended, Unquoted, Before

\* After the last bar the position is closed at that bar, if at all.
LEMMA EndOrderly == IInv /\ Orderly /\ End => Orderly'
<1> SUFFICES ASSUME IInv, Orderly, End PROVE Orderly'
  OBVIOUS
<1>1. /\ cfg' = cfg /\ quoted' = quoted /\ i' = i /\ pending' = pending
      /\ i = Bars + 1 /\ Bars \in Nat /\ i' \in Nat
      /\ open' \in {open, Nothing}
  BY BarsAssumption DEF End
<1>2. CASE trades' = trades
  BY <1>1, <1>2 DEF Orderly, Ended, Unquoted, Before
<1>3. CASE trades' # trades
  <2> DEFINE last == [Closed(open, i - open.entry) EXCEPT !.exit = Bars]
  <2>1. open # Nothing /\ trades' = Append(trades, last) /\ open' = Nothing
    BY <1>3 DEF End
  <2>2. /\ open.entry \in 1..Bars
        /\ last \in Trades /\ last.side = open.side /\ last.entry = open.entry
        /\ last.signal = open.signal /\ last.exit = Bars
    <3>1. last = [side |-> open.side, entry |-> open.entry, signal |-> open.signal,
                  exit |-> Bars, held |-> i - open.entry]
      BY DEF Closed
    <3>2. /\ open.entry \in 1..Bars /\ open.signal \in 1..Bars /\ open.side \in Sides
          /\ Bars \in 1..Bars /\ i - open.entry \in 0..Bars
      BY <1>1, <2>1, ClosedTyped, BarsAssumption DEF Index
    <3> QED
      BY <3>1, <3>2 DEF Trades, Index
  <2> HIDE DEF last
  <2>3. PICK c \in Trades : c = last
    BY <2>2
  <2>4. /\ \A k \in DOMAIN trades' : Ended(trades'[k]) /\ trades'[k].exit < i'
        /\ \A j, k \in DOMAIN trades' : j < k => Before(trades'[j], trades'[k])
        /\ \A k \in DOMAIN trades' :
             trades'[k] = c \/ \E j \in DOMAIN trades : trades'[k] = trades[j]
    <3>1. open.entry <= c.exit /\ c.exit <= i /\ c.exit < i' /\ i <= i'
      BY <1>1, <2>2, <2>3
    <3> QED
      BY <1>1, <2>1, <2>2, <2>3, <3>1, CloseStep
  <2>5. pending' # Nothing => \A k \in DOMAIN trades' : trades'[k].signal < pending'.bar
    BY <1>1, <2>1, <2>2, <2>3, <2>4 DEF Orderly
  <2> QED
    BY <1>1, <2>1, <2>4, <2>5 DEF Orderly, Ended, Unquoted
<1> QED
  BY <1>2, <1>3

\* The order of trades holds in every reachable state.
LEMMA AlwaysOrderly == Spec => []Orderly
<1>1. Init => Orderly
  BY DEF Init, Orderly
<1>2. IInv /\ Orderly /\ [Next]_vars => Orderly'
  <2> SUFFICES ASSUME IInv, Orderly, [Next]_vars PROVE Orderly'
    OBVIOUS
  <2>1. CASE End
    BY <2>1, EndOrderly
  <2>2. ASSUME NEW signal \in Sides \cup {"Flat"}, Bar(signal) PROVE Orderly'
    BY <2>2, BarOrderly
  <2>3. CASE UNCHANGED vars
    BY <2>3 DEF vars, Orderly, Ended, Unquoted, Before
  <2> QED
    BY <2>1, <2>2, <2>3 DEF Next
<1> QED
  BY <1>1, <1>2, Inductive, PTL DEF Spec

\* The elements of All: the trades, and then the open position.
LEMMA InAll ==
  ASSUME IInv
  PROVE  /\ open = Nothing => All = trades
         /\ open # Nothing =>
              /\ Len(All) = Len(trades) + 1 /\ DOMAIN All = 1..(Len(trades) + 1)
              /\ \A k \in 1..Len(trades) : All[k] = trades[k]
              /\ All[Len(trades) + 1].entry = open.entry
              /\ All[Len(trades) + 1].exit = open.entry
              /\ All[Len(trades) + 1].signal = open.signal
         /\ Len(trades) \in Nat /\ DOMAIN trades = 1..Len(trades)
<1>0. trades \in Seq(Trades)
  BY DEF IInv, TypeOK
<1>1. CASE open = Nothing
  BY <1>0, <1>1 DEF All
<1>2. CASE open # Nothing
  <2> DEFINE last == [Closed(open, 0) EXCEPT !.exit = open.entry]
  <2>1. i \in Nat /\ Bars \in Nat /\ open.entry \in 1..Bars /\ open.signal \in 1..Bars
    BY <1>2, ClosedTyped, BarsAssumption DEF IInv, TypeOK, Index
  <2>2. last = [side |-> open.side, entry |-> open.entry, signal |-> open.signal,
                exit |-> open.entry, held |-> 0]
    BY DEF Closed
  <2>3. last \in Trades /\ last.entry = open.entry /\ last.exit = open.entry
        /\ last.signal = open.signal
    BY <1>2, <2>1, <2>2, ClosedTyped DEF Trades, Index
  <2> HIDE DEF last
  <2>4. All = trades \o <<last>>
    BY <1>2 DEF All, last
  <2> QED
    BY <1>0, <1>2, <2>3, <2>4
<1> QED
  BY <1>1, <1>2

\* One position at a time: no position is entered before the one before it is
\* closed, and no signal opens two.
THEOREM InOrder == Spec => []OneAtATime
<1>1. IInv /\ Orderly => OneAtATime
  <2> SUFFICES ASSUME IInv, Orderly PROVE OneAtATime
    OBVIOUS
  <2> DEFINE n == Len(trades)
  <2>0. n \in Nat /\ DOMAIN trades = 1..n
    BY InAll
  <2>1. \A k \in 1..n : trades[k].entry <= trades[k].exit
    BY <2>0 DEF Orderly, Ended
  <2>2. \A k \in 2..n : Before(trades[k - 1], trades[k])
    <3> TAKE k \in 2..n
    <3>1. k \in 1..n /\ k - 1 \in 1..n /\ k - 1 < k
      BY <2>0
    <3> QED
      BY <2>0, <3>1 DEF Orderly
  <2>3. CASE open = Nothing
    BY <2>0, <2>1, <2>2, <2>3, InAll DEF OneAtATime, Before
  <2>4. CASE open # Nothing
    <3>1. /\ Len(All) = n + 1 /\ DOMAIN All = 1..(n + 1)
          /\ \A k \in 1..n : All[k] = trades[k]
          /\ All[n + 1].entry = open.entry /\ All[n + 1].exit = open.entry
          /\ All[n + 1].signal = open.signal
      BY <2>4, InAll
    <3>2. open.entry \in 1..Bars /\ Bars \in Nat
      BY <2>4, ClosedTyped, BarsAssumption DEF Index
    <3> HIDE DEF n
    <3>3. ASSUME NEW k \in 1..(n + 1) PROVE All[k].entry <= All[k].exit
      <4>1. CASE k \in 1..n
        BY <2>1, <3>1, <4>1
      <4>2. CASE k = n + 1
        BY <3>1, <3>2, <4>2
      <4> QED
        BY <2>0, <4>1, <4>2
    <3>4. ASSUME NEW k \in 2..(n + 1)
          PROVE  All[k - 1].exit <= All[k].entry /\ All[k - 1].signal < All[k].signal
      <4>1. CASE k \in 2..n
        <5>1. k \in 1..n /\ k - 1 \in 1..n
          BY <2>0, <4>1
        <5> QED
          BY <2>2, <3>1, <4>1, <5>1 DEF Before
      <4>2. CASE k = n + 1
        <5>1. k - 1 = n /\ n \in 1..n
          BY <2>0, <4>2
        <5>2. Before(trades[n], open)
          BY <2>0, <2>4, <5>1 DEF Orderly
        <5> QED
          BY <3>1, <4>2, <5>1, <5>2 DEF Before
      <4> QED
        BY <2>0, <4>1, <4>2
    <3> QED
      BY <3>1, <3>3, <3>4 DEF OneAtATime
  <2> QED
    BY <2>3, <2>4
<1> QED
  BY <1>1, Inductive, AlwaysOrderly, PTL

\* A position is held for longer than configured only while it has no price.
THEOREM ClosedInTime == Spec => []HoldBounded
<1>1. IInv /\ Orderly => HoldBounded
  BY DEF HoldBounded, Orderly, Ended, Unquoted
<1> QED
  BY <1>1, Inductive, AlwaysOrderly, PTL

\* With the default latency a signal is acted on at the next bar, unless a side
\* has no price there.
THEOREM ActedOn == Spec => SignalsTaken
<1>1. IInv /\ [Next]_vars =>
        [pending # Nothing /\ cfg.latency <= 1 /\ i <= Bars /\ result = "running" =>
           \/ open' # Nothing /\ open'.side = pending.side
           \/ quoted[i] # Sides]_vars
  <2> SUFFICES ASSUME IInv, NEW signal \in Sides \cup {"Flat"}, Bar(signal),
                      pending # Nothing, cfg.latency <= 1, quoted[i] = Sides
               PROVE  open' # Nothing /\ open'.side = pending.side
    <3>1. End => ~(i <= Bars)
      BY BarsAssumption DEF End
    <3> QED
      BY <3>1 DEF Next
  <2> DEFINE p1 == IF Expired(open) THEN Nothing ELSE open
             p2 == IF Turned(p1) THEN Nothing ELSE p1
  <2>1. /\ pending.side \in Sides /\ pending.bar < i /\ pending.bar \in 1..Bars
        /\ i \in Nat /\ Bars \in Nat
    BY Fields, BarsAssumption DEF IInv, TypeOK
  <2>2. Delay = 1
    <3>1. cfg.latency \in Nat
      BY ConfigsAssumption DEF IInv, TypeOK, Config
    <3> QED
      BY <3>1 DEF Delay
  <2>3. Due /\ Tradable(pending)
    BY <2>1, <2>2 DEF Due, Tradable
  <2>4. open' = IF p2 = Nothing THEN Entered ELSE p2
    BY <2>3 DEF Bar, Enters
  <2>5. CASE p2 = Nothing
    <3>1. open' = [side |-> pending.side, entry |-> i, signal |-> pending.bar]
      BY <2>4, <2>5 DEF Entered
    <3>2. open' \in Positions
      BY <2>1, <3>1, BarsAssumption DEF Positions, Index, Bar
    <3> QED
      BY <3>1, <3>2, NotNothing
  <2>6. CASE p2 # Nothing
    <3>1. p2 = open /\ p1 = open /\ open # Nothing /\ ~Turned(open)
      BY <2>6
    <3>2. open.side \in quoted[i]
      BY <3>1, ClosedTyped
    <3>3. open.side = pending.side
      BY <2>3, <3>1, <3>2 DEF Turned, Tradable
    <3> QED
      BY <2>4, <2>6, <3>1, <3>3
  <2> QED
    BY <2>5, <2>6
<1> QED
  BY <1>1, Inductive, PTL DEF Spec, SignalsTaken
=============================================================================
