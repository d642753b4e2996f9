---------------------------- MODULE WatchdogProofs ----------------------------
(***************************************************************************)
(* Proofs about Watchdog.tla for every period, delay and length of a step. *)
(* What they take from the unit and the defaults has a name: systemd waits *)
(* for no more than two heartbeats (TwoBeats: 30 and 15), and the back-off *)
(* of the sixth retry is longer than it waits (LongBackOff: 102 s against  *)
(* 30 and 90, in a budget of 10).                                          *)
(***************************************************************************)
EXTENDS Watchdog, TLAPS

TwoBeats == WatchdogSec <= 2 * Heartbeat /\ Heartbeat <= LongAgo

-----------------------------------------------------------------------------
(* Types                                                                    *)

\* An age grows to an age.
LEMMA AgedIsAge ==
  ASSUME NEW age \in Nat, NEW d \in Nat, NEW cap \in Nat
  PROVE  /\ Aged(age, d, cap) \in Nat
         /\ Aged(age, d, cap) <= age + d
  BY DEF Aged

\* The watchdog is fed at an interval of at least a second.
LEMMA IntervalIsNat == Interval \in Nat
  BY PeriodAssumption DEF Interval

\* What a step takes is a number of seconds.
LEMMA CostsAreNat ==
  ASSUME TypeOK
  PROVE  Costs \subseteq Nat
<1>1. /\ Work \subseteq Nat /\ Tick \in Nat /\ Heartbeat \in Nat /\ BusyTimeout \in Nat
      /\ InitialDelay \in Nat /\ MaxDelay \in Nat
  BY PeriodAssumption, DelayAssumption, WorkAssumption
<1>2. <<1, 2, 4, 8, 16, 32, 64>>[1 + IF retries < 6 THEN retries ELSE 6] \in Nat
  <2>1. retries \in Nat
    BY DelayAssumption DEF TypeOK
  <2>2. (1 + IF retries < 6 THEN retries ELSE 6) \in 1..7
    BY <2>1
  <2>3. \A i \in 1..7 : <<1, 2, 4, 8, 16, 32, 64>>[i] \in Nat
    OBVIOUS
  <2> QED BY <2>2, <2>3
<1>3. Doubled \in Nat
  BY <1>1, <1>2 DEF Doubled
<1>4. Capped(Doubled) \in Nat /\ Capped((6 * Capped(Doubled)) \div 5) \in Nat
  BY <1>1, <1>3 DEF Capped
<1>5. Delays \subseteq Nat
  BY <1>1, <1>4 DEF Delays
<1>6. /\ {w + Tick : w \in Work} \subseteq Nat
      /\ {d + w : d \in Delays, w \in Work} \subseteq Nat
  BY <1>1, <1>5
<1> QED BY <1>1, <1>6 DEF Costs

\* The ages after some seconds are ages.
LEMMA PassesKeepsAges ==
  ASSUME TypeOK, NEW d \in Nat, NEW since \in Nat, Passes(d, since)
  PROVE  {beat', ping', progress', fed', up', took'} \subseteq Nat
<1>1. {beat, ping, progress, fed, up, took} \subseteq Nat
  BY DEF TypeOK
<1>2. Heartbeat \in Nat /\ Stall + 1 \in Nat /\ WatchdogSec \in Nat /\ StartTimeout \in Nat
  BY PeriodAssumption
<1>3. beat' \in Nat /\ ping' \in Nat /\ progress' \in Nat
  BY <1>1, <1>2, IntervalIsNat, AgedIsAge DEF Passes
<1>4. fed' \in Nat /\ up' \in Nat
  BY <1>1, <1>2, AgedIsAge DEF Passes
<1> QED BY <1>1, <1>3, <1>4 DEF Passes

\* Every body of a step that the process survives is an amount of time, and leaves
\* to systemd what it knew.
LEMMA BodyPasses ==
  ASSUME TypeOK, Body, ~BodyDies
  PROVE  \E d \in Nat, since \in Nat :
           /\ proc = "body" /\ proc' = "head" /\ ~Ended(d) /\ Passes(d, since)
           /\ UNCHANGED <<outside, stalled, ready>>
<1>1. /\ progress \in Nat /\ Tick \in Nat /\ Heartbeat \in Nat /\ Work \subseteq Nat
      /\ Refusal \subseteq Nat
  BY PeriodAssumption, WorkAssumption DEF TypeOK, Refusal
<1>2. \A d, since : Lasts(d, since) /\ ready' = ready /\ since \in Nat =>
        /\ d \in Nat
        /\ proc = "body" /\ proc' = "head" /\ ~Ended(d) /\ Passes(d, since)
        /\ UNCHANGED <<outside, stalled, ready>>
  BY CostsAreNat DEF Lasts
<1>3. CASE Turn \/ Sleep
  BY <1>1, <1>2, <1>3 DEF Turn, Sleep, memory
<1>4. CASE Trade
  <2>1. PICK w \in Work : Lasts(w + Tick, progress + w + Tick) \/ Lasts(w + Tick, Tick)
    BY <1>4 DEF Trade
  <2>2. w \in Nat /\ ready' = ready
    BY <1>1, <1>4 DEF Trade, memory
  <2> QED BY <1>1, <1>2, <2>1, <2>2
<1>5. CASE TurnRefused \/ TradeFails
  <2>1. PICK d \in Nat : Lasts(d, IF state' = state THEN progress + d ELSE 0)
    BY <1>1, <1>5 DEF TurnRefused, TradeFails
  <2>2. ready' = ready
    BY <1>5 DEF TurnRefused, TradeFails, StepError
  <2> QED BY <1>1, <1>2, <2>1, <2>2
<1>6. CASE Fail \/ RecoverFails \/ Conclude \/ ConcludeRefused
  <2>1. \E d : Lasts(d, 0)
    BY <1>6 DEF Fail, RecoverFails, Conclude, ConcludeRefused
  <2>2. ready' = ready
    BY <1>6 DEF Fail, RecoverFails, Conclude, ConcludeRefused, Failed, StepError,
                ReadyAfterRecovery
  <2> QED BY <1>2, <2>1, <2>2
<1> QED BY <1>3, <1>4, <1>5, <1>6 DEF Body

-----------------------------------------------------------------------------
(* The type invariant                                                       *)

\* The next state is typed if what time does not touch is.
LEMMA TypedAfter ==
  ASSUME TypeOK, UNCHANGED outside, saved' \in BOOLEAN,
         proc' \in {"down", "init1", "init2", "head", "body"}, state' \in States,
         ready' \in BOOLEAN, stalled' \in BOOLEAN, retries' \in 0..CountedTo,
         {beat', ping', progress', fed', up', took'} \subseteq Nat
  PROVE  TypeOK'
  BY DEF TypeOK, outside

\* No failure and one more failure stay within the bound.
LEMMA CountedBounds ==
  /\ CountedTo \in Nat /\ 0 \in 0..CountedTo
  /\ \A r \in 0..CountedTo : Counted(r) \in 0..CountedTo /\ Counted(r) <= r + 1
  BY DelayAssumption DEF CountedTo, Counted

\* A transition, and one that is refused, leave a state and a row.
LEMMA EntersState ==
  ASSUME TypeOK, NEW s \in States, Enters(s) \/ Refused
  PROVE  state' \in States /\ saved' \in BOOLEAN
  BY DEF TypeOK, Enters, Refused

\* A failure leaves a state, a row and a count.
LEMMA FailureTyped ==
  ASSUME TypeOK, NEW r \in 0..CountedTo, retries' = Counted(r), Judged \/ Refused
  PROVE  state' \in States /\ saved' \in BOOLEAN /\ retries' \in 0..CountedTo
<1>1. Enters("Halted") \/ Enters("Recovering") \/ Refused
  BY DEF Judged
<1>2. "Halted" \in States /\ "Recovering" \in States
  BY DEF States
<1> QED BY <1>1, <1>2, EntersState, CountedBounds

\* TypeOK holds at boot.
LEMMA TypedInit == Init => TypeOK
<1> SUFFICES ASSUME Init PROVE TypeOK
  OBVIOUS
<1>1. {beat, ping, progress, fed, up, took} \subseteq Nat
  BY DEF Init, LongAgo
<1>2. retries \in 0..CountedTo
  BY CountedBounds DEF Init
<1> QED BY <1>1, <1>2 DEF Init, TypeOK, States

\* TypeOK is kept by the steps of systemd and of the initialisation.
LEMMA StartKeepsTyped ==
  ASSUME TypeOK, Start
  PROVE  TypeOK'
<1>1. Work \subseteq Nat /\ 0 \in Nat
  BY WorkAssumption
<1>2. CASE InitDies
  <2>1. took' \in Nat /\ proc' = "down" /\ UNCHANGED <<outside, saved, memory, ages, stalled>>
    BY <1>1, <1>2 DEF InitDies, Dies
  <2> QED BY <2>1 DEF TypeOK, outside, memory, ages
<1>3. CASE InitUnreadable
  <2>1. /\ saved' \in BOOLEAN /\ took' = 0 /\ proc' = "down"
        /\ UNCHANGED <<outside, memory, ages, stalled>>
    BY <1>3 DEF InitUnreadable, TypeOK
  <2> QED BY <2>1 DEF TypeOK, outside, memory, ages
<1>4. CASE InitHalted \/ InitRecovering \/ InitReady
  <2>1. PICK s \in {"Halted", "Recovering", "Starting"} : Enters(s) \/ Refused
    BY <1>4 DEF InitHalted, InitRecovering, InitReady
  <2>2. state' \in States /\ saved' \in BOOLEAN
    BY <2>1, EntersState DEF States
  <2>3. PICK w \in Nat : Initialized(w) /\ Passes(w, 0)
    BY <1>1, <1>4 DEF InitHalted, InitRecovering, InitReady
  <2>4. {beat', ping', progress', fed', up', took'} \subseteq Nat
    BY <1>1, <2>3, PassesKeepsAges
  <2>5. /\ retries' = retries /\ UNCHANGED <<outside, stalled>>
        /\ proc' \in {"init2", "head"}
    BY <1>4, <2>3 DEF InitHalted, InitRecovering, InitReady, Initialized
  <2>6. ready' \in BOOLEAN
    BY <1>4 DEF InitHalted, InitRecovering, InitReady, TypeOK
  <2> QED BY <2>2, <2>4, <2>5, <2>6, TypedAfter DEF TypeOK
<1> QED BY <1>2, <1>3, <1>4 DEF Start

\* TypeOK is kept by the head of the loop.
LEMMA HeadKeepsTyped ==
  ASSUME TypeOK, Head
  PROVE  TypeOK'
<1>1. CASE HeadEarly
  BY <1>1 DEF HeadEarly, TypeOK, outside, memory, ages
<1>2. CASE HeadStalled
  <2>1. retries' \in 0..CountedTo
    BY <1>2, CountedBounds DEF HeadStalled, TypeOK
  <2>2. {beat', ping', progress', fed', up', took'} \subseteq Nat
    BY <1>2 DEF HeadStalled, StallBeat, TypeOK
  <2>3. state' \in States /\ saved' \in BOOLEAN
    BY <1>2, EntersState DEF HeadStalled, States
  <2>4. UNCHANGED <<outside, ready>> /\ proc' = "body" /\ stalled' = TRUE
    BY <1>2 DEF HeadStalled
  <2> QED BY <2>1, <2>2, <2>3, <2>4, TypedAfter DEF TypeOK
<1>3. CASE HeadHealthy
  <2>1. {beat', ping', progress', fed', up', took'} \subseteq Nat
    BY <1>3 DEF HeadHealthy, TypeOK
  <2>2. UNCHANGED <<outside, memory, stalled>> /\ proc' = "body"
    BY <1>3 DEF HeadHealthy
  <2>3. saved' \in BOOLEAN
    BY <1>3 DEF HeadHealthy, Enters, Refused, TypeOK
  <2> QED BY <2>1, <2>2, <2>3, TypedAfter DEF TypeOK, memory
<1> QED BY <1>1, <1>2, <1>3 DEF Head

\* TypeOK is kept by the body of the loop.
LEMMA BodyKeepsTyped ==
  ASSUME TypeOK, Body
  PROVE  TypeOK'
<1>1. retries \in 0..CountedTo /\ Counted(retries) \in 0..CountedTo /\ 0 \in 0..CountedTo
  BY CountedBounds DEF TypeOK
<1>2. CASE BodyDies
  <2>1. took' \in Nat /\ proc' = "down" /\ UNCHANGED <<outside, saved, memory, ages, stalled>>
    BY <1>2, CostsAreNat DEF BodyDies, Dies
  <2> QED BY <2>1 DEF TypeOK, outside, memory, ages
<1>3. CASE ~BodyDies
  <2>1. /\ {beat', ping', progress', fed', up', took'} \subseteq Nat
        /\ proc' = "head" /\ UNCHANGED <<outside, stalled, ready>>
    BY <1>3, BodyPasses, PassesKeepsAges
  <2>2. state' \in States /\ saved' \in BOOLEAN /\ retries' \in 0..CountedTo
    <3>1. CASE Turn
      <4>1. Turns \subseteq States /\ retries' = retries
        BY <3>1 DEF Turn, Turns, States
      <4> QED BY <1>1, <3>1, <4>1, EntersState DEF Turn
    <3>2. CASE Sleep \/ Trade
      BY <3>2 DEF Sleep, Trade, TypeOK, memory
    <3>3. CASE TurnRefused \/ TradeFails \/ Fail \/ RecoverFails \/ ConcludeRefused
      <4>1. PICK r \in 0..CountedTo : retries' = Counted(r) /\ (Judged \/ Refused)
        BY <1>1, <3>3 DEF TurnRefused, TradeFails, Fail, RecoverFails, ConcludeRefused,
                          Failed, StepError
      <4> QED BY <4>1, FailureTyped
    <3>4. CASE Conclude
      <4>1. Goals \subseteq States /\ retries' = 0
        BY <3>4 DEF Conclude, Goals, States
      <4> QED BY <1>1, <3>4, <4>1, EntersState DEF Conclude
    <3> QED BY <1>3, <3>1, <3>2, <3>3, <3>4 DEF Body
  <2> QED BY <2>1, <2>2, TypedAfter DEF TypeOK
<1> QED BY <1>2, <1>3

\* TypeOK is inductive.
LEMMA TypedStep ==
  ASSUME TypeOK, [Next]_vars
  PROVE  TypeOK'
<1>1. CASE Boot
  <2>1. {beat', ping', progress', fed', up', took'} \subseteq Nat
    BY <1>1 DEF Boot, LongAgo
  <2>2. retries' \in 0..CountedTo
    BY <1>1, CountedBounds DEF Boot
  <2>3. UNCHANGED <<managed, broken, saved>> /\ store' \in {"sound", "refusing", "back"}
    BY <1>1 DEF Boot, TypeOK
  <2>4. proc' = "init1" /\ state' = "Starting" /\ ready' = FALSE /\ stalled' = FALSE
    BY <1>1 DEF Boot
  <2> QED BY <2>1, <2>2, <2>3, <2>4 DEF TypeOK, States
<1>2. CASE Break \/ Outage
  BY <1>2 DEF Break, Outage, TypeOK, memory, ages
<1>3. CASE Start \/ Head \/ Body
  BY <1>3, StartKeepsTyped, HeadKeepsTyped, BodyKeepsTyped
<1>4. CASE UNCHANGED vars
  BY <1>4 DEF TypeOK, vars, memory, ages, outside
<1> QED BY <1>1, <1>2, <1>3, <1>4 DEF Next

\* The loop keeps its types, and the retry counter its bound, whatever steps take.
THEOREM LoopTyped == Spec => []TypeOK
  BY TypedInit, TypedStep, PTL DEF Spec

-----------------------------------------------------------------------------
(* What systemd has heard, and when: the heartbeat, the ping and what        *)
(* systemd counts agree, until the process is found stalled.                 *)

\* Between READY=1 and the first heartbeat
First == /\ proc \in {"init2", "head"} /\ state # "Trading"
         /\ beat >= Heartbeat /\ ping >= Interval

Watched == managed /\ ready /\ proc # "down"

SyncedStart ==
  proc \in {"init1", "init2"} =>
    beat >= Heartbeat /\ ping >= Interval /\ ~stalled /\ state # "Trading"

SyncedAlive == Watched => fed < WatchdogSec

SyncedStalled == Watched /\ stalled => fed >= Heartbeat + beat

SyncedAges ==
  Watched /\ ~stalled /\ ~First =>
    beat = Aged(fed, 0, Heartbeat) /\ ping = Aged(fed, 0, Interval)

SyncedBody == Watched /\ ~stalled /\ proc = "body" => fed < Heartbeat

Synced == SyncedStart /\ SyncedAlive /\ SyncedStalled /\ SyncedAges /\ SyncedBody

\* systemd is fed at every heartbeat, or could be.
LEMMA IntervalFits ==
  ASSUME TwoBeats
  PROVE  /\ Interval \in Nat /\ Interval <= LongAgo
         /\ managed => 1 <= Interval /\ Interval <= Heartbeat
  BY PeriodAssumption DEF TwoBeats, Interval, LongAgo

\* Synced holds at boot.
LEMMA SyncedInit ==
  ASSUME TwoBeats, Init
  PROVE  Synced
<1>1. proc = "init1" /\ state = "Starting" /\ ready = FALSE /\ stalled = FALSE
      /\ beat = LongAgo /\ ping = LongAgo
  BY DEF Init
<1>2. LongAgo >= Heartbeat /\ LongAgo >= Interval
  BY IntervalFits, PeriodAssumption DEF TwoBeats, LongAgo
<1> QED BY <1>1, <1>2 DEF Synced, SyncedStart, SyncedAlive, SyncedStalled, SyncedAges,
                      SyncedBody, Watched, First

\* Synced is kept by the death and the start of a process.
LEMMA BootSyncs ==
  ASSUME TwoBeats, Boot
  PROVE  Synced'
<1>1. proc' = "init1" /\ state' = "Starting" /\ ready' = FALSE /\ stalled' = FALSE
      /\ beat' = LongAgo /\ ping' = LongAgo /\ managed' = managed
  BY DEF Boot, outside
<1>2. LongAgo >= Heartbeat /\ LongAgo >= Interval /\ Interval' = Interval
  BY <1>1, IntervalFits, PeriodAssumption DEF TwoBeats, LongAgo, Interval
<1> QED BY <1>1, <1>2 DEF Synced, SyncedStart, SyncedAlive, SyncedStalled, SyncedAges,
                      SyncedBody, Watched, First

\* A call of initialize_and_recover that ends leaves the first heartbeat due.
LEMMA InitializedSyncs ==
  ASSUME TwoBeats, TypeOK, Synced, NEW w \in Nat, NEW since \in Nat,
         Initializing, Initialized(w), Passes(w, since), state' # "Trading",
         ready' \in BOOLEAN, ready => ready'
  PROVE  Synced'
<1>1. /\ beat \in Nat /\ ping \in Nat /\ fed \in Nat
      /\ beat >= Heartbeat /\ ping >= Interval /\ ~stalled
  BY DEF TypeOK, Synced, SyncedStart, Initializing
<1>2. /\ managed' = managed /\ stalled' = stalled /\ proc' \in {"init2", "head"}
      /\ Interval' = Interval
  BY DEF Initialized, outside, Initializing, Interval
<1>3. beat' = Heartbeat /\ ping' = Interval
  BY <1>1, IntervalFits, PeriodAssumption DEF Passes, Aged
<1>4. SyncedStart' /\ (Watched' => First')
  BY <1>1, <1>2, <1>3, IntervalFits, PeriodAssumption DEF SyncedStart, First
<1>5. Watched' => fed' < WatchdogSec
  <2> SUFFICES ASSUME Watched' PROVE fed' < WatchdogSec
    OBVIOUS
  <2>1. managed /\ ready'
    BY <1>2 DEF Watched
  <2>2. CASE ready
    BY <1>1, <2>1, <2>2, PeriodAssumption DEF Passes, Aged, Initialized, Ended
  <2>3. CASE ~ready
    BY <2>1, <2>3, PeriodAssumption DEF Passes
  <2> QED BY <2>2, <2>3
<1> QED BY <1>1, <1>2, <1>4, <1>5
        DEF Synced, SyncedAlive, SyncedStalled, SyncedAges, SyncedBody

\* Synced is kept by the initialisation.
LEMMA StartSyncs ==
  ASSUME TwoBeats, TypeOK, Synced, Start
  PROVE  Synced'
<1>1. Work \subseteq Nat /\ progress \in Nat /\ ready \in BOOLEAN
  BY WorkAssumption DEF TypeOK
<1>2. CASE InitDies
  BY <1>2 DEF InitDies, Dies, Synced, SyncedStart, SyncedAlive, SyncedStalled, SyncedAges,
              SyncedBody, Watched
<1>3. CASE InitUnreadable
  BY <1>3 DEF InitUnreadable, Synced, SyncedStart, SyncedAlive, SyncedStalled, SyncedAges,
              SyncedBody, Watched
<1>4. CASE InitHalted \/ InitRecovering \/ InitReady
  <2>1. Initializing /\ ready' \in BOOLEAN /\ (ready => ready')
    BY <1>1, <1>4 DEF InitHalted, InitRecovering, InitReady
  <2>2. PICK w \in Nat : Initialized(w) /\ Passes(w, 0)
    BY <1>1, <1>4 DEF InitHalted, InitRecovering, InitReady
  <2>3. state # "Trading"
    BY <2>1 DEF Initializing, Synced, SyncedStart
  <2>4. state' # "Trading"
    BY <1>4, <2>3 DEF InitHalted, InitRecovering, InitReady, Enters, Refused
  <2> QED BY <1>1, <2>1, <2>2, <2>4, InitializedSyncs
<1> QED BY <1>2, <1>3, <1>4 DEF Start

\* Synced is kept by the head of the loop.
LEMMA HeadSyncs ==
  ASSUME TwoBeats, TypeOK, Synced, Head
  PROVE  Synced'
<1>1. /\ beat \in Nat /\ ping \in Nat /\ fed \in Nat /\ Heartbeat \in Nat \ {0}
      /\ WatchdogSec \in Nat /\ WatchdogSec <= 2 * Heartbeat
      /\ managed \in BOOLEAN /\ ready \in BOOLEAN /\ stalled \in BOOLEAN
  BY PeriodAssumption DEF TypeOK, TwoBeats
<1>2. proc = "head" /\ proc' = "body" /\ managed' = managed /\ ready' = ready
      /\ Interval' = Interval
  BY DEF Head, HeadEarly, HeadStalled, HeadHealthy, Due, outside, memory, Interval
<1>3. /\ SyncedStart' /\ ~First'
      /\ Watched' => Watched /\ managed /\ 1 <= Interval /\ Interval <= Heartbeat
  BY <1>2, IntervalFits DEF SyncedStart, First, Watched
<1>4. Interval \in Nat
  BY IntervalFits
<1>5. CASE ~Watched'
  BY <1>3, <1>5 DEF Synced, SyncedAlive, SyncedStalled, SyncedAges, SyncedBody
<1>6. CASE HeadEarly /\ Watched'
  <2>1. UNCHANGED <<fed, beat, ping, stalled>> /\ beat < Heartbeat
    BY <1>6 DEF HeadEarly, ages
  <2>2. ~First
    BY <1>1, <2>1 DEF First
  <2>3. ~stalled => fed < Heartbeat
    BY <1>1, <1>3, <1>6, <2>1, <2>2 DEF Synced, SyncedAges, Aged
  <2>4. SyncedAlive' /\ SyncedStalled' /\ SyncedBody'
    BY <1>3, <1>6, <2>1, <2>3 DEF Synced, SyncedAlive, SyncedStalled, SyncedBody
  <2>5. SyncedAges'
    BY <1>2, <1>3, <1>6, <2>1, <2>2 DEF Synced, SyncedAges, Aged
  <2> QED BY <1>3, <2>4, <2>5 DEF Synced
<1>7. CASE HeadStalled /\ Watched'
  <2>1. /\ beat' = 0 /\ fed' = fed /\ stalled' = TRUE /\ state = "Trading"
        /\ beat >= Heartbeat
    BY <1>7 DEF HeadStalled, StallBeat, Due, IsStalled
  <2>2. ~First
    BY <2>1 DEF First
  <2>3. fed >= Heartbeat
    BY <1>1, <1>3, <1>7, <2>1, <2>2 DEF Synced, SyncedAges, SyncedStalled, Aged
  <2>4. SyncedAlive' /\ SyncedStalled'
    BY <1>1, <1>3, <1>7, <2>1, <2>3 DEF Synced, SyncedAlive, SyncedStalled
  <2> QED BY <1>3, <2>1, <2>4 DEF Synced, SyncedAges, SyncedBody
<1>8. CASE HeadHealthy /\ Watched'
  <2>1. beat >= Heartbeat /\ beat' = 0 /\ stalled' = stalled
    BY <1>8 DEF HeadHealthy, Due
  <2>2. ~stalled
    BY <1>1, <1>3, <1>8, <2>1 DEF Synced, SyncedAlive, SyncedStalled
  <2>3. ping >= Interval
    BY <1>1, <1>3, <1>4, <1>8, <2>1, <2>2 DEF Synced, SyncedAges, First, Aged
  <2>4. fed' = 0 /\ ping' = 0
    BY <1>3, <1>8, <2>3 DEF HeadHealthy, Feeds
  <2>5. SyncedAlive' /\ SyncedBody'
    BY <1>1, <2>4, PeriodAssumption DEF SyncedAlive, SyncedBody
  <2>6. SyncedAges'
    BY <1>1, <1>2, <1>3, <1>4, <1>8, <2>1, <2>4 DEF SyncedAges, Aged
  <2> QED BY <1>3, <2>1, <2>2, <2>5, <2>6 DEF Synced, SyncedStalled
<1> QED BY <1>5, <1>6, <1>7, <1>8 DEF Head

\* Synced is kept by the body of the loop.
LEMMA BodySyncs ==
  ASSUME TwoBeats, TypeOK, Synced, Body
  PROVE  Synced'
<1>1. CASE BodyDies
  BY <1>1 DEF BodyDies, Dies, Synced, SyncedStart, SyncedAlive, SyncedStalled, SyncedAges,
              SyncedBody, Watched
<1>2. CASE ~BodyDies
  <2>1. PICK d \in Nat, since \in Nat :
          /\ proc = "body" /\ proc' = "head" /\ ~Ended(d) /\ Passes(d, since)
          /\ UNCHANGED <<outside, stalled, ready>>
    BY <1>2, BodyPasses
  <2>2. /\ beat \in Nat /\ ping \in Nat /\ fed \in Nat /\ Heartbeat \in Nat
        /\ WatchdogSec \in Nat /\ Interval \in Nat
        /\ managed' = managed /\ ready' = ready /\ stalled' = stalled
        /\ Interval' = Interval
    BY <2>1, PeriodAssumption, IntervalFits DEF TypeOK, outside, Interval
  <2>3. SyncedStart' /\ SyncedBody'
    BY <2>1 DEF SyncedStart, SyncedBody
  <2>4. CASE ~Watched'
    BY <2>3, <2>4 DEF Synced, SyncedAlive, SyncedStalled, SyncedAges
  <2>5. CASE Watched'
    <3>1. Watched /\ managed /\ ready /\ ~First
      BY <2>1, <2>2, <2>5 DEF Watched, First
    <3>2. fed + d < WatchdogSec /\ fed' = fed + d
      BY <2>1, <2>2, <3>1 DEF Ended, Passes, Aged
    <3>3. beat' = Aged(beat, d, Heartbeat) /\ ping' = Aged(ping, d, Interval)
      BY <2>1 DEF Passes
    <3>4. SyncedAlive'
      BY <3>2 DEF SyncedAlive
    <3>5. SyncedStalled'
      BY <2>1, <2>2, <3>1, <3>2, <3>3 DEF Synced, SyncedStalled, Aged
    <3>6. SyncedAges'
      <4> SUFFICES ASSUME ~stalled
                   PROVE  beat' = Aged(fed', 0, Heartbeat) /\ ping' = Aged(fed', 0, Interval)
        BY <2>2 DEF SyncedAges
      <4>1. beat = Aged(fed, 0, Heartbeat) /\ ping = Aged(fed, 0, Interval)
        BY <3>1 DEF Synced, SyncedAges
      <4> QED BY <2>1, <2>2, <3>2, <3>3, <4>1 DEF Aged
    <3> QED BY <2>3, <3>4, <3>5, <3>6 DEF Synced
  <2> QED BY <2>4, <2>5
<1> QED BY <1>1, <1>2

\* Synced is inductive.
LEMMA SyncedStep ==
  ASSUME TwoBeats, TypeOK, Synced, [Next]_vars
  PROVE  Synced'
<1>1. CASE Boot
  BY <1>1, BootSyncs
<1>2. CASE Break \/ Outage
  BY <1>2 DEF Break, Outage, Synced, SyncedStart, SyncedAlive, SyncedStalled, SyncedAges,
              SyncedBody, Watched, First, Interval, memory, ages
<1>3. CASE Start \/ Head \/ Body
  BY <1>3, StartSyncs, HeadSyncs, BodySyncs
<1>4. CASE UNCHANGED vars
  BY <1>4 DEF vars, Synced, SyncedStart, SyncedAlive, SyncedStalled, SyncedAges, SyncedBody,
              Watched, First, Interval, memory, ages, outside
<1> QED BY <1>1, <1>2, <1>3, <1>4 DEF Next

\* The ages of the heartbeat and of what systemd heard agree as long as systemd waits
\* for no more than two heartbeats.
LEMMA AlwaysSynced ==
  ASSUME TwoBeats
  PROVE  Spec => [](TypeOK /\ Synced)
<1>1. Init => Synced
  BY SyncedInit
<1>2. TypeOK /\ Synced /\ [Next]_vars => Synced'
  BY SyncedStep
<1> QED BY <1>1, <1>2, LoopTyped, PTL DEF Spec

\* No process that was not found stalled is ended for a step as short as what is left
\* of WatchdogSec after a heartbeat, whatever the back-off and the work.
THEOREM ShortStepsSurvive ==
  ASSUME TwoBeats
  PROVE  Spec => EndedForCause
<1>1. TypeOK /\ Synced /\ [Next]_vars =>
        [(proc = "body" /\ proc' = "down" /\ ready /\ ~stalled)
           => took' > WatchdogSec - Heartbeat]_vars
  <2> SUFFICES ASSUME TypeOK, Synced, Next,
                      proc = "body", proc' = "down", ready, ~stalled
               PROVE  took' > WatchdogSec - Heartbeat
    OBVIOUS
  <2>1. BodyDies
    <3>1. ~Boot /\ ~Break /\ ~Outage /\ ~Start /\ ~Head
      BY DEF Boot, Break, Outage, Start, InitDies, InitUnreadable, InitHalted, InitRecovering, InitReady,
             Initializing, Head, HeadEarly, HeadStalled, HeadHealthy, Due
    <3>2. Body
      BY <3>1 DEF Next
    <3> QED BY <3>2, BodyPasses
  <2>2. PICK d \in Costs : Ended(d) /\ Dies(d)
    BY <2>1 DEF BodyDies
  <2>3. d \in Nat /\ fed \in Nat /\ managed /\ took' = d /\ fed + d >= WatchdogSec
    BY <2>2, CostsAreNat DEF Ended, Dies, TypeOK
  <2>4. fed < Heartbeat
    BY <2>3 DEF Synced, SyncedBody, Watched
  <2> QED BY <2>3, <2>4, PeriodAssumption
<1> QED BY <1>1, AlwaysSynced, PTL DEF Spec, EndedForCause

\* A process that was found stalled is not fed again, whatever its recovery takes.
THEOREM StalledAreLost ==
  ASSUME TwoBeats
  PROVE  Spec => StallIsFatal
<1>1. TypeOK /\ Synced /\ [Next]_vars =>
        [(managed /\ ready /\ stalled /\ stalled') => fed' >= fed]_vars
  <2> SUFFICES ASSUME TypeOK, Synced, Next, managed, ready, stalled, stalled'
               PROVE  fed' >= fed
    OBVIOUS
  <2>1. fed \in Nat /\ beat \in Nat /\ Heartbeat \in Nat /\ WatchdogSec \in Nat
    BY PeriodAssumption DEF TypeOK
  <2>2. CASE Boot
    BY <2>2 DEF Boot
  <2>3. CASE Break \/ Outage
    <3>1. fed' = fed
      BY <2>3 DEF Break, Outage, ages
    <3> QED BY <2>1, <3>1
  <2>4. CASE Start
    <3>1. InitDies \/ InitUnreadable
      BY <2>4 DEF Start, InitHalted, InitRecovering, InitReady, Initializing, Synced, SyncedStart
    <3> QED BY <2>1, <3>1 DEF InitDies, InitUnreadable, Dies, ages
  <2>5. CASE Head
    <3>1. ~HeadHealthy
      BY <2>1 DEF HeadHealthy, Due, Synced, SyncedAlive, SyncedStalled, Watched, TwoBeats
    <3>2. fed' = fed
      BY <2>5, <3>1 DEF Head, HeadEarly, HeadStalled, ages
    <3> QED BY <2>1, <3>2
  <2>6. CASE Body
    <3>1. CASE BodyDies
      BY <2>1, <3>1 DEF BodyDies, Dies, ages
    <3>2. CASE ~BodyDies
      <4>1. PICK d \in Nat, since \in Nat :
              /\ ~Ended(d) /\ Passes(d, since) /\ UNCHANGED <<outside, stalled, ready>>
        BY <2>6, <3>2, BodyPasses
      <4> QED BY <2>1, <4>1 DEF Passes, Ended, Aged
    <3> QED BY <3>1, <3>2
  <2> QED BY <2>2, <2>3, <2>4, <2>5, <2>6 DEF Next
<1> QED BY <1>1, AlwaysSynced, PTL DEF Spec, StallIsFatal

-----------------------------------------------------------------------------
(* The retry budget                                                         *)

\* After six failures the back-off, less a fifth, is longer than systemd waits, whether
\* the process was ready or not; and the budget is longer than that.
Longest == (4 * Capped(64 * InitialDelay)) \div 5
LongBackOff == Longest >= WatchdogSec /\ Longest >= StartTimeout /\ MaxRetries > 6

\* As long as the store takes every save, few failures are counted, and what is not a
\* recovery begins with none.
Few == (managed /\ store = "sound") => retries <= 6
NoneElsewhere ==
  /\ store = "sound" /\ state \notin {"Recovering", "Halted"} => retries = 0
  /\ proc \in {"init1", "init2"} => retries = 0

\* The step that would count the seventh failure is not survived.
LEMMA SixthIsLast ==
  ASSUME LongBackOff, TypeOK, managed, state = "Recovering", retries = 6, NEW d \in Costs
  PROVE  Ended(d)
<1>1. Doubled = 64 * InitialDelay
  <2>1. <<1, 2, 4, 8, 16, 32, 64>>[7] = 64
    OBVIOUS
  <2>2. InitialDelay * 64 = 64 * InitialDelay
    BY DelayAssumption
  <2>3. 1 + (IF retries < 6 THEN retries ELSE 6) = 7
    OBVIOUS
  <2> QED BY <2>1, <2>2, <2>3 DEF Doubled
<1>2. /\ Capped(Doubled) \in Nat /\ Capped(Doubled) <= MaxDelay
      /\ MaxDelay \in Nat /\ Work \subseteq Nat
  BY <1>1, DelayAssumption, WorkAssumption DEF Capped
<1>3. \A e \in Delays : e \in Nat /\ e >= Longest
  <2> DEFINE c == Capped(Doubled)
  <2>1. Longest = (4 * c) \div 5
    BY <1>1 DEF Longest
  <2> HIDE DEF c
  <2>2. c \in Nat /\ c <= MaxDelay
    BY <1>2 DEF c
  <2>3. /\ (4 * c) \div 5 \in Nat /\ (6 * c) \div 5 \in Nat
        /\ (4 * c) \div 5 <= (6 * c) \div 5 /\ (4 * c) \div 5 <= c
    BY <2>2
  <2>4. /\ Capped((6 * c) \div 5) \in Nat
        /\ Capped((6 * c) \div 5) >= (4 * c) \div 5
    BY <1>2, <2>2, <2>3 DEF Capped
  <2>5. Delays = {(4 * c) \div 5, Capped((6 * c) \div 5)}
    BY DEF Delays, c
  <2> QED BY <2>1, <2>3, <2>4, <2>5
<1>4. PICK e \in Delays, w \in Work : d = e + w
  BY DEF Costs
<1>5. d \in Nat /\ d >= Longest /\ Longest \in Int
  <2>1. Longest \in Int
    BY <1>1, <1>2 DEF Longest
  <2> QED BY <1>2, <1>3, <1>4, <2>1
<1>6. fed \in Nat /\ up \in Nat /\ WatchdogSec \in Nat /\ StartTimeout \in Nat
  BY PeriodAssumption DEF TypeOK
<1> QED BY <1>5, <1>6 DEF Ended, LongBackOff

\* The store and what systemd is do not change in a step of the process.
LEMMA StepOutside ==
  ASSUME Start \/ Head \/ Body
  PROVE  managed' = managed /\ store' = store
  BY DEF Start, InitDies, InitUnreadable, InitHalted, InitRecovering, InitReady, Initialized,
         Head, HeadEarly, HeadStalled, HeadHealthy, Body, BodyDies, Dies, Turn, TurnRefused,
         Sleep, Trade, TradeFails, Fail, RecoverFails, Conclude, ConcludeRefused, Lasts, outside

\* The first failure is the first.
LEMMA FirstFailure == Counted(0) = 1
  BY DelayAssumption DEF Counted, CountedTo

\* Every step: what is not a recovery counts no failure that it does not recover from.
LEMMA NoneStep ==
  ASSUME TypeOK, NoneElsewhere, [Next]_vars
  PROVE  NoneElsewhere'
<1>1. CASE Boot
  BY <1>1 DEF Boot, NoneElsewhere
<1>2. CASE Break \/ Outage
  BY <1>2 DEF Break, Outage, NoneElsewhere, memory
<1>3. CASE Start
  <2>1. Initializing /\ retries = 0 /\ retries' = 0
    BY <1>3 DEF Start, InitDies, InitUnreadable, InitHalted, InitRecovering, InitReady, Dies,
                Initializing, NoneElsewhere, memory
  <2> QED BY <2>1 DEF NoneElsewhere
<1>4. CASE Head
  <2>1. proc' = "body"
    BY <1>4 DEF Head, HeadEarly, HeadStalled, HeadHealthy
  <2>2. CASE HeadStalled
    BY <1>4, <2>1, <2>2, StepOutside DEF HeadStalled, Enters, Refused, NoneElsewhere
  <2>3. CASE HeadEarly \/ HeadHealthy
    BY <2>1, <2>3 DEF HeadEarly, HeadHealthy, NoneElsewhere, memory, outside
  <2> QED BY <1>4, <2>2, <2>3 DEF Head
<1>5. CASE Body
  <2>1. store' = store /\ proc' \in {"down", "head"}
    BY <1>5, StepOutside, BodyPasses DEF BodyDies, Dies
  <2>2. CASE BodyDies \/ Sleep \/ Trade
    BY <2>1, <2>2 DEF BodyDies, Dies, Sleep, Trade, NoneElsewhere, memory
  <2>3. CASE Turn
    <3>1. state \notin {"Recovering", "Halted"} /\ retries' = retries
      BY <2>3 DEF Turn, Turns
    <3> QED BY <2>1, <3>1 DEF NoneElsewhere
  <2>4. CASE Conclude
    BY <2>1, <2>4 DEF Conclude, NoneElsewhere
  <2>5. CASE TurnRefused \/ ConcludeRefused
    BY <2>1, <2>5 DEF TurnRefused, ConcludeRefused, NoneElsewhere
  <2>6. CASE TradeFails \/ Fail \/ RecoverFails
    <3>1. store = "sound" => state' \in {"Halted", "Recovering"}
      BY <2>6 DEF TradeFails, Fail, RecoverFails, StepError, Failed, Judged, Enters, Refused
    <3> QED BY <2>1, <3>1 DEF NoneElsewhere
  <2> QED BY <1>5, <2>2, <2>3, <2>4, <2>5, <2>6 DEF Body
<1>6. CASE UNCHANGED vars
  BY <1>6 DEF vars, NoneElsewhere, memory, outside
<1> QED BY <1>1, <1>2, <1>3, <1>4, <1>5, <1>6 DEF Next

\* Every step: only a recovery adds to failures that there were before.
LEMMA FewStep ==
  ASSUME LongBackOff, TypeOK, NoneElsewhere, Few, [Next]_vars
  PROVE  Few'
<1>1. CASE Boot
  BY <1>1 DEF Boot, Few
<1>2. CASE Break \/ Outage
  BY <1>2 DEF Break, Outage, Few, memory
<1>3. CASE UNCHANGED vars
  BY <1>3 DEF Few, vars, memory, outside
<1>4. CASE Start \/ Head \/ Body
  <2> SUFFICES ASSUME managed, store = "sound" PROVE retries' <= 6
    BY <1>4, StepOutside DEF Few
  <2>1. retries \in Nat /\ retries <= 6 /\ retries \in 0..CountedTo
    BY CountedBounds DEF Few, TypeOK
  <2>2. CASE Start \/ HeadEarly \/ HeadHealthy
    <3>1. retries' = retries
      BY <2>2 DEF Start, InitDies, InitUnreadable, InitHalted, InitRecovering, InitReady, Dies,
                  HeadEarly, HeadHealthy, memory
    <3> QED BY <2>1, <3>1
  <2>3. CASE HeadStalled \/ TradeFails \/ Fail
    <3>1. state \notin {"Recovering", "Halted"}
      BY <2>3 DEF HeadStalled, IsStalled, TradeFails, Fail
    <3>2. retries = 0 /\ retries' = Counted(retries)
      BY <2>3, <3>1 DEF HeadStalled, TradeFails, Fail, Failed, StepError, NoneElsewhere
    <3> QED BY <3>2, FirstFailure
  <2>4. CASE RecoverFails
    <3>1. state = "Recovering" /\ retries' = Counted(retries)
      BY <2>4 DEF RecoverFails, Failed
    <3>2. PICK d \in Costs : ~Ended(d)
      BY <2>4 DEF RecoverFails, Lasts
    <3>3. retries # 6
      BY <3>1, <3>2, SixthIsLast
    <3>4. Counted(retries) \in 0..CountedTo /\ Counted(retries) <= retries + 1
      BY <2>1, CountedBounds
    <3> QED BY <2>1, <3>1, <3>3, <3>4
  <2>5. CASE TurnRefused \/ ConcludeRefused
    BY <2>5 DEF TurnRefused, ConcludeRefused
  <2>6. CASE BodyDies \/ Turn \/ Sleep \/ Trade \/ Conclude
    <3>1. retries' = retries \/ retries' = 0
      BY <2>6 DEF BodyDies, Dies, Turn, Sleep, Trade, Conclude, memory
    <3> QED BY <2>1, <3>1
  <2> QED BY <1>4, <2>2, <2>3, <2>4, <2>5, <2>6 DEF Head, Body
<1> QED BY <1>1, <1>2, <1>3, <1>4 DEF Next

\* Under systemd, and as long as the store takes every save, check_retry_budget finds
\* the budget unspent: the back-off of the sixth retry outlasts the watchdog and the
\* start timeout.
THEOREM BudgetNeverSpent ==
  ASSUME LongBackOff
  PROVE  Spec => []BudgetOutOfReach
<1>1. Init => TypeOK /\ NoneElsewhere /\ Few
  <2>1. Init => retries = 0
    BY DEF Init
  <2> QED BY <2>1, TypedInit DEF NoneElsewhere, Few
<1>2. (TypeOK /\ NoneElsewhere /\ Few) /\ [Next]_vars => (TypeOK /\ NoneElsewhere /\ Few)'
  BY TypedStep, NoneStep, FewStep
<1>3. TypeOK /\ Few => BudgetOutOfReach
  BY DelayAssumption, CountedBounds DEF TypeOK, Few, BudgetOutOfReach, LongBackOff
<1> QED BY <1>1, <1>2, <1>3, PTL DEF Spec
===============================================================================
