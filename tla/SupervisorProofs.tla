-------------------------- MODULE SupervisorProofs --------------------------
(* What the runs of Supervisor show on small instances, proved for every     *)
(* set of contracts, every number of days, of retries, of outages and of     *)
(* stops: its invariants and action properties first, then that it           *)
(* implements its life cycle and what the life cycle promises by itself.     *)
EXTENDS Supervisor, TLAPS

-----------------------------------------------------------------------------
(* The shape of the helpers the actions are built from.                     *)

Moved(c) ==
  \/ UNCHANGED <<state, disk>> /\ cp' = c
  \/ /\ state' # state /\ state' \in States
     /\ cp' \in Checkpoint /\ cp'.sup = state'
     /\ disk' = cp'

\* A transition either writes the state it enters or keeps state and row.
LEMMA EnterShape ==
  ASSUME NEW next \in States, NEW c \in Checkpoint, NEW act \in BOOLEAN,
         cur' \in Sessions, state \in States,
         Enter(next, c, act) \/ Refused(next, c)
  PROVE  Moved(c) /\ active' \in BOOLEAN /\ state' \in {state, next}
<1>1. CASE Enter(next, c, act) /\ state = next
  BY <1>1 DEF Enter, Moved
<1>2. CASE Enter(next, c, act) /\ state # next
  <2> DEFINE sealed == [sup |-> next,
                        session |-> IF cur' # 0 THEN cur' ELSE c.session]
  <2>1. sealed \in Checkpoint /\ sealed.sup = next
    BY DEF Checkpoint
  <2>2. state' = next /\ cp' = sealed /\ disk' = sealed /\ active' = act
    BY <1>2 DEF Enter
  <2> QED
    BY <1>2, <2>1, <2>2 DEF Moved
<1>3. CASE Refused(next, c)
  BY <1>3 DEF Refused, Moved
<1> QED
  BY <1>1, <1>2, <1>3

\* What transition_to_verified and its best-effort form leave behind.
LEMMA TransitionShape ==
  ASSUME NEW next \in States, NEW c \in Checkpoint, NEW act \in BOOLEAN,
         cur' \in Sessions, state \in States,
         TransitionTo(next, c, act) \/ Attempt(next, c, act)
  PROVE  /\ Moved(c) /\ active' \in BOOLEAN /\ state' \in {state, next}
         /\ err' \in BOOLEAN /\ (err' => state' = state)
BY EnterShape DEF TransitionTo, Attempt, Refused

\* The saturated retry counter stays within its budget.
LEMMA BumpType ==
  ASSUME retry \in 0..MaxRetries
  PROVE  Bump \in 0..MaxRetries
BY MaxRetriesAssumption DEF Bump

\* A failed step goes to Recovering or Halted, or stays and reports an error.
LEMMA FailShape ==
  ASSUME NEW c \in Checkpoint, NEW act \in BOOLEAN, TypeOK, cur' \in Sessions,
         FailStep(c, act)
  PROVE  /\ Moved(c) /\ active' \in BOOLEAN /\ err' \in BOOLEAN
         /\ retry' \in 0..MaxRetries
         /\ state' \in {state, "Halted", "Recovering"} /\ (err' => state' = state)
<1>1. state \in States /\ retry' \in 0..MaxRetries
  BY BumpType DEF FailStep, TypeOK
<1>2. "Halted" \in States /\ "Recovering" \in States
  BY DEF States
<1>3. CASE Enter("Halted", c, act) /\ err' = FALSE
  BY <1>1, <1>2, <1>3, EnterShape
<1>4. CASE TransitionTo("Recovering", c, FALSE) \/ TransitionTo("Recovering", c, act)
  BY <1>1, <1>2, <1>4, TransitionShape
<1> QED
  BY <1>1, <1>3, <1>4 DEF FailStep

\* A reconciliation keeps the book and the broker within their types, and a
\* trade that stays in memory keeps its row.
LEMMA ReconcileShape ==
  ASSUME NEW out \in Verdicts, TypeOK, Reconcile(out)
  PROVE  /\ synced' = out
         /\ alarmed' = (alarmed \/ out = "mismatch")
         /\ tracked' \subseteq Symbols /\ stored' \subseteq Symbols
         /\ guarded' \subseteq Symbols /\ hit' \subseteq Symbols
         /\ held' \subseteq Symbols /\ orders' \subseteq Symbols \X Kinds
         /\ tracked \subseteq stored => tracked' \subseteq stored'
<1>1. synced' = out /\ alarmed' = (alarmed \/ out = "mismatch")
  BY DEF Reconcile, Remember
<1>2. CASE UNCHANGED <<book, broker>>
  BY <1>1, <1>2 DEF TypeOK, book, broker
<1>3. CASE ~UNCHANGED <<book, broker>>
  <2>1. PICK late \in Bursts :
        \E found \in SUBSET (tracked \cap HitAfter(late)) :
        \E left \in SUBSET found :
        \E fresh \in SUBSET (((tracked \ found) \ guarded) \cap HeldAfter(late)) :
          /\ held' = HeldAfter(late)
          /\ orders' = (orders \ late) \cup (fresh \X {"stop"})
          /\ Keep(tracked \ found, stored \ (found \ left), guarded \cup fresh,
                  HitAfter(late))
    BY <1>3 DEF Reconcile
  <2>2. held' \subseteq Symbols
    BY <2>1 DEF HeldAfter, TypeOK
  <2>3. orders' \subseteq Symbols \X Kinds
    BY <2>1 DEF TypeOK, Kinds
  <2>4. /\ tracked' \subseteq Symbols /\ stored' \subseteq Symbols
        /\ guarded' \subseteq Symbols /\ hit' \subseteq Symbols
        /\ tracked \subseteq stored => tracked' \subseteq stored'
    BY <2>1 DEF Keep, TypeOK
  <2> QED
    BY <1>1, <2>2, <2>3, <2>4
<1> QED
  BY <1>2, <1>3


-----------------------------------------------------------------------------
(* Type correctness                                                         *)

\* What a step leaves of the types of the state and its checkpoint
CkptOK ==
  /\ state' \in States /\ cp' \in Checkpoint /\ disk' \in Checkpoint \cup {Missing}

\* A move keeps the types of state, checkpoint and row.
LEMMA MovedTypes ==
  ASSUME NEW c \in Checkpoint, TypeOK, Moved(c)
  PROVE  CkptOK
BY DEF CkptOK, Moved, TypeOK

\* A transition keeps the types of what it writes.
LEMMA TransitionTypes ==
  ASSUME NEW next \in States, NEW c \in Checkpoint, NEW act \in BOOLEAN, TypeOK,
         cur' \in Sessions, TransitionTo(next, c, act) \/ Attempt(next, c, act)
  PROVE  CkptOK /\ active' \in BOOLEAN /\ err' \in BOOLEAN
BY TransitionShape, MovedTypes DEF TypeOK

\* A failed step keeps the types of what it writes.
LEMMA FailTypes ==
  ASSUME NEW c \in Checkpoint, NEW act \in BOOLEAN, TypeOK, cur' \in Sessions,
         FailStep(c, act)
  PROVE  CkptOK /\ active' \in BOOLEAN /\ err' \in BOOLEAN /\ retry' \in 0..MaxRetries
BY FailShape, MovedTypes

\* The checkpoints the handlers pass on
LEMMA CheckpointTypes ==
  ASSUME TypeOK
  PROVE  /\ cp \in Checkpoint /\ Loaded \in Checkpoint /\ Blank \in Checkpoint
         /\ day \in Sessions
         /\ [cp EXCEPT !.session = day] \in Checkpoint
         /\ [cp EXCEPT !.session = IF cur # 0 THEN cur ELSE @] \in Checkpoint
<1>1. cp \in Checkpoint /\ cur \in Sessions /\ day \in Sessions
  BY MaxDayAssumption DEF TypeOK, Sessions
<1>2. Loaded \in Checkpoint
  BY <1>1 DEF Loaded, TypeOK
<1>3. Blank \in Checkpoint
  BY MaxDayAssumption DEF Blank, Checkpoint, States, Sessions
<1> QED
  BY <1>1, <1>2, <1>3 DEF Checkpoint

\* The first start is well typed.
LEMMA InitTypes == Init => TypeOK
<1> SUFFICES ASSUME Init PROVE TypeOK
  OBVIOUS
<1>1. Blank \in Checkpoint /\ 0 \in Sessions /\ "Starting" \in States
  BY MaxDayAssumption DEF Blank, Checkpoint, States, Sessions
<1>2. 0 \in 0..MaxRetries /\ 0 \in 0..MaxOutages /\ 0 \in 0..MaxStops /\ 1 \in 1..MaxDay
  BY MaxDayAssumption, MaxRetriesAssumption, BoundsAssumption
<1> QED
  BY <1>1, <1>2 DEF Init, TypeOK

\* Every field of TypeOK after the process is gone
LEMMA VanishTypes ==
  ASSUME TypeOK, Vanish, disk' \in Checkpoint \cup {Missing},
         stored' \subseteq Symbols, guarded' \subseteq Symbols, hit' \subseteq Symbols,
         held' \subseteq Symbols, orders' \subseteq Symbols \X Kinds,
         stops' \in 0..MaxStops,
         UNCHANGED <<saved, phase, day, faulty, outages>>
  PROVE  TypeOK'
<1>1. Blank \in Checkpoint /\ 0 \in Sessions /\ "Starting" \in States
  BY MaxDayAssumption DEF Blank, Checkpoint, States, Sessions
<1>2. 0 \in 0..MaxRetries
  BY MaxRetriesAssumption
<1> QED
  BY <1>1, <1>2 DEF Vanish, TypeOK

\* The names the actions use are states of the supervisor.
LEMMA StateNames ==
  /\ "Starting" \in States /\ "WaitingForSession" \in States
  /\ "PreparingSession" \in States /\ "Trading" \in States
  /\ "FinalizingSession" \in States /\ "Learning" \in States
  /\ "Recovering" \in States /\ "Degraded" \in States
  /\ "Halted" \in States /\ "ShuttingDown" \in States
BY DEF States

\* A reconciliation sets the brake to one of its three positions.
LEMMA BrakedType ==
  ASSUME TypeOK, NEW out
  PROVE  Braked(out) \in {"off", "killed", "halted"}
BY DEF Braked, TypeOK

\* Both initialisations of a start keep the types.
LEMMA InitializeTypes ==
  ASSUME TypeOK, Initialize
  PROVE  TypeOK'
<1> USE CheckpointTypes, StateNames, TransitionTypes
<1>1. CASE InitUnreadable
  <2>1. [sup |-> "Halted", session |-> cp.session] \in Checkpoint
    BY DEF Checkpoint, TypeOK
  <2> QED
    BY <1>1, <2>1, VanishTypes DEF InitUnreadable, TypeOK, book, broker, world
<1>2. CASE InitHalted
  <2>1. CkptOK /\ active' \in BOOLEAN /\ err' \in BOOLEAN
    BY <1>2 DEF InitHalted, TypeOK
  <2> QED
    BY <1>2, <2>1
       DEF InitHalted, Initialized, CkptOK, TypeOK, book, broker, world, audit
<1>3. CASE InitDegraded
  <2>1. CkptOK /\ active' \in BOOLEAN /\ err' \in BOOLEAN
    BY <1>3 DEF InitDegraded, TypeOK
  <2> QED
    BY <1>3, <2>1
       DEF InitDegraded, InitReady, Initialized, CkptOK, TypeOK, book, broker, world, audit
<1>4. CASE InitDone
  <2>1. CkptOK /\ active' \in BOOLEAN /\ err' \in BOOLEAN
    BY <1>4 DEF InitDone, TypeOK
  <2>2. plans' \in Sessions
    BY <1>4 DEF InitDone, Restored, TypeOK, Checkpoint
  <2> QED
    BY <1>4, <2>1, <2>2, ReconcileShape
       DEF InitDone, InitReady, Initialized, CkptOK, TypeOK, world, Verdicts
<1>5. ASSUME NEW out \in Verdicts, InitRecovering(out) PROVE TypeOK'
  <2>1. (active /\ out # "mismatch") \in BOOLEAN /\ cur' \in Sessions
    BY <1>5 DEF InitRecovering, TypeOK
  <2>2. CkptOK /\ active' \in BOOLEAN /\ err' \in BOOLEAN
    BY <1>5, <2>1 DEF InitRecovering
  <2> QED
    BY <1>5, <2>1, <2>2, ReconcileShape, BrakedType
       DEF InitRecovering, InitReady, Initialized, CkptOK, TypeOK, world
<1> QED
  BY <1>1, <1>2, <1>3, <1>4, <1>5 DEF Initialize

\* The preparation of a session keeps the types.
LEMMA PreparingTypes ==
  ASSUME TypeOK, StepPreparing
  PROVE  TypeOK'
<1> USE CheckpointTypes, StateNames, TransitionTypes, FailTypes
<1>1. ASSUME NEW out \in Verdicts, PrepareReconcile(out) PROVE TypeOK'
  <2>1. cur' \in Sessions /\ (active /\ out # "mismatch") \in BOOLEAN
    BY <1>1 DEF PrepareReconcile, TypeOK
  <2>2. /\ CkptOK /\ active' \in BOOLEAN /\ err' \in BOOLEAN
        /\ retry' \in 0..MaxRetries
        /\ (pc' = "build" /\ noted' = phase) \/ UNCHANGED <<pc, noted>>
    BY <1>1, <2>1 DEF PrepareReconcile, CkptOK, TypeOK
  <2> QED
    BY <1>1, <2>1, <2>2, ReconcileShape, BrakedType
       DEF PrepareReconcile, CkptOK, TypeOK, world
<1>2. CASE PrepareFails
  <2>1. CkptOK /\ active' \in BOOLEAN /\ err' \in BOOLEAN /\ retry' \in 0..MaxRetries
    BY <1>2 DEF PrepareFails, TypeOK
  <2>2. plans' \in Sessions /\ saved' \subseteq Sessions
    BY <1>2, MaxDayAssumption DEF PrepareFails, TypeOK, Sessions
  <2> QED
    BY <1>2, <2>1, <2>2 DEF PrepareFails, CkptOK, TypeOK, book, broker, world, audit
<1>3. CASE PrepareBuild
  BY <1>3 DEF PrepareBuild, TypeOK, ckpt, book, broker, world, audit
<1>4. ASSUME NEW out \in Verdicts, PrepareActivate(out) PROVE TypeOK'
  <2>1. cur' \in Sessions /\ Activated(out) \in BOOLEAN
    BY <1>4 DEF PrepareActivate, Activated, TypeOK
  <2>2. CkptOK /\ active' \in BOOLEAN /\ err' \in BOOLEAN
    BY <1>4, <2>1 DEF PrepareActivate
  <2>3. retry' \in 0..MaxRetries
    BY <1>4, MaxRetriesAssumption DEF PrepareActivate
  <2> QED
    BY <1>4, <2>1, <2>2, <2>3, ReconcileShape, BrakedType
       DEF PrepareActivate, CkptOK, TypeOK, world
<1> QED
  BY <1>1, <1>2, <1>3, <1>4 DEF StepPreparing

\* Trading keeps the types.
LEMMA TradingTypes ==
  ASSUME TypeOK, StepTrading
  PROVE  TypeOK'
<1> USE CheckpointTypes, StateNames, TransitionTypes
<1>1. CASE TradeDataHalt
  <2>1. CkptOK /\ active' \in BOOLEAN /\ err' \in BOOLEAN
    BY <1>1 DEF TradeDataHalt, TypeOK
  <2> QED
    BY <1>1, <2>1 DEF TradeDataHalt, CkptOK, TypeOK, book, broker, world, audit
<1>2. CASE TradeClose
  <2>1. CkptOK /\ active' \in BOOLEAN /\ err' \in BOOLEAN
    BY <1>2 DEF TradeClose, TypeOK
  <2> QED
    BY <1>2, <2>1 DEF TradeClose, CkptOK, TypeOK, book, broker, world, audit
<1>3. CASE TickBegin
  <2>1. UNCHANGED <<ckpt, book, broker, world, audit>>
    BY <1>3 DEF TickBegin
  <2>2. UNCHANGED <<state, cp, disk, retry, tracked, stored, guarded, hit, held, orders,
                    phase, day, faulty, outages, stops, synced, alarmed>>
    BY <2>1 DEF ckpt, book, broker, world, audit
  <2>3. /\ pc' \in {"bars", "top"} /\ err' \in BOOLEAN /\ active' \in BOOLEAN
        /\ UNCHANGED <<proc, noted, cur, plans, saved, brake, feed>>
    BY <1>3 DEF TickBegin
  <2> QED
    BY <2>2, <2>3 DEF TypeOK
<1>4. CASE TickEnd
  BY <1>4 DEF TickEnd, TypeOK, ckpt, runtime, book, broker, world, audit
<1>5. CASE BarOnly
  BY <1>5 DEF BarOnly, BarFrame, BarSeen, TypeOK, control, ckpt, book, broker, world, audit
<1>6. ASSUME NEW s \in Symbols, Bar(s) PROVE TypeOK'
  <2>1. feed' \in Sessions /\ UNCHANGED <<control, ckpt, cur, plans, saved, active, brake, audit, world>>
    BY <1>6 DEF Bar, BarIngest, BarExit, BarEnterWorking, BarEnterFilled, BarSeen, BarFrame
  <2>2. {<<s, "stop">>, <<s, "exit">>, <<s, "entry">>} \subseteq Symbols \X Kinds
    BY DEF Kinds
  <2>3. held' \subseteq Symbols /\ orders' \subseteq Symbols \X Kinds
    <3>1. CASE BarIngest(s)
      BY <3>1 DEF BarIngest, TypeOK, broker
    <3>2. CASE BarExit(s)
      BY <3>2, <2>2 DEF BarExit, TypeOK
    <3>3. CASE BarEnterWorking(s)
      BY <3>3, <2>2 DEF BarEnterWorking, TypeOK
    <3>4. CASE BarEnterFilled(s)
      BY <3>4, <2>2 DEF BarEnterFilled, TypeOK
    <3> QED
      BY <1>6, <3>1, <3>2, <3>3, <3>4 DEF Bar
  <2>4. /\ tracked' \subseteq Symbols /\ stored' \subseteq Symbols
        /\ guarded' \subseteq Symbols /\ hit' \subseteq Symbols
    <3>1. CASE BarIngest(s)
      BY <3>1 DEF BarIngest, Dropped, Keep, TypeOK
    <3>2. CASE BarExit(s)
      BY <3>2 DEF BarExit, Dropped, Keep, TypeOK, book
    <3>3. CASE BarEnterWorking(s)
      BY <3>3 DEF BarEnterWorking, TypeOK, book
    <3>4. CASE BarEnterFilled(s)
      BY <3>4 DEF BarEnterFilled, Opened, Recorded, Keep, TypeOK, book
    <3> QED
      BY <1>6, <3>1, <3>2, <3>3, <3>4 DEF Bar
  <2> QED
    BY <2>1, <2>3, <2>4 DEF TypeOK, control, ckpt, audit, world
<1> QED
  BY <1>1, <1>2, <1>3, <1>4, <1>5, <1>6 DEF StepTrading

\* What the flattening does to the book and to the orders at the broker
BookFlattened(sold, pending) ==
  /\ held' = held \ sold
  /\ orders' = orders \cup (pending \X {"exit"})
  /\ \E unbooked \in SUBSET sold, left \in SUBSET sold :
       Keep(tracked \ (sold \ unbooked),
            stored \ (sold \ (left \cup unbooked)), guarded, hit)

\* Flattening goes on to the settlement or fails, may engage the kill switch,
\* and forgets the trades it sold and nothing else.
LEMMA FlattenShape ==
  ASSUME FinalizeFlatten
  PROVE  /\ At("flatten")
         /\ UNCHANGED <<cur, proc, noted, plans, saved, feed, audit, world>>
         /\ brake' \in {brake, "killed"}
         /\ \/ pc' = "settle" /\ active' = FALSE /\ UNCHANGED <<err, state, cp, disk, retry>>
            \/ pc' = "top" /\ FailStep(cp, FALSE)
         /\ \E sold, pending \in SUBSET tracked : BookFlattened(sold, pending)
<1>1. PICK sold, pending, rejected \in SUBSET tracked :
        \E unbooked, left \in SUBSET sold :
          Flattening(sold, pending, rejected, unbooked, left)
  BY DEF FinalizeFlatten
<1>2. PICK unbooked, left \in SUBSET sold :
        Flattening(sold, pending, rejected, unbooked, left)
  BY <1>1
<1>3. BookFlattened(sold, pending)
  BY <1>2 DEF Flattening, BookFlattened
<1>4. /\ brake' \in {brake, "killed"}
      /\ \/ pc' = "settle" /\ active' = FALSE /\ UNCHANGED <<err, state, cp, disk, retry>>
         \/ pc' = "top" /\ FailStep(cp, FALSE)
  BY <1>2 DEF Flattening
<1>5. At("flatten") /\ UNCHANGED <<cur, proc, noted, plans, saved, feed, audit, world>>
  BY DEF FinalizeFlatten
<1> QED
  BY <1>3, <1>4, <1>5

\* The finalization of a session keeps the types.
LEMMA FinalizingTypes ==
  ASSUME TypeOK, StepFinalizing
  PROVE  TypeOK'
<1> USE CheckpointTypes, StateNames, TransitionTypes, FailTypes
<1>1. CASE FinalizeCancel
  <2>1. CkptOK /\ active' \in BOOLEAN /\ err' \in BOOLEAN /\ retry' \in 0..MaxRetries
    BY <1>1 DEF FinalizeCancel, CkptOK, TypeOK, ckpt
  <2>2. pc' \in {"flatten", "top"} /\ orders' \subseteq Symbols \X Kinds
    BY <1>1 DEF FinalizeCancel, TypeOK, Idle
  <2>3. UNCHANGED <<cur, proc, noted, plans, saved, brake, feed, book, audit, held, world>>
    BY <1>1 DEF FinalizeCancel
  <2> QED
    BY <2>1, <2>2, <2>3 DEF CkptOK, TypeOK, book, world, audit
<1>2. CASE FinalizeFlatten
  <2>1. /\ CkptOK /\ active' \in BOOLEAN /\ err' \in BOOLEAN /\ retry' \in 0..MaxRetries
        /\ pc' \in {"settle", "top"}
    BY <1>2, FlattenShape DEF CkptOK, TypeOK
  <2>2. brake' \in {"off", "killed", "halted"}
    BY <1>2, FlattenShape DEF TypeOK
  <2>3. /\ held' \subseteq Symbols /\ orders' \subseteq Symbols \X Kinds
        /\ tracked' \subseteq Symbols /\ stored' \subseteq Symbols
        /\ guarded' \subseteq Symbols /\ hit' \subseteq Symbols
    <3>1. PICK sold \in SUBSET tracked, pending \in SUBSET tracked :
                 BookFlattened(sold, pending)
      BY <1>2, FlattenShape
    <3> QED
      BY <3>1 DEF BookFlattened, Keep, TypeOK, Kinds
  <2> QED
    BY <1>2, <2>1, <2>2, <2>3, FlattenShape DEF CkptOK, TypeOK, audit, world
<1>3. ASSUME NEW out \in Verdicts, FinalizeSettle(out) PROVE TypeOK'
  <2>1. /\ CkptOK /\ active' \in BOOLEAN /\ err' \in BOOLEAN /\ retry' \in 0..MaxRetries
        /\ pc' \in {"verify", "top"}
    BY <1>3 DEF FinalizeSettle, CkptOK, TypeOK
  <2>2. brake' \in {"off", "killed", "halted"}
    BY <1>3, BrakedType DEF FinalizeSettle, TypeOK
  <2> QED
    BY <1>3, <2>1, <2>2, ReconcileShape DEF FinalizeSettle, CkptOK, TypeOK, world
<1>4. CASE FinalizeVerify
  <2>1. /\ CkptOK /\ active' \in BOOLEAN /\ err' \in BOOLEAN /\ retry' \in 0..MaxRetries
        /\ pc' \in {"positions", "top"}
    BY <1>4 DEF FinalizeVerify, VerifyFails, CkptOK, TypeOK, ckpt
  <2> QED
    BY <1>4, <2>1 DEF FinalizeVerify, VerifyFails, CkptOK, TypeOK, book, broker, world, audit
<1>5. ASSUME NEW out \in Verdicts, FinalizePositions(out) PROVE TypeOK'
  <2>1. CASE VerifyFails /\ cur' = cur
    <3>1. CkptOK /\ active' \in BOOLEAN /\ err' \in BOOLEAN /\ retry' \in 0..MaxRetries
      BY <2>1 DEF VerifyFails, TypeOK
    <3> QED
      BY <1>5, <2>1, <3>1
         DEF FinalizePositions, VerifyFails, CkptOK, TypeOK, book, broker, world, audit
  <2>2. CASE /\ PostMarket(out) /\ pc' = "top" /\ UNCHANGED <<retry, cur>>
             /\ TransitionTo("Learning", cp, active /\ out # "mismatch")
    <3>1. (active /\ out # "mismatch") \in BOOLEAN /\ cur' \in Sessions
      BY <2>2 DEF TypeOK
    <3>2. CkptOK /\ active' \in BOOLEAN /\ err' \in BOOLEAN
      BY <2>2, <3>1
    <3>3. plans' \in Sessions
      BY <2>2, MaxDayAssumption DEF PostMarket, TypeOK, Sessions
    <3> QED
      BY <1>5, <2>2, <3>2, <3>3, ReconcileShape, BrakedType
         DEF FinalizePositions, PostMarket, CkptOK, TypeOK, world
  <2> QED
    BY <1>5, <2>1, <2>2 DEF FinalizePositions
<1> QED
  BY <1>1, <1>2, <1>3, <1>4, <1>5 DEF StepFinalizing

\* The short steps keep the types.
LEMMA OtherStepTypes ==
  ASSUME TypeOK, StepStarting \/ StepWaiting \/ StepLearning \/ StepError
  PROVE  TypeOK'
<1> USE CheckpointTypes, StateNames, TransitionTypes
<1>1. CASE StepStarting
  <2>1. StartTarget \in States
    BY DEF StartTarget
  <2>2. CkptOK /\ active' \in BOOLEAN /\ err' \in BOOLEAN
    BY <1>1, <2>1 DEF StepStarting, TypeOK
  <2> QED
    BY <1>1, <2>2 DEF StepStarting, CkptOK, TypeOK, book, broker, world, audit
<1>2. CASE StepWaiting
  <2>1. CkptOK /\ active' \in BOOLEAN /\ err' \in BOOLEAN
    BY <1>2 DEF StepWaiting, CkptOK, TypeOK
  <2> QED
    BY <1>2, <2>1 DEF StepWaiting, CkptOK, TypeOK, book, broker, world, audit
<1>3. CASE StepLearning
  <2>1. CkptOK /\ active' \in BOOLEAN /\ err' \in BOOLEAN
    BY <1>3 DEF StepLearning, TypeOK
  <2>2. retry' \in 0..MaxRetries /\ plans' \in Sessions
    BY <1>3, MaxRetriesAssumption, MaxDayAssumption DEF StepLearning, Sessions
  <2> QED
    BY <1>3, <2>1, <2>2 DEF StepLearning, CkptOK, TypeOK, book, broker, world, audit
<1>4. CASE StepError
  <2>1. state \in States /\ cur' \in Sessions /\ active \in BOOLEAN
    BY <1>4 DEF StepError, TypeOK
  <2>2. CkptOK /\ active' \in BOOLEAN
    <3>1. CASE Enter("Halted", cp, active)
      BY <2>1, <3>1, EnterShape, MovedTypes
    <3>2. CASE Attempt("Recovering", cp, FALSE) \/ Attempt("Recovering", cp, active)
      BY <2>1, <3>2
    <3> QED
      BY <1>4, <3>1, <3>2 DEF StepError
  <2> QED
    BY <1>4, <2>2, BumpType
       DEF StepError, CkptOK, TypeOK, book, broker, world, audit
<1> QED
  BY <1>1, <1>2, <1>3, <1>4

\* A recovery keeps the types.
LEMMA RecoveringTypes ==
  ASSUME TypeOK, StepRecovering
  PROVE  TypeOK'
<1> USE CheckpointTypes, StateNames, TransitionTypes, BumpType
<1>1. ASSUME NEW act \in BOOLEAN, StillRecovering(act)
      PROVE  /\ CkptOK /\ active' \in BOOLEAN /\ err' \in BOOLEAN
             /\ cur' = cur /\ retry' \in 0..MaxRetries
  BY <1>1 DEF StillRecovering, CkptOK, TypeOK
<1>2. CASE RecoverNoBroker
  <2>1. active \in BOOLEAN
    BY DEF TypeOK
  <2>2. /\ CkptOK /\ active' \in BOOLEAN /\ err' \in BOOLEAN
        /\ cur' = cur /\ retry' \in 0..MaxRetries
    BY <1>1, <1>2, <2>1 DEF RecoverNoBroker
  <2> QED
    BY <1>2, <2>2 DEF RecoverNoBroker, CkptOK, TypeOK, book, broker, world, audit
<1>3. ASSUME NEW out \in Verdicts, RecoverReconcile(out) PROVE TypeOK'
  <2>1. (active /\ out # "mismatch") \in BOOLEAN
    BY DEF TypeOK
  <2>2. 0 \in 0..MaxRetries
    BY MaxRetriesAssumption
  <2>3. /\ CkptOK /\ active' \in BOOLEAN /\ err' \in BOOLEAN
        /\ cur' = cur /\ retry' \in 0..MaxRetries
    BY <1>1, <1>3, <2>1, <2>2 DEF RecoverReconcile, TypeOK
  <2> QED
    BY <1>3, <2>3, ReconcileShape, BrakedType
       DEF RecoverReconcile, CkptOK, TypeOK, world
<1> QED
  BY <1>2, <1>3 DEF StepRecovering

\* Starting, stalling and stopping the process keep the types.
LEMMA ProcessTypes ==
  ASSUME TypeOK, Boot \/ Heartbeat \/ Stall \/ Interrupt \/ Shutdown \/ Crash
  PROVE  TypeOK'
<1> USE CheckpointTypes, StateNames, TransitionTypes
<1>1. CASE Boot
  BY <1>1 DEF Boot, TypeOK, ckpt, broker, world, audit
<1>2. CASE Heartbeat
  BY <1>2 DEF Heartbeat, Persist, TypeOK, control, runtime, book, broker, world, audit
<1>3. CASE Stall
  <2>1. CkptOK /\ active' \in BOOLEAN
    <3>1. CASE Enter("Recovering", cp, active)
      BY <3>1, <1>3, EnterShape, MovedTypes DEF Stall, TypeOK
    <3>2. CASE active' = FALSE /\ state' = state /\ Persist(cp)
      BY <3>2 DEF Persist, CkptOK, TypeOK
    <3> QED
      BY <3>1, <3>2, <1>3 DEF Stall
  <2>2. err' = err /\ proc' = proc /\ pc' = pc /\ noted' = noted
    BY <1>3 DEF Stall, control
  <2>3. retry' \in 0..MaxRetries
    BY <1>3, BumpType DEF Stall, TypeOK
  <2> QED
    BY <1>3, <2>1, <2>2, <2>3 DEF Stall, CkptOK, TypeOK, book, broker, world, audit
<1>4. CASE Interrupt
  <2>1. CkptOK /\ active' \in BOOLEAN /\ err' \in BOOLEAN
    BY <1>4 DEF Interrupt, TypeOK
  <2>2. stops' \in 0..MaxStops
    BY <1>4, BoundsAssumption DEF Interrupt, TypeOK
  <2> QED
    BY <1>4, <2>1, <2>2 DEF Interrupt, CkptOK, TypeOK, book, broker, audit
<1>5. ASSUME NEW out \in Verdicts, ShutdownReconcile(out) PROVE TypeOK'
  BY <1>5, ReconcileShape, BrakedType DEF ShutdownReconcile, TypeOK, ckpt, world
<1>6. CASE ShutdownLiquidate
  <2>1. disk' \in Checkpoint \cup {Missing}
    BY <1>6 DEF ShutdownLiquidate, TypeOK
  <2>2. held' \subseteq Symbols /\ orders' \subseteq Symbols \X Kinds
    BY <1>6 DEF ShutdownLiquidate, Liquidate, TypeOK, Kinds, broker
  <2>3. stored' \subseteq Symbols
    BY <1>6 DEF ShutdownLiquidate, Liquidate, TypeOK
  <2>4. guarded' \subseteq Symbols /\ hit' \subseteq Symbols
    BY <1>6, <2>3 DEF ShutdownLiquidate
  <2> QED
    BY <1>6, <2>1, <2>2, <2>3, <2>4, VanishTypes DEF ShutdownLiquidate, TypeOK, world
<1>7. CASE Crash
  <2>1. stops' \in 0..MaxStops
    BY <1>7, BoundsAssumption DEF Crash, TypeOK
  <2> QED
    BY <1>7, <2>1, VanishTypes DEF Crash, TypeOK, broker
<1> QED
  BY <1>1, <1>2, <1>3, <1>4, <1>5, <1>6, <1>7 DEF Shutdown

\* Fills, the clock and outages keep the types.
LEMMA WorldTypes ==
  ASSUME TypeOK, World
  PROVE  TypeOK'
<1>1. CASE Fill
  BY <1>1 DEF Fill, HeldAfter, HitAfter, TypeOK, control, ckpt, runtime, audit, world
<1>2. CASE ClockTick
  <2>1. phase' \in Phases
    BY <1>2 DEF ClockTick, Following, TypeOK, Phases
  <2>2. day' \in 1..MaxDay
    BY <1>2, MaxDayAssumption DEF ClockTick, TypeOK
  <2> QED
    BY <1>2, <2>1, <2>2 DEF ClockTick, TypeOK, control, ckpt, runtime, book, audit
<1>3. ASSUME NEW svc \in Services, Break(svc) \/ Mend(svc) PROVE TypeOK'
  <2>1. outages' \in 0..MaxOutages
    BY <1>3, BoundsAssumption DEF Break, Mend, TypeOK
  <2> QED
    BY <1>3, <2>1 DEF Break, Mend, TypeOK, control, ckpt, runtime, book, broker, audit
<1> QED
  BY <1>1, <1>2, <1>3 DEF World

\* Type correctness: every value the supervisor, the runtime, the book and
\* the broker hold is one that the code can produce.
THEOREM TypeCorrect == Spec => []TypeOK
<1>1. TypeOK /\ [Next]_vars => TypeOK'
  <2> SUFFICES ASSUME TypeOK, [Next]_vars PROVE TypeOK'
    OBVIOUS
  <2>1. CASE UNCHANGED vars
    BY <2>1 DEF TypeOK, vars, control, ckpt, runtime, book, broker, world, audit
  <2>2. CASE Next
    BY <2>2, InitializeTypes, PreparingTypes, TradingTypes, FinalizingTypes,
       OtherStepTypes, RecoveringTypes, ProcessTypes, WorldTypes DEF Next, Step
  <2> QED
    BY <2>1, <2>2
<1> QED
  BY <1>1, InitTypes, PTL DEF Spec

-----------------------------------------------------------------------------
(* The inductive invariants                                                 *)

\* A process that is gone has nothing in memory.
NothingInMemory ==
  proc = "down" =>
    /\ state = "Starting" /\ pc = "top" /\ ~err
    /\ plans = 0 /\ brake = "off" /\ tracked = {}
    /\ synced = "none" /\ ~alarmed

\* DurabilityFirst alone is not inductive: the heartbeat and the second
\* initialisation write the checkpoint in memory, which must agree as well.
CheckpointsAgree ==
  proc # "down" /\ state # "Starting" => disk.sup = state /\ cp.sup = state

\* A step that is under way belongs to the state it was begun in; an error
\* waiting to be handled was raised by a step, and never in Halted; the
\* initialisations know only the four states they may end in.
StepInState ==
  /\ pc # "top" => proc \in {"run", "stopping"}
  /\ proc = "run" =>
       /\ pc \in {"build", "activate"} => state = "PreparingSession"
       /\ pc = "bars" => state = "Trading"
       /\ pc \in {"flatten", "settle", "verify", "positions"} =>
            state = "FinalizingSession"
  /\ err => proc = "run" /\ pc = "top" /\ state # "Halted"
  /\ Initializing => state \in {"Starting", "Halted", "Degraded", "Recovering"}

\* Once the orders have been verified there are none.
NoOrdersAtPositions == proc = "run" /\ pc = "positions" => orders = {}

\* Plans are only ever held by a process that has reconciled, they are there
\* whenever the supervisor trades, and a mismatch has engaged the kill switch.
PlansGated ==
  /\ plans # 0 => synced # "none"
  /\ proc = "run" /\ pc = "build" => cur # 0 /\ synced = "match"
  /\ proc = "run" /\ pc = "activate" => plans # 0
  /\ state = "Trading" => plans # 0
  /\ alarmed => brake # "off"

-----------------------------------------------------------------------------
(* Durability first                                                         *)

\* Every handler of a running process either keeps the state, the row and the
\* state named by the checkpoint, or moves and writes what it moved to.
Advanced == \E c \in Checkpoint : c.sup = cp.sup /\ Moved(c)

\* Whatever leaves state, checkpoint and row alone keeps them in step.
LEMMA FrameAdvances ==
  ASSUME TypeOK, UNCHANGED <<state, cp, disk>>
  PROVE  Advanced
BY DEF Advanced, Moved, TypeOK

\* Stamping the checkpoint with a session does not change its state.
LEMMA StampedCheckpoint ==
  ASSUME TypeOK, NEW d \in Sessions
  PROVE  [cp EXCEPT !.session = d] \in Checkpoint /\ [cp EXCEPT !.session = d].sup = cp.sup
BY DEF TypeOK, Checkpoint

\* A step of the preparation writes the row before it moves.
LEMMA PreparingAdvances ==
  ASSUME TypeOK, StepPreparing
  PROVE  Advanced
<1> USE CheckpointTypes, StateNames, TransitionShape, FailShape, StampedCheckpoint
<1>1. ASSUME NEW out \in Verdicts, PrepareReconcile(out) PROVE Advanced
  <2> DEFINE c == [cp EXCEPT !.session = day]
  <2>1. c \in Checkpoint /\ c.sup = cp.sup
    OBVIOUS
  <2>2. cur' \in Sessions /\ (active /\ out # "mismatch") \in BOOLEAN
    BY <1>1 DEF PrepareReconcile, TypeOK
  <2>3. \/ FailStep(c, active /\ out # "mismatch")
        \/ cp' = c /\ UNCHANGED <<state, disk>>
    BY <1>1 DEF PrepareReconcile
  <2> HIDE DEF c
  <2>4. Moved(c)
    BY <2>1, <2>2, <2>3 DEF Moved
  <2> QED
    BY <2>1, <2>4 DEF Advanced
<1>2. CASE PrepareFails
  BY <1>2 DEF PrepareFails, Advanced, TypeOK
<1>3. CASE PrepareBuild
  BY <1>3, FrameAdvances DEF PrepareBuild, ckpt
<1>4. ASSUME NEW out \in Verdicts, PrepareActivate(out) PROVE Advanced
  <2>1. cur' \in Sessions /\ Activated(out) \in BOOLEAN
    BY <1>4 DEF PrepareActivate, Activated, TypeOK
  <2>2. Moved(cp)
    BY <1>4, <2>1 DEF PrepareActivate, TypeOK
  <2> QED
    BY <2>2 DEF Advanced
<1> QED
  BY <1>1, <1>2, <1>3, <1>4 DEF StepPreparing

\* A step of Trading writes the row before it moves.
LEMMA TradingAdvances ==
  ASSUME TypeOK, StepTrading
  PROVE  Advanced
<1> USE CheckpointTypes, StateNames, TransitionShape
<1>1. CASE TradeDataHalt
  BY <1>1 DEF TradeDataHalt, Advanced, TypeOK
<1>2. CASE TradeClose
  BY <1>2 DEF TradeClose, Advanced, TypeOK
<1>3. CASE TickBegin \/ TickEnd \/ BarOnly
  BY <1>3, FrameAdvances DEF TickBegin, TickEnd, BarOnly, BarFrame, ckpt
<1>4. ASSUME NEW s \in Symbols, Bar(s) PROVE Advanced
  BY <1>4, FrameAdvances
     DEF Bar, BarIngest, BarExit, BarEnterWorking, BarEnterFilled, BarFrame, ckpt
<1> QED
  BY <1>1, <1>2, <1>3, <1>4 DEF StepTrading

\* A step of the finalization writes the row before it moves.
LEMMA FinalizingAdvances ==
  ASSUME TypeOK, StepFinalizing
  PROVE  Advanced
<1>1. ASSUME NEW act \in BOOLEAN, cur' = cur, FailStep(cp, act) PROVE Advanced
  BY <1>1, CheckpointTypes, FailShape DEF Advanced, TypeOK
<1>2. CASE FinalizeCancel
  BY <1>1, <1>2, FrameAdvances DEF FinalizeCancel, ckpt
<1>3. CASE FinalizeFlatten
  BY <1>1, <1>3, FrameAdvances, FlattenShape
<1>4. ASSUME NEW out \in Verdicts, FinalizeSettle(out) PROVE Advanced
  BY <1>1, <1>4, FrameAdvances DEF FinalizeSettle
<1>5. CASE FinalizeVerify
  BY <1>1, <1>5, FrameAdvances DEF FinalizeVerify, VerifyFails, ckpt, TypeOK
<1>6. ASSUME NEW out \in Verdicts, FinalizePositions(out) PROVE Advanced
  <2>1. CASE VerifyFails
    BY <1>1, <1>6, <2>1 DEF FinalizePositions, VerifyFails, TypeOK
  <2>2. CASE TransitionTo("Learning", cp, active /\ out # "mismatch")
    <3>1. cur' \in Sessions /\ (active /\ out # "mismatch") \in BOOLEAN
      BY <1>6 DEF FinalizePositions, TypeOK
    <3> QED
      BY <2>2, <3>1, CheckpointTypes, StateNames, TransitionShape DEF Advanced, TypeOK
  <2> QED
    BY <1>6, <2>1, <2>2 DEF FinalizePositions
<1> QED
  BY <1>2, <1>3, <1>4, <1>5, <1>6 DEF StepFinalizing

\* The short steps and a recovery write the row before they move.
LEMMA OtherStepAdvances ==
  ASSUME TypeOK, StepStarting \/ StepWaiting \/ StepLearning \/ StepError \/ StepRecovering
  PROVE  Advanced
<1> USE CheckpointTypes, StateNames, TransitionShape, StampedCheckpoint
<1>1. ASSUME NEW next \in States, NEW act \in BOOLEAN, cur' = cur,
             TransitionTo(next, cp, act) \/ Attempt(next, cp, act)
      PROVE  Advanced
  BY <1>1 DEF Advanced, TypeOK
<1>2. CASE StepStarting
  <2> DEFINE c == [cp EXCEPT !.session = day]
  <2>1. c \in Checkpoint /\ c.sup = cp.sup
    OBVIOUS
  <2>2. StartTarget \in States /\ cur' \in Sessions
    BY <1>2 DEF StartTarget, StepStarting
  <2>3. TransitionTo(StartTarget, c, active)
    BY <1>2 DEF StepStarting
  <2> HIDE DEF c
  <2> QED
    BY <2>1, <2>2, <2>3 DEF Advanced, TypeOK
<1>3. CASE StepWaiting
  BY <1>1, <1>3, FrameAdvances DEF StepWaiting
<1>4. CASE StepLearning
  BY <1>1, <1>4 DEF StepLearning, TypeOK
<1>5. CASE StepError
  <2>1. CASE Enter("Halted", cp, active)
    BY <1>5, <2>1, EnterShape DEF StepError, Advanced, TypeOK
  <2>2. CASE ~Enter("Halted", cp, active)
    BY <1>1, <1>5, <2>2 DEF StepError, TypeOK
  <2> QED
    BY <2>1, <2>2
<1>6. CASE StepRecovering
  <2>1. ASSUME NEW act \in BOOLEAN, StillRecovering(act) PROVE Advanced
    BY <1>1, <2>1, FrameAdvances DEF StillRecovering
  <2>2. CASE RecoverNoBroker
    BY <2>1, <2>2 DEF RecoverNoBroker, TypeOK
  <2>3. ASSUME NEW out \in Verdicts, RecoverReconcile(out) PROVE Advanced
    <3>1. (active /\ out # "mismatch") \in BOOLEAN
      BY DEF TypeOK
    <3> QED
      BY <1>1, <2>1, <2>3, <3>1 DEF RecoverReconcile, TypeOK
  <2> QED
    BY <1>6, <2>2, <2>3 DEF StepRecovering
<1> QED
  BY <1>2, <1>3, <1>4, <1>5, <1>6

\* Every step of the loop writes the row before it moves.
LEMMA StepAdvances ==
  ASSUME TypeOK, Step
  PROVE  Advanced
BY PreparingAdvances, TradingAdvances, FinalizingAdvances, OtherStepAdvances DEF Step

\* Steps are taken by a running process, which goes on running.
LEMMA StepRuns ==
  ASSUME Step
  PROVE  proc = "run" /\ proc' = "run"
BY DEF Step, StepStarting, StepWaiting, StepPreparing, StepTrading, StepFinalizing,
       StepLearning, StepRecovering, StepError, PrepareReconcile, PrepareFails,
       PrepareBuild, PrepareActivate, TradeDataHalt, TradeClose, TickBegin, BarOnly,
       TickEnd, Bar, BarIngest, BarExit, BarEnterWorking, BarEnterFilled, BarSeen,
       BarFrame, FinalizeCancel, FinalizeFlatten, FinalizeSettle, FinalizeVerify,
       FinalizePositions, InTrade, InRecovery, RecoverNoBroker, RecoverReconcile,
       Idle, At, control

\* The world never touches the program.
LEMMA WorldFrame ==
  ASSUME World
  PROVE  UNCHANGED <<control, ckpt, runtime, tracked, stored, guarded, audit>>
BY DEF World, Fill, ClockTick, Break, Mend, book

\* A shutdown ends the process or goes on after its reconciliation.
LEMMA ShutdownCases ==
  ASSUME Shutdown
  PROVE  \/ Vanish
         \/ \E out \in Verdicts : ShutdownReconcile(out)
BY DEF Shutdown, ShutdownLiquidate

\* What the initialisations may do to the process
LEMMA InitializeCases ==
  ASSUME Initialize
  PROVE  \/ Vanish
         \/ /\ Initializing /\ proc' \in {"init2", "run"} /\ pc' = pc /\ ~err'
            /\ \/ disk.sup = "Halted" /\ Attempt("Halted", cp, active)
               \/ /\ disk.sup # "Halted"
                  /\ \E next \in {"Starting", "Degraded", "Recovering"} :
                     \E act \in {active, active /\ synced' # "mismatch"} :
                       Attempt(next, Loaded, act)
BY DEF Initialize, InitUnreadable, InitHalted, InitDegraded, InitDone, InitRecovering,
       InitReady, Initialized, Initializing, Attempt, Reconcile, Remember

\* A process that is down has no trade in memory: what a restart knows
\* comes from the rows alone (HiveSupervisor::initialize).
THEOREM Volatile == Spec => []NothingInMemory
<1>1. Init => NothingInMemory
  BY DEF Init, NothingInMemory
<1>2. NothingInMemory /\ [Next]_vars => NothingInMemory'
  <2> SUFFICES ASSUME NothingInMemory, [Next]_vars, proc' = "down"
               PROVE  NothingInMemory'
    BY DEF NothingInMemory
  <2>1. CASE UNCHANGED vars
    BY <2>1 DEF vars, control, ckpt, runtime, book, audit, NothingInMemory
  <2>2. CASE Vanish
    BY <2>2 DEF Vanish, NothingInMemory
  <2>3. CASE World
    BY <2>3, WorldFrame DEF control, ckpt, runtime, audit, NothingInMemory
  <2>4. CASE Next /\ ~Vanish /\ ~World
    <3>1. CASE Boot \/ Heartbeat \/ Stall \/ Interrupt
      BY <3>1 DEF Boot, Heartbeat, Stall, Interrupt, Idle, control
    <3>2. CASE Step
      BY <3>2, StepRuns
    <3>3. CASE Initialize
      BY <2>4, <3>3, InitializeCases
    <3>4. CASE Shutdown
      BY <2>4, <3>4, ShutdownCases DEF ShutdownReconcile
    <3> QED
      BY <2>4, <3>1, <3>2, <3>3, <3>4 DEF Next, Crash
  <2> QED
    BY <2>1, <2>2, <2>3, <2>4
<1> QED
  BY <1>1, <1>2, PTL DEF Spec

\* A row that is written before the move keeps agreeing with memory.
LEMMA AdvancedAgrees ==
  ASSUME TypeOK, CheckpointsAgree, Advanced, proc # "down"
  PROVE  CheckpointsAgree'
BY DEF Advanced, Moved, CheckpointsAgree

\* After an initialisation the checkpoint in memory agrees with the row.
LEMMA InitializeAgrees ==
  ASSUME TypeOK, CheckpointsAgree, Initialize
  PROVE  CheckpointsAgree'
<1>1. CASE Vanish
  BY <1>1 DEF Vanish, CheckpointsAgree
<1>2. ASSUME NEW next \in States, NEW c \in {cp, Loaded}, Initializing,
             NEW act \in BOOLEAN, cur' = cur, Attempt(next, c, act)
      PROVE  CheckpointsAgree'
  <2>1. Moved(c)
    BY <1>2, CheckpointTypes, TransitionShape DEF TypeOK
  <2>2. state # "Starting" => c.sup = state /\ disk.sup = state
    BY <1>2 DEF CheckpointsAgree, Initializing, Loaded
  <2> QED
    BY <2>1, <2>2 DEF Moved, CheckpointsAgree
<1>3. Vanish \/ cur' = cur
  BY DEF Initialize, InitUnreadable, InitHalted, InitDegraded, InitDone, InitRecovering
<1>4. active \in BOOLEAN /\ (active /\ synced' # "mismatch") \in BOOLEAN
  BY DEF TypeOK
<1> QED
  BY <1>1, <1>2, <1>3, <1>4, InitializeCases, StateNames

\* The row and the checkpoint in memory name the state of every process that
\* has left Starting: the strengthening that makes DurabilityFirst inductive.
THEOREM Agreement == Spec => []CheckpointsAgree
<1>1. Init => CheckpointsAgree
  BY DEF Init, CheckpointsAgree
<1>2. TypeOK /\ TypeOK' /\ NothingInMemory /\ CheckpointsAgree /\ [Next]_vars
        => CheckpointsAgree'
  <2> SUFFICES ASSUME TypeOK, TypeOK', NothingInMemory, CheckpointsAgree, [Next]_vars
               PROVE  CheckpointsAgree'
    OBVIOUS
  <2>1. CASE UNCHANGED vars
    BY <2>1 DEF vars, control, ckpt, CheckpointsAgree
  <2>2. CASE Boot
    BY <2>2 DEF Boot, ckpt, NothingInMemory, CheckpointsAgree
  <2>3. CASE Initialize
    BY <2>3, InitializeAgrees
  <2>4. CASE Heartbeat
    BY <2>4, CheckpointTypes DEF Heartbeat, Persist, Idle, control, Checkpoint,
                                 CheckpointsAgree, TypeOK
  <2>5. CASE Interrupt
    BY <2>5, CheckpointTypes, StateNames, TransitionShape, AdvancedAgrees
       DEF Interrupt, Advanced, TypeOK
  <2>10. CASE Stall
    <3>1. proc' = proc /\ proc = "run" /\ state = "Trading"
      BY <2>10 DEF Stall, Idle, control
    <3>2. CASE Enter("Recovering", cp, active)
      BY <3>1, <3>2 DEF Enter, CheckpointsAgree
    <3>3. CASE state' = state /\ Persist(cp)
      BY <3>1, <3>3, CheckpointTypes DEF Persist, Checkpoint, CheckpointsAgree, TypeOK
    <3> QED
      BY <2>10, <3>2, <3>3 DEF Stall
  <2>6. CASE Step
    BY <2>6, StepRuns, StepAdvances, AdvancedAgrees
  <2>7. CASE Shutdown
    BY <2>7, ShutdownCases DEF Vanish, ShutdownReconcile, ckpt, CheckpointsAgree
  <2>8. CASE Crash
    BY <2>8 DEF Crash, Vanish, CheckpointsAgree
  <2>9. CASE World
    BY <2>9, WorldFrame DEF control, ckpt, CheckpointsAgree
  <2> QED
    BY <2>1, <2>2, <2>3, <2>4, <2>5, <2>6, <2>7, <2>8, <2>9, <2>10 DEF Next
<1> QED
  BY <1>1, <1>2, TypeCorrect, Volatile, PTL DEF Spec

\* The durable row always names the state of a running supervisor, whatever
\* crashes, outages, heartbeats and second initialisations came before.
THEOREM Durable == Spec => []DurabilityFirst
<1>1. CheckpointsAgree => DurabilityFirst
  BY DEF CheckpointsAgree, DurabilityFirst
<1> QED
  BY <1>1, Agreement, PTL

-----------------------------------------------------------------------------
(* Trades and their rows                                                    *)

\* Trading forgets a row only together with the trade in memory.
LEMMA TradingKeepsRows ==
  ASSUME TypeOK, StepTrading, tracked \subseteq stored
  PROVE  tracked' \subseteq stored'
<1>1. CASE TradeDataHalt \/ TradeClose \/ TickBegin \/ TickEnd \/ BarOnly
  BY <1>1 DEF TradeDataHalt, TradeClose, TickBegin, TickEnd, BarOnly, book
<1>2. ASSUME NEW s \in Symbols, Bar(s) PROVE tracked' \subseteq stored'
  <2>1. CASE BarIngest(s)
    BY <2>1 DEF BarIngest, Dropped, Keep
  <2>2. CASE BarExit(s)
    BY <2>2 DEF BarExit, Dropped, Keep, book
  <2>3. CASE BarEnterWorking(s)
    BY <2>3 DEF BarEnterWorking, book
  <2>4. CASE BarEnterFilled(s)
    BY <2>4 DEF BarEnterFilled, Opened, Recorded, Keep, book
  <2> QED
    BY <1>2, <2>1, <2>2, <2>3, <2>4 DEF Bar
<1> QED
  BY <1>1, <1>2 DEF StepTrading

\* No step of the loop drops the row of a trade in memory.
LEMMA StepKeepsRows ==
  ASSUME TypeOK, Step, tracked \subseteq stored
  PROVE  tracked' \subseteq stored'
<1> USE ReconcileShape
<1>1. CASE StepTrading
  BY <1>1, TradingKeepsRows
<1>2. CASE StepPreparing
  BY <1>2 DEF StepPreparing, PrepareReconcile, PrepareFails, PrepareBuild,
              PrepareActivate, book
<1>3. CASE StepFinalizing
  <2>1. CASE FinalizeFlatten
    <3>1. PICK sold \in SUBSET tracked : \E unbooked \in SUBSET sold, left \in SUBSET sold :
            Keep(tracked \ (sold \ unbooked), stored \ (sold \ (left \cup unbooked)),
                 guarded, hit)
      BY <2>1, FlattenShape DEF BookFlattened
    <3> QED
      BY <3>1 DEF Keep
  <2>2. CASE FinalizeCancel \/ FinalizeVerify
    BY <2>2 DEF FinalizeCancel, FinalizeVerify, VerifyFails, book
  <2>3. ASSUME NEW out \in Verdicts, FinalizeSettle(out) \/ FinalizePositions(out)
        PROVE  tracked' \subseteq stored'
    BY <2>3 DEF FinalizeSettle, FinalizePositions, PostMarket, VerifyFails, book
  <2> QED
    BY <1>3, <2>1, <2>2, <2>3 DEF StepFinalizing
<1>4. CASE StepRecovering
  BY <1>4 DEF StepRecovering, RecoverNoBroker, RecoverReconcile, book
<1>5. CASE StepStarting \/ StepWaiting \/ StepLearning \/ StepError
  BY <1>5 DEF StepStarting, StepWaiting, StepLearning, StepError, book
<1> QED
  BY <1>1, <1>2, <1>3, <1>4, <1>5 DEF Step

\* A trade in memory always has its row, so that no crash can make the next
\* process forget a position the bots opened.
THEOREM TradesDurable == Spec => []TradesSurviveCrash
<1> DEFINE Rows == tracked \subseteq stored
<1>1. Init => Rows
  BY DEF Init
<1>2. TypeOK /\ Rows /\ [Next]_vars => Rows'
  <2> SUFFICES ASSUME TypeOK, Rows, [Next]_vars PROVE Rows'
    OBVIOUS
  <2>1. CASE UNCHANGED vars
    BY <2>1 DEF vars, book
  <2>2. CASE Vanish
    BY <2>2 DEF Vanish
  <2>3. CASE Boot \/ Heartbeat \/ Stall \/ Interrupt
    BY <2>3 DEF Boot, Heartbeat, Stall, Interrupt, book
  <2>4. CASE Initialize
    BY <2>2, <2>4, ReconcileShape DEF Initialize, InitUnreadable, InitHalted, InitDegraded,
       InitDone, InitRecovering, book, Verdicts
  <2>5. CASE Step
    BY <2>5, StepKeepsRows
  <2>6. CASE Shutdown
    BY <2>2, <2>6, ShutdownCases, ReconcileShape DEF ShutdownReconcile
  <2>7. CASE World
    BY <2>7, WorldFrame
  <2> QED
    BY <2>1, <2>2, <2>3, <2>4, <2>5, <2>6, <2>7 DEF Next, Crash
<1>3. Rows => TradesSurviveCrash
  BY DEF TradesSurviveCrash
<1> QED
  BY <1>1, <1>2, <1>3, TypeCorrect, PTL DEF Spec

-----------------------------------------------------------------------------
(* Steps and the state they belong to                                       *)

\* The loop takes no step in Halted.
LEMMA StepNotHalted ==
  ASSUME StepInState, Step
  PROVE  state # "Halted"
BY DEF StepInState, Step, StepStarting, StepWaiting, StepPreparing, StepTrading,
       StepFinalizing, StepLearning, StepRecovering, StepError, PrepareReconcile,
       PrepareFails, PrepareBuild, PrepareActivate, TradeDataHalt, TradeClose,
       TickBegin, BarOnly, TickEnd, Bar, BarIngest, BarExit, BarEnterWorking,
       BarEnterFilled, BarSeen, FinalizeCancel, FinalizeFlatten, FinalizeSettle,
       FinalizeVerify, FinalizePositions, InTrade, InRecovery, RecoverNoBroker,
       RecoverReconcile, Idle, At

\* What a step leaves behind: an error only when it is over and did not move,
\* and a next part only in the state it was begun in.
StepLeaves ==
  /\ err' => pc' = "top" /\ state' = state
  /\ pc' \in {"build", "activate"} => state' = "PreparingSession"
  /\ pc' = "bars" => state' = "Trading"
  /\ pc' \in {"flatten", "settle", "verify", "positions"} => state' = "FinalizingSession"

\* The preparation leaves its state only where StepLeaves says.
LEMMA PreparingLeaves ==
  ASSUME TypeOK, StepInState, StepPreparing
  PROVE  StepLeaves
<1>0. err \in BOOLEAN
  BY DEF TypeOK
<1> USE <1>0, CheckpointTypes, StateNames, TransitionShape, FailShape, StampedCheckpoint
<1>1. ASSUME NEW out \in Verdicts, PrepareReconcile(out) PROVE StepLeaves
  <2> DEFINE c == [cp EXCEPT !.session = day]
  <2>1. c \in Checkpoint
    OBVIOUS
  <2>2. cur' \in Sessions /\ (active /\ out # "mismatch") \in BOOLEAN
    BY <1>1 DEF PrepareReconcile, TypeOK
  <2>3. \/ FailStep(c, active /\ out # "mismatch") /\ pc' = "top"
        \/ state' = state /\ ~err' /\ pc' = "build" /\ state = "PreparingSession"
    BY <1>1 DEF PrepareReconcile, Idle
  <2> HIDE DEF c
  <2> QED
    BY <2>1, <2>2, <2>3 DEF StepLeaves
<1>2. CASE PrepareFails
  BY <1>2 DEF PrepareFails, StepLeaves, TypeOK
<1>3. CASE PrepareBuild
  BY <1>3 DEF PrepareBuild, At, ckpt, StepLeaves, StepInState
<1>4. ASSUME NEW out \in Verdicts, PrepareActivate(out) PROVE StepLeaves
  <2>1. cur' \in Sessions /\ Activated(out) \in BOOLEAN
    BY <1>4 DEF PrepareActivate, Activated, TypeOK
  <2> QED
    BY <1>4, <2>1 DEF PrepareActivate, StepLeaves, TypeOK
<1> QED
  BY <1>1, <1>2, <1>3, <1>4 DEF StepPreparing

\* Trading leaves its state only where StepLeaves says.
LEMMA TradingLeaves ==
  ASSUME TypeOK, StepInState, StepTrading
  PROVE  StepLeaves
<1>0. err \in BOOLEAN
  BY DEF TypeOK
<1> USE <1>0, CheckpointTypes, StateNames, TransitionShape
<1>1. CASE TradeDataHalt
  BY <1>1 DEF TradeDataHalt, InTrade, Idle, StepLeaves, TypeOK
<1>2. CASE TradeClose
  BY <1>2 DEF TradeClose, InTrade, Idle, StepLeaves, TypeOK
<1>3. CASE TickBegin \/ TickEnd
  BY <1>3 DEF TickBegin, TickEnd, InTrade, Idle, At, ckpt, StepLeaves
<1>4. CASE BarOnly \/ \E s \in Symbols : Bar(s)
  <2>1. BarSeen /\ BarFrame
    BY <1>4 DEF BarOnly, Bar, BarIngest, BarExit, BarEnterWorking, BarEnterFilled
  <2>2. proc = "run" /\ pc = "bars" /\ ~err
    BY <2>1 DEF BarSeen, At
  <2>3. pc' = pc /\ err' = err /\ state' = state
    BY <2>1 DEF BarFrame, control, ckpt
  <2> QED
    BY <2>2, <2>3 DEF StepLeaves, StepInState
<1> QED
  BY <1>1, <1>2, <1>3, <1>4 DEF StepTrading

\* The finalization leaves its state only where StepLeaves says.
LEMMA FinalizingLeaves ==
  ASSUME TypeOK, StepInState, StepFinalizing
  PROVE  StepLeaves
<1>0. err \in BOOLEAN
  BY DEF TypeOK
<1> USE <1>0
<1>1. ASSUME NEW act \in BOOLEAN, cur' = cur, FailStep(cp, act), pc' = "top"
      PROVE  StepLeaves
  BY <1>1, CheckpointTypes, FailShape DEF StepLeaves, TypeOK
<1>2. CASE FinalizeCancel
  <2>1. CASE FailStep(cp, FALSE) /\ pc' = "top"
    BY <1>1, <1>2, <2>1 DEF FinalizeCancel
  <2>2. CASE ~(FailStep(cp, FALSE) /\ pc' = "top")
    <3>1. state = "FinalizingSession" /\ pc = "top" /\ ~err
      BY <1>2 DEF FinalizeCancel, Idle
    <3>2. pc' = "flatten" /\ UNCHANGED <<err, ckpt>>
      BY <1>2, <2>2, <3>1 DEF FinalizeCancel
    <3>3. state' = state /\ err' = err
      BY <3>2 DEF ckpt
    <3> QED
      BY <3>1, <3>2, <3>3 DEF StepLeaves
  <2> QED
    BY <2>1, <2>2
<1>3. CASE FinalizeFlatten
  <2>1. state = "FinalizingSession"
    BY <1>3, FlattenShape DEF At, StepInState
  <2>2. CASE pc' = "settle" /\ UNCHANGED <<err, state>>
    BY <1>3, <2>1, <2>2, FlattenShape DEF At, StepLeaves
  <2>3. CASE pc' = "top" /\ FailStep(cp, FALSE)
    BY <1>1, <1>3, <2>3, FlattenShape
  <2> QED
    BY <1>3, <2>2, <2>3, FlattenShape
<1>4. ASSUME NEW out \in Verdicts, FinalizeSettle(out) PROVE StepLeaves
  <2>1. CASE FailStep(cp, FALSE) /\ pc' = "top"
    BY <1>1, <1>4, <2>1 DEF FinalizeSettle
  <2>2. CASE ~(FailStep(cp, FALSE) /\ pc' = "top")
    <3>1. proc = "run" /\ pc = "settle" /\ ~err /\ pc' = "verify"
      BY <1>4, <2>2 DEF FinalizeSettle, At
    <3>2. state' = state /\ err' = err
      BY <1>4, <2>2 DEF FinalizeSettle
    <3> QED
      BY <3>1, <3>2 DEF StepLeaves, StepInState
  <2> QED
    BY <2>1, <2>2
<1>5. CASE FinalizeVerify
  BY <1>1, <1>5 DEF FinalizeVerify, VerifyFails, At, ckpt, StepLeaves, StepInState, TypeOK
<1>6. ASSUME NEW out \in Verdicts, FinalizePositions(out) PROVE StepLeaves
  <2>1. CASE VerifyFails
    BY <1>1, <1>6, <2>1 DEF FinalizePositions, VerifyFails, TypeOK
  <2>2. CASE TransitionTo("Learning", cp, active /\ out # "mismatch") /\ pc' = "top"
    <3>1. cur' \in Sessions /\ (active /\ out # "mismatch") \in BOOLEAN
      BY <1>6 DEF FinalizePositions, TypeOK
    <3> QED
      BY <2>2, <3>1, CheckpointTypes, StateNames, TransitionShape DEF StepLeaves, TypeOK
  <2> QED
    BY <1>6, <2>1, <2>2 DEF FinalizePositions
<1> QED
  BY <1>2, <1>3, <1>4, <1>5, <1>6 DEF StepFinalizing

\* The short steps leave their states only where StepLeaves says.
LEMMA OtherStepLeaves ==
  ASSUME TypeOK, StepInState, StepStarting \/ StepWaiting \/ StepLearning \/ StepError \/ StepRecovering
  PROVE  StepLeaves
<1>0. err \in BOOLEAN
  BY DEF TypeOK
<1> USE <1>0, CheckpointTypes, StateNames, TransitionShape, StampedCheckpoint
<1>1. pc = "top" /\ pc' = "top"
  BY DEF StepStarting, StepWaiting, StepLearning, StepError, StepRecovering, InRecovery,
         RecoverNoBroker, RecoverReconcile, Idle, StepInState
<1>2. ASSUME NEW next \in States, NEW act \in BOOLEAN, cur' = cur,
             TransitionTo(next, cp, act)
      PROVE  err' => state' = state
  BY <1>2 DEF TypeOK
<1>3. CASE StepStarting
  <2> DEFINE c == [cp EXCEPT !.session = day]
  <2>1. c \in Checkpoint
    OBVIOUS
  <2>2. StartTarget \in States /\ cur' \in Sessions
    BY <1>3 DEF StartTarget, StepStarting
  <2>3. TransitionTo(StartTarget, c, active)
    BY <1>3 DEF StepStarting
  <2> HIDE DEF c
  <2> QED
    BY <1>1, <2>1, <2>2, <2>3 DEF StepLeaves, TypeOK
<1>4. CASE StepWaiting
  BY <1>1, <1>2, <1>4 DEF StepWaiting, StepLeaves, Idle
<1>5. CASE StepLearning
  BY <1>1, <1>2, <1>5 DEF StepLearning, StepLeaves, TypeOK
<1>6. CASE StepError
  BY <1>1, <1>6 DEF StepError, StepLeaves
<1>7. CASE StepRecovering
  <2>1. ASSUME NEW act \in BOOLEAN, StillRecovering(act), ~err PROVE ~err'
    <3>1. err' = FALSE \/ err' = err
      BY <2>1 DEF StillRecovering, Attempt
    <3> QED
      BY <2>1, <3>1
  <2>2. active \in BOOLEAN /\ ~err
    BY <1>7 DEF StepRecovering, RecoverNoBroker, RecoverReconcile, InRecovery, Idle, TypeOK
  <2>3. CASE RecoverNoBroker
    BY <1>1, <2>1, <2>2, <2>3 DEF RecoverNoBroker, StepLeaves
  <2>4. ASSUME NEW out \in Verdicts, RecoverReconcile(out) PROVE err' => state' = state
    <3>1. (active /\ out # "mismatch") \in BOOLEAN
      BY <2>2
    <3> QED
      BY <1>2, <2>1, <2>2, <2>4, <3>1 DEF RecoverReconcile
  <2> QED
    BY <1>1, <1>7, <2>3, <2>4 DEF StepRecovering, StepLeaves
<1> QED
  BY <1>3, <1>4, <1>5, <1>6, <1>7

\* A handler that is cut at an await finds the state it began in.
LEMMA StepStaysInState ==
  ASSUME TypeOK, StepInState, Step
  PROVE  StepInState'
<1>1. StepLeaves
  BY PreparingLeaves, TradingLeaves, FinalizingLeaves, OtherStepLeaves DEF Step
<1>2. proc' = "run" /\ state # "Halted"
  BY StepRuns, StepNotHalted
<1> QED
  BY <1>1, <1>2 DEF StepLeaves, StepInState, Initializing

\* A part of a step belongs to its state, whatever interrupted the process.
THEOREM StepsInState == Spec => []StepInState
<1>1. Init => StepInState
  BY DEF Init, StepInState, Initializing
<1>2. TypeOK /\ NothingInMemory /\ StepInState /\ [Next]_vars => StepInState'
  <2> SUFFICES ASSUME TypeOK, NothingInMemory, StepInState, [Next]_vars
               PROVE  StepInState'
    OBVIOUS
  <2>1. CASE UNCHANGED control /\ state' = state
    BY <2>1 DEF control, StepInState, Initializing
  <2>2. CASE Vanish
    BY <2>2 DEF Vanish, StepInState, Initializing
  <2>3. CASE Boot
    BY <2>3 DEF Boot, ckpt, NothingInMemory, StepInState, Initializing
  <2>4. CASE Initialize
    <3>1. CASE ~Vanish
      <4>1. /\ proc' \in {"init2", "run"} /\ pc' = pc /\ ~err' /\ Initializing
            /\ state' \in {state, "Halted", "Starting", "Degraded", "Recovering"}
        <5>1. ASSUME NEW next, NEW c, NEW act, Attempt(next, c, act)
              PROVE  state' \in {state, next}
          BY <5>1 DEF Attempt, Enter, Refused
        <5> QED
          BY <2>4, <3>1, <5>1, InitializeCases
      <4> QED
        BY <4>1 DEF StepInState, Initializing
    <3> QED
      BY <2>2, <3>1
  <2>5. CASE Heartbeat
    BY <2>1, <2>5 DEF Heartbeat
  <2>6. CASE Stall
    <3>1. proc' = "run" /\ pc' = "top" /\ ~err'
      BY <2>6 DEF Stall, Idle, control
    <3> QED
      BY <3>1 DEF StepInState, Initializing
  <2>7. CASE Interrupt
    BY <2>7 DEF Interrupt, Attempt, StepInState, Initializing
  <2>8. CASE Step
    BY <2>8, StepStaysInState
  <2>9. ASSUME NEW out \in Verdicts, ShutdownReconcile(out) PROVE StepInState'
    <3>1. proc' = "stopping" /\ err' = err /\ proc = "stopping"
      BY <2>9 DEF ShutdownReconcile
    <3> QED
      BY <3>1 DEF StepInState, Initializing
  <2>10. CASE World
    BY <2>1, <2>10, WorldFrame DEF ckpt
  <2> QED
    BY <2>1, <2>2, <2>3, <2>4, <2>5, <2>6, <2>7, <2>8, <2>9, <2>10, ShutdownCases
       DEF Next, Crash, vars, ckpt
<1> QED
  BY <1>1, <1>2, TypeCorrect, Volatile, PTL DEF Spec

\* Within one process a halted supervisor stays halted until it is shut down:
\* no error, stall, recovery or second initialisation brings it back.
THEOREM HaltIsFinal == Spec => HaltedSticks
<1> DEFINE Sticks == state = "Halted" /\ proc' # "down" => state' \in {"Halted", "ShuttingDown"}
<1>1. NothingInMemory /\ CheckpointsAgree /\ StepInState /\ [Next]_vars => Sticks
  <2> SUFFICES ASSUME NothingInMemory, CheckpointsAgree, StepInState, [Next]_vars,
                      state = "Halted", proc' # "down"
               PROVE  state' \in {"Halted", "ShuttingDown"}
    OBVIOUS
  <2>1. CASE UNCHANGED ckpt
    BY <2>1 DEF ckpt
  <2>2. ~Boot /\ ~Vanish /\ ~Step
    BY StepNotHalted DEF Boot, Vanish, NothingInMemory
  <2>3. CASE Initialize
    <3>1. disk.sup = "Halted"
      BY <2>3, <2>2, InitializeCases DEF CheckpointsAgree, Initializing
    <3>2. Attempt("Halted", cp, active)
      BY <2>2, <2>3, <3>1, InitializeCases
    <3> QED
      BY <3>2 DEF Attempt, Enter, Refused
  <2>4. CASE Heartbeat \/ Stall \/ Interrupt
    BY <2>4 DEF Heartbeat, Stall, Interrupt, Attempt, Enter, Refused
  <2>5. CASE Shutdown
    BY <2>1, <2>2, <2>5, ShutdownCases DEF ShutdownReconcile
  <2>6. CASE World
    BY <2>1, <2>6, WorldFrame
  <2> QED
    BY <2>1, <2>2, <2>3, <2>4, <2>5, <2>6 DEF Next, Crash, vars
<1>2. Sticks => [state = "Halted" /\ proc' # "down" => state' \in {"Halted", "ShuttingDown"}]_vars
  OBVIOUS
<1> QED
  BY <1>1, <1>2, Volatile, Agreement, StepsInState, PTL DEF Spec, HaltedSticks

-----------------------------------------------------------------------------
(* A finalized session is flat                                              *)

\* The step only reaches the check of the positions from the check of the
\* orders, which found none.
LEMMA OnlyVerifyReachesPositions ==
  ASSUME StepInState, Step, pc' = "positions"
  PROVE  orders' = {}
<1>1. ~StepPreparing
  BY DEF StepPreparing, PrepareReconcile, PrepareFails, PrepareBuild, PrepareActivate, Idle
<1>2. ~StepTrading
  BY DEF StepTrading, TradeDataHalt, TradeClose, TickBegin, BarOnly, TickEnd, Bar,
         BarIngest, BarExit, BarEnterWorking, BarEnterFilled, BarSeen, BarFrame,
         InTrade, Idle, At, control
<1>3. ~(StepStarting \/ StepWaiting \/ StepLearning \/ StepRecovering)
  BY DEF StepStarting, StepWaiting, StepLearning, StepRecovering, InRecovery,
         RecoverNoBroker, RecoverReconcile, Idle
<1>4. CASE FinalizeVerify /\ NoOrdersLeft /\ UNCHANGED broker
  BY <1>4 DEF NoOrdersLeft, broker
<1>5. StepFinalizing => FinalizeVerify /\ NoOrdersLeft /\ UNCHANGED broker
  BY FlattenShape
     DEF StepFinalizing, FinalizeCancel, FinalizeSettle, FinalizeVerify,
         FinalizePositions, VerifyFails, Idle
<1>6. ~StepError
  BY DEF StepError, StepInState
<1> QED
  BY <1>1, <1>2, <1>3, <1>4, <1>5, <1>6 DEF Step

\* When finalization looks at the positions no order works any more
\* (execute_post_market): nothing can fill behind its back.
THEOREM VerifiedOrders == Spec => []NoOrdersAtPositions
<1>1. Init => NoOrdersAtPositions
  BY DEF Init, NoOrdersAtPositions
<1>2. StepInState /\ NoOrdersAtPositions /\ [Next]_vars => NoOrdersAtPositions'
  <2> SUFFICES ASSUME StepInState, NoOrdersAtPositions, [Next]_vars,
                      proc' = "run", pc' = "positions"
               PROVE  orders' = {}
    BY DEF NoOrdersAtPositions
  <2>1. CASE UNCHANGED vars
    BY <2>1 DEF vars, control, broker, NoOrdersAtPositions
  <2>2. ~Vanish /\ ~Boot /\ ~Interrupt /\ ~Heartbeat /\ ~Stall /\ ~Shutdown
    BY ShutdownCases DEF Vanish, Boot, Interrupt, Heartbeat, Stall, Idle,
       ShutdownReconcile, control
  <2>3. ~Initialize
    BY <2>2, InitializeCases DEF StepInState, Initializing
  <2>4. CASE Step
    BY <2>4, OnlyVerifyReachesPositions
  <2>5. CASE World
    <3>1. orders = {}
      BY <2>5, WorldFrame DEF control, NoOrdersAtPositions
    <3> QED
      BY <2>5, <3>1 DEF World, Fill, ClockTick, Break, Mend, broker
  <2> QED
    BY <2>1, <2>2, <2>3, <2>4, <2>5 DEF Next, Crash
<1> QED
  BY <1>1, <1>2, StepsInState, PTL DEF Spec

\* Nothing held and no working order: a reconciliation finds it so and leaves
\* it so.
LEMMA FlatReconcile ==
  ASSUME NEW out \in Verdicts, Reconcile(out), held = {}, orders = {}
  PROVE  held' = {} /\ orders' = {}
<1>1. CASE UNCHANGED <<book, broker>>
  BY <1>1 DEF broker
<1>2. CASE ~UNCHANGED <<book, broker>>
  <2>1. PICK late \in Bursts :
        \E found \in SUBSET (tracked \cap HitAfter(late)) :
        \E fresh \in SUBSET (((tracked \ found) \ guarded) \cap HeldAfter(late)) :
          held' = HeldAfter(late) /\ orders' = (orders \ late) \cup (fresh \X {"stop"})
    BY <1>2 DEF Reconcile
  <2>2. late = {}
    BY DEF Bursts
  <2>3. HeldAfter(late) = {}
    BY <2>2 DEF HeldAfter
  <2> QED
    BY <2>1, <2>3
<1> QED
  BY <1>1, <1>2

\* FinalizingSession is left for Learning by its last part alone.
LEMMA OnlyPositionsLearns ==
  ASSUME TypeOK, StepInState, Step, state = "FinalizingSession", state' = "Learning"
  PROVE  /\ pc = "positions" /\ held = {}
         /\ \E out \in Verdicts : Reconcile(out)
<1> USE CheckpointTypes, StateNames, TransitionShape
<1>1. ~StepPreparing /\ ~StepTrading
  BY DEF StepPreparing, PrepareReconcile, PrepareFails, PrepareBuild, PrepareActivate,
         StepTrading, TradeDataHalt, TradeClose, TickBegin, BarOnly, TickEnd, Bar,
         BarIngest, BarExit, BarEnterWorking, BarEnterFilled, BarSeen, InTrade, Idle,
         At, StepInState
<1>2. ~(StepStarting \/ StepWaiting \/ StepLearning \/ StepRecovering)
  BY DEF StepStarting, StepWaiting, StepLearning, StepRecovering, InRecovery,
         RecoverNoBroker, RecoverReconcile, Idle
<1>3. ~StepError
  BY DEF StepError, Attempt, Enter, Refused
<1>4. ASSUME NEW act \in BOOLEAN, cur' = cur, FailStep(cp, act) PROVE FALSE
  BY <1>4, FailShape DEF TypeOK
<1>5. ~FinalizeCancel /\ ~FinalizeFlatten /\ ~FinalizeVerify
  <2>1. ~FinalizeFlatten
    BY <1>4, FlattenShape DEF TypeOK
  <2> QED
    BY <1>4, <2>1 DEF FinalizeCancel, FinalizeVerify, VerifyFails, ckpt, TypeOK
<1>6. ASSUME NEW out \in Verdicts PROVE ~FinalizeSettle(out)
  BY <1>4 DEF FinalizeSettle
<1>7. PICK out \in Verdicts : FinalizePositions(out)
  BY <1>1, <1>2, <1>3, <1>5, <1>6 DEF Step, StepFinalizing
<1>8. ~VerifyFails
  BY <1>4, <1>7 DEF FinalizePositions, VerifyFails, TypeOK
<1> QED
  BY <1>7, <1>8 DEF FinalizePositions, PostMarket, At

\* Learning is only entered from finalization with a flat account: no
\* position, and no order that could still open or close one.
THEOREM LearningIsFlat == Spec => FinalizedFlat
<1> DEFINE Flat == state = "FinalizingSession" /\ state' = "Learning"
                     => held' = {} /\ orders' = {}
<1>1. TypeOK /\ NothingInMemory /\ StepInState /\ NoOrdersAtPositions /\ [Next]_vars => Flat
  <2> SUFFICES ASSUME TypeOK, NothingInMemory, StepInState, NoOrdersAtPositions,
                      [Next]_vars, state = "FinalizingSession", state' = "Learning"
               PROVE  held' = {} /\ orders' = {}
    OBVIOUS
  <2>1. ~UNCHANGED vars /\ ~World
    BY WorldFrame DEF vars, ckpt
  <2>2. ~Vanish /\ ~Boot /\ ~Interrupt /\ ~Heartbeat /\ ~Stall /\ ~Shutdown
    BY ShutdownCases DEF Vanish, Boot, Interrupt, Heartbeat, Stall, Attempt, Enter,
       Refused, ShutdownReconcile, ckpt
  <2>3. ~Initialize
    BY <2>2, InitializeCases DEF StepInState
  <2>4. Step
    BY <2>1, <2>2, <2>3 DEF Next, Crash
  <2>5. orders = {} /\ held = {} /\ \E out \in Verdicts : Reconcile(out)
    BY <2>4, StepRuns, OnlyPositionsLearns DEF NoOrdersAtPositions
  <2> QED
    BY <2>5, FlatReconcile
<1> QED
  BY <1>1, TypeCorrect, Volatile, StepsInState, VerifiedOrders, PTL
     DEF Spec, FinalizedFlat

-----------------------------------------------------------------------------
(* Plans, reconciliations and the kill switch                               *)

\* After a reconciliation the kill switch is engaged if it, or an earlier one,
\* found a mismatch.
LEMMA BrakedAfter ==
  ASSUME TypeOK, NEW out \in Verdicts, Reconcile(out), alarmed => brake # "off"
  PROVE  /\ synced' \in Verdicts /\ synced' # "none"
         /\ alarmed' => Braked(out) # "off"
         /\ out # "mismatch" /\ brake # "off" => Braked(out) # "off"
         /\ alarmed' /\ out # "mismatch" => brake # "off"
BY ReconcileShape DEF Braked, Verdicts, TypeOK

\* The preparation builds and activates plans only after a match.
LEMMA PreparingGated ==
  ASSUME TypeOK, StepInState, PlansGated, StepPreparing
  PROVE  PlansGated'
<1>0. /\ state = "PreparingSession" /\ proc = "run"
      /\ cur \in Sessions /\ alarmed \in BOOLEAN
  BY DEF StepPreparing, PrepareReconcile, PrepareFails, PrepareBuild, PrepareActivate,
         Idle, At, StepInState, TypeOK
<1>1. ASSUME NEW out \in Verdicts, PrepareReconcile(out) PROVE PlansGated'
  <2>1. synced' = out /\ (alarmed' => brake' # "off")
    BY <1>1, BrakedAfter, ReconcileShape DEF PrepareReconcile, PlansGated
  <2>2. cur' # 0
    BY <1>1, MaxDayAssumption DEF PrepareReconcile, TypeOK
  <2>3. ((pc' = "build" /\ out = "match") \/ pc' = "top") /\ state' # "Trading"
    <3>1. CASE Clean(out)
      BY <1>0, <1>1, <3>1 DEF PrepareReconcile, Clean
    <3>2. CASE ~Clean(out)
      <4> DEFINE c == [cp EXCEPT !.session = day]
      <4>1. c \in Checkpoint
        BY CheckpointTypes
      <4>2. cur' \in Sessions /\ (active /\ out # "mismatch") \in BOOLEAN
        BY <1>1, CheckpointTypes DEF PrepareReconcile, TypeOK
      <4>3. FailStep(c, active /\ out # "mismatch") /\ pc' = "top"
        BY <1>1, <3>2 DEF PrepareReconcile, Idle
      <4> HIDE DEF c
      <4> QED
        BY <1>0, <4>1, <4>2, <4>3, FailShape
    <3> QED
      BY <3>1, <3>2
  <2> QED
    BY <1>1, <2>1, <2>2, <2>3 DEF PrepareReconcile, PlansGated, Verdicts
<1>2. CASE PrepareFails
  <2>1. pc = "build" /\ pc' = "top" /\ plans' \in {0, cur} /\ synced = "match"
    BY <1>0, <1>2 DEF PrepareFails, At, PlansGated
  <2>2. state' # "Trading"
    BY <1>0, <1>2, CheckpointTypes, FailShape DEF PrepareFails, TypeOK
  <2>3. alarmed' = alarmed /\ synced' = synced /\ brake' = brake
    BY <1>2 DEF PrepareFails, audit
  <2> QED
    BY <2>1, <2>2, <2>3 DEF PlansGated
<1>3. CASE PrepareBuild
  <2>1. pc = "build" /\ pc' = "activate" /\ plans' # 0 /\ synced = "match"
    BY <1>0, <1>3 DEF PrepareBuild, At, PlansGated
  <2>2. state' = state /\ alarmed' = alarmed /\ synced' = synced /\ brake' = brake
    BY <1>3 DEF PrepareBuild, audit, ckpt
  <2> QED
    BY <2>1, <2>2 DEF PlansGated
<1>4. ASSUME NEW out \in Verdicts, PrepareActivate(out) PROVE PlansGated'
  <2>1. synced' # "none" /\ (alarmed' => brake' # "off")
    BY <1>4, BrakedAfter DEF PrepareActivate, PlansGated
  <2>2. plans # 0 /\ plans' = plans /\ pc' = "top"
    BY <1>0, <1>4 DEF PrepareActivate, At, PlansGated
  <2> QED
    BY <2>1, <2>2 DEF PlansGated
<1> QED
  BY <1>1, <1>2, <1>3, <1>4 DEF StepPreparing

\* Trading neither builds nor drops plans.
LEMMA TradingGated ==
  ASSUME TypeOK, PlansGated, StepTrading
  PROVE  PlansGated'
<1>1. UNCHANGED <<plans, synced, alarmed>> /\ pc' \notin {"build", "activate"}
  BY DEF StepTrading, TradeDataHalt, TradeClose, TickBegin, BarOnly, TickEnd, Bar,
         BarIngest, BarExit, BarEnterWorking, BarEnterFilled, BarSeen, BarFrame,
         InTrade, Idle, At, control, audit, runtime
<1>2. brake' = brake \/ brake' = "halted"
  BY DEF StepTrading, TradeDataHalt, TradeClose, TickBegin, BarOnly, TickEnd, Bar,
         BarIngest, BarExit, BarEnterWorking, BarEnterFilled, BarFrame, runtime
<1>3. state' = "Trading" => plans # 0
  <2>1. CASE TradeDataHalt \/ TradeClose \/ TickBegin
    BY <2>1 DEF TradeDataHalt, TradeClose, TickBegin, InTrade
  <2>2. CASE UNCHANGED ckpt
    BY <2>2 DEF ckpt, PlansGated
  <2> QED
    BY <2>1, <2>2 DEF StepTrading, BarOnly, TickEnd, Bar, BarIngest, BarExit,
                      BarEnterWorking, BarEnterFilled, BarFrame
<1> QED
  BY <1>1, <1>2, <1>3 DEF PlansGated, TypeOK

\* The finalization keeps the plans behind their gate.
LEMMA FinalizingGated ==
  ASSUME TypeOK, StepInState, PlansGated, StepFinalizing
  PROVE  PlansGated'
<1>1. pc' \notin {"build", "activate"} /\ state = "FinalizingSession"
  <2>1. CASE FinalizeFlatten
    BY <2>1, FlattenShape DEF At, StepInState
  <2>2. CASE FinalizeCancel \/ FinalizeVerify
    BY <2>2 DEF FinalizeCancel, FinalizeVerify, VerifyFails, Idle, At, StepInState
  <2>3. ASSUME NEW out \in Verdicts, FinalizeSettle(out) \/ FinalizePositions(out)
        PROVE  pc' \notin {"build", "activate"} /\ state = "FinalizingSession"
    BY <2>3 DEF FinalizeSettle, FinalizePositions, VerifyFails, At, StepInState
  <2> QED
    BY <2>1, <2>2, <2>3 DEF StepFinalizing
<1>2. state' # "Trading"
  <2>1. ASSUME NEW act \in BOOLEAN, cur' = cur, FailStep(cp, act) PROVE state' # "Trading"
    BY <1>1, <2>1, CheckpointTypes, FailShape DEF TypeOK
  <2>2. CASE FinalizeCancel \/ FinalizeFlatten \/ FinalizeVerify
    <3>1. CASE FinalizeFlatten
      BY <1>1, <2>1, <3>1, FlattenShape
    <3>2. CASE FinalizeCancel \/ FinalizeVerify
      BY <1>1, <2>1, <3>2 DEF FinalizeCancel, FinalizeVerify, VerifyFails, ckpt, TypeOK
    <3> QED
      BY <2>2, <3>1, <3>2
  <2>3. ASSUME NEW out \in Verdicts, FinalizeSettle(out) PROVE state' # "Trading"
    BY <1>1, <2>1, <2>3 DEF FinalizeSettle
  <2>4. ASSUME NEW out \in Verdicts, FinalizePositions(out) PROVE state' # "Trading"
    BY <1>1, <2>1, <2>4
       DEF FinalizePositions, VerifyFails, TransitionTo, Enter, Refused, TypeOK
  <2> QED
    BY <2>2, <2>3, <2>4 DEF StepFinalizing
<1>3. /\ plans' # 0 => plans' = plans
      /\ synced' = synced \/ synced' # "none"
      /\ alarmed' => brake' # "off"
  <2>1. CASE FinalizeCancel \/ FinalizeFlatten \/ FinalizeVerify
    <3>1. plans' = plans /\ UNCHANGED audit /\ brake' \in {brake, "killed"}
      BY <2>1, FlattenShape DEF FinalizeCancel, FinalizeVerify, VerifyFails
    <3>2. synced' = synced /\ alarmed' = alarmed /\ alarmed \in BOOLEAN
      BY <3>1 DEF audit, TypeOK
    <3> QED
      BY <3>1, <3>2 DEF PlansGated
  <2>2. ASSUME NEW out \in Verdicts, FinalizeSettle(out)
        PROVE  plans' = plans /\ synced' # "none" /\ (alarmed' => brake' # "off")
    BY <2>2, BrakedAfter DEF FinalizeSettle, PlansGated
  <2>3. ASSUME NEW out \in Verdicts, FinalizePositions(out)
        PROVE  /\ plans' # 0 => plans' = plans
               /\ synced' = synced \/ synced' # "none"
               /\ alarmed' => brake' # "off"
    BY <2>3, BrakedAfter DEF FinalizePositions, PostMarket, VerifyFails, PlansGated,
                             audit, TypeOK
  <2> QED
    BY <2>1, <2>2, <2>3 DEF StepFinalizing
<1> QED
  BY <1>1, <1>2, <1>3 DEF PlansGated

\* The short steps and a recovery keep the plans behind their gate.
LEMMA OtherStepGated ==
  ASSUME TypeOK, StepInState, PlansGated,
         StepStarting \/ StepWaiting \/ StepLearning \/ StepRecovering \/ StepError
  PROVE  PlansGated'
<1>1. pc = "top" /\ pc' = "top"
  BY DEF StepStarting, StepWaiting, StepLearning, StepError, StepRecovering, InRecovery,
         RecoverNoBroker, RecoverReconcile, Idle, StepInState
<1>2. /\ plans' \in {plans, 0}
      /\ synced' = synced \/ synced' # "none"
      /\ alarmed' => brake' # "off"
  <2>1. CASE StepStarting \/ StepWaiting \/ StepLearning \/ StepError \/ RecoverNoBroker
    <3>1. plans' \in {plans, 0} /\ UNCHANGED audit /\ brake' = brake
      BY <2>1 DEF StepStarting, StepWaiting, StepLearning, StepError, RecoverNoBroker
    <3>2. synced' = synced /\ alarmed' = alarmed /\ alarmed \in BOOLEAN
      BY <3>1 DEF audit, TypeOK
    <3> QED
      BY <3>1, <3>2 DEF PlansGated
  <2>2. ASSUME NEW out \in Verdicts, RecoverReconcile(out)
        PROVE  plans' = plans /\ synced' # "none" /\ (alarmed' => brake' # "off")
    BY <2>2, BrakedAfter DEF RecoverReconcile, PlansGated
  <2> QED
    BY <2>1, <2>2 DEF StepRecovering
<1>3. state' = "Trading" => plans # 0 /\ plans' = plans
  <2>1. CASE StepStarting
    <3>1. state = "Starting" /\ plans' = plans
      BY <2>1 DEF StepStarting, Idle
    <3>2. state' = state \/ state' = StartTarget
      BY <2>1 DEF StepStarting, TransitionTo, Enter, Refused
    <3> QED
      BY <3>1, <3>2 DEF StartTarget
  <2>2. CASE StepWaiting \/ StepLearning
    BY <2>2 DEF StepWaiting, StepLearning, Idle, TransitionTo, Enter, Refused
  <2>3. CASE StepError
    BY <2>3 DEF StepError, Attempt, Enter, Refused, PlansGated
  <2>4. CASE StepRecovering
    BY <2>4 DEF StepRecovering, InRecovery, RecoverNoBroker, RecoverReconcile,
                StillRecovering, Idle, TransitionTo, Attempt, Enter, Refused
  <2> QED
    BY <2>1, <2>2, <2>3, <2>4
<1> QED
  BY <1>1, <1>2, <1>3 DEF PlansGated

\* A start enters Trading only with plans it restored after a match.
LEMMA InitializeGated ==
  ASSUME TypeOK, StepInState, PlansGated, Initialize, ~Vanish
  PROVE  PlansGated'
<1>1. pc' \notin {"build", "activate"} /\ state' # "Trading"
  <2>1. ASSUME NEW next, NEW c, NEW act, Attempt(next, c, act) PROVE state' \in {state, next}
    BY <2>1 DEF Attempt, Enter, Refused
  <2> QED
    BY <2>1, InitializeCases DEF StepInState, Initializing
<1>2. /\ plans' = plans \/ synced' # "none"
      /\ synced' = synced \/ synced' # "none"
      /\ alarmed' => brake' # "off"
  <2>1. CASE InitHalted \/ InitDegraded
    <3>1. plans' = plans /\ UNCHANGED audit /\ brake' = brake
      BY <2>1 DEF InitHalted, InitDegraded
    <3>2. synced' = synced /\ alarmed' = alarmed /\ alarmed \in BOOLEAN
      BY <3>1 DEF audit, TypeOK
    <3> QED
      BY <3>1, <3>2 DEF PlansGated
  <2>2. CASE InitDone
    BY <2>2, BrakedAfter DEF InitDone, Verdicts, PlansGated
  <2>3. ASSUME NEW out \in Verdicts, InitRecovering(out)
        PROVE  synced' # "none" /\ (alarmed' => brake' # "off")
    BY <2>3, BrakedAfter DEF InitRecovering, PlansGated
  <2> QED
    BY <2>1, <2>2, <2>3 DEF Initialize, InitUnreadable
<1> QED
  BY <1>1, <1>2 DEF PlansGated

\* Plans are held by processes that have reconciled, and a mismatch leaves
\* the kill switch engaged for as long as the process lives.
THEOREM Gated == Spec => []PlansGated
<1>1. Init => PlansGated
  BY DEF Init, PlansGated
<1>2. TypeOK /\ NothingInMemory /\ StepInState /\ PlansGated /\ [Next]_vars => PlansGated'
  <2> SUFFICES ASSUME TypeOK, NothingInMemory, StepInState, PlansGated, [Next]_vars
               PROVE  PlansGated'
    OBVIOUS
  <2>0. alarmed \in BOOLEAN
    BY DEF TypeOK
  <2>1. CASE UNCHANGED <<control, ckpt, runtime, audit>>
    BY <2>0, <2>1 DEF control, ckpt, runtime, audit, PlansGated
  <2>2. CASE Vanish
    BY <2>2 DEF Vanish, PlansGated
  <2>3. CASE Boot
    BY <2>0, <2>3 DEF Boot, ckpt, audit, NothingInMemory, PlansGated
  <2>4. CASE Initialize
    BY <2>2, <2>4, InitializeGated
  <2>5. CASE Heartbeat \/ Stall \/ Interrupt
    <3>1. /\ plans' = plans /\ brake' = brake /\ cur' = cur /\ UNCHANGED audit
          /\ pc' \notin {"build", "activate"}
      BY <2>5 DEF Heartbeat, Stall, Interrupt, Idle, control, runtime
    <3>2. state' = "Trading" => state = "Trading"
      BY <2>5 DEF Heartbeat, Stall, Interrupt, Attempt, Enter, Refused
    <3>3. synced' = synced /\ alarmed' = alarmed
      BY <3>1 DEF audit
    <3> QED
      BY <2>0, <3>1, <3>2, <3>3 DEF PlansGated
  <2>6. CASE Step
    BY <2>6, PreparingGated, TradingGated, FinalizingGated, OtherStepGated DEF Step
  <2>7. ASSUME NEW out \in Verdicts, ShutdownReconcile(out) PROVE PlansGated'
    <3>1. synced' # "none" /\ (alarmed' => brake' # "off")
      BY <2>7, BrakedAfter DEF ShutdownReconcile, PlansGated
    <3> QED
      BY <2>7, <3>1 DEF ShutdownReconcile, ckpt, PlansGated
  <2>8. CASE World
    BY <2>1, <2>8, WorldFrame
  <2> QED
    BY <2>1, <2>2, <2>3, <2>4, <2>5, <2>6, <2>7, <2>8, ShutdownCases DEF Next, Crash, vars
<1> QED
  BY <1>1, <1>2, TypeCorrect, Volatile, StepsInState, PTL DEF Spec

\* The supervisor never trades without bots, not even in the session of a
\* process that was restarted into an open market.
THEOREM TradingNeedsPlans == Spec => []TradingHasPlans
<1>1. PlansGated => TradingHasPlans
  BY DEF PlansGated, TradingHasPlans
<1> QED
  BY <1>1, Gated, PTL

\* Plans are installed by the startup and by the two parts of the preparation
\* that follow its reconciliation, all of which need a match.
THEOREM PlansNeedMatch == Spec => PlansFollowMatch
<1> DEFINE Follows == plans' # plans /\ plans' # 0 => synced' = "match"
<1>1. StepInState /\ PlansGated /\ [Next]_vars => Follows
  <2> SUFFICES ASSUME StepInState, PlansGated, [Next]_vars, plans' # plans, plans' # 0
               PROVE  synced' = "match"
    OBVIOUS
  <2>1. ~UNCHANGED vars /\ ~World /\ ~Vanish
    BY WorldFrame DEF vars, runtime, Vanish
  <2>2. ~Boot /\ ~Heartbeat /\ ~Stall /\ ~Interrupt /\ ~Shutdown
    BY <2>1, ShutdownCases DEF Boot, Heartbeat, Stall, Interrupt, ShutdownReconcile, runtime
  <2>3. CASE Initialize
    BY <2>1, <2>3 DEF Initialize, InitUnreadable, InitHalted, InitDegraded, InitDone,
                      InitRecovering, Reconcile, Remember
  <2>4. CASE PrepareFails \/ PrepareBuild
    <3>1. (proc = "run" /\ pc = "build") \/ plans' = 0
      BY <2>4 DEF PrepareFails, PrepareBuild, At
    <3>2. synced' = synced
      BY <2>4 DEF PrepareFails, PrepareBuild, audit
    <3> QED
      BY <3>1, <3>2 DEF PlansGated
  <2>5. Step => PrepareFails \/ PrepareBuild
    BY DEF Step, StepStarting, StepWaiting, StepPreparing, PrepareReconcile,
       PrepareActivate, StepTrading, TradeDataHalt, TradeClose, TickBegin, BarOnly,
       TickEnd, Bar, BarIngest, BarExit, BarEnterWorking, BarEnterFilled, BarFrame,
       StepFinalizing, FinalizeCancel, FinalizeFlatten, FinalizeSettle, FinalizeVerify,
       FinalizePositions, VerifyFails, PostMarket, StepLearning, StepRecovering,
       RecoverNoBroker, RecoverReconcile, StepError, runtime
  <2> QED
    BY <2>1, <2>2, <2>3, <2>4, <2>5 DEF Next, Crash
<1> QED
  BY <1>1, StepsInState, Gated, PTL DEF Spec, PlansFollowMatch

\* A reconciliation places stops and lets working orders fill: no entry.
LEMMA ReconcileEntersNothing ==
  ASSUME TypeOK, NEW out \in Verdicts, Reconcile(out)
  PROVE  ~Entered
<1>1. CASE UNCHANGED <<book, broker>>
  BY <1>1 DEF broker, Entered
<1>2. CASE ~UNCHANGED <<book, broker>>
  <2>1. PICK late \in Bursts :
          /\ held' = HeldAfter(late)
          /\ \E fresh \in SUBSET Symbols : orders' = (orders \ late) \cup (fresh \X {"stop"})
    <3>1. PICK late \in Bursts :
          \E found \in SUBSET (tracked \cap HitAfter(late)) :
          \E fresh \in SUBSET (((tracked \ found) \ guarded) \cap HeldAfter(late)) :
            held' = HeldAfter(late) /\ orders' = (orders \ late) \cup (fresh \X {"stop"})
      BY <1>2 DEF Reconcile
    <3>2. HeldAfter(late) \subseteq Symbols
      BY DEF HeldAfter, TypeOK
    <3> QED
      BY <3>1, <3>2
  <2>2. late \subseteq orders
    BY DEF Bursts
  <2> QED
    BY <2>1, <2>2 DEF HeldAfter, Entered
<1> QED
  BY <1>1, <1>2

\* Buying is the business of handle_signal alone.
LEMMA OnlyBarsEnter ==
  ASSUME TypeOK, [Next]_vars, Entered
  PROVE  \E s \in Symbols : BarEnterWorking(s) \/ BarEnterFilled(s)
<1>1. ~UNCHANGED broker
  BY DEF broker, Entered
<1>2. ASSUME NEW out \in Verdicts PROVE ~Reconcile(out)
  BY ReconcileEntersNothing
<1>3. ~Initialize
  BY <1>1, <1>2 DEF Initialize, InitUnreadable, InitHalted, InitDegraded, InitDone,
                    InitRecovering, Verdicts
<1>4. ~Boot /\ ~Heartbeat /\ ~Stall /\ ~Interrupt /\ ~Crash
  BY <1>1 DEF Boot, Heartbeat, Stall, Interrupt, Crash
<1>5. ~Shutdown
  <2>1. ~Liquidate
    BY DEF Liquidate, Entered
  <2> QED
    BY <1>1, <1>2, <2>1 DEF Shutdown, ShutdownLiquidate, ShutdownReconcile
<1>6. ~World
  <2>1. ~Fill
    BY DEF Fill, HeldAfter, Entered
  <2>2. ~ClockTick
    BY DEF ClockTick, Entered
  <2> QED
    BY <1>1, <2>1, <2>2 DEF World, Break, Mend
<1>7. ~StepPreparing /\ ~StepRecovering
  BY <1>1, <1>2 DEF StepPreparing, PrepareReconcile, PrepareFails, PrepareBuild,
     PrepareActivate, StepRecovering, RecoverNoBroker, RecoverReconcile
<1>8. ~(StepStarting \/ StepWaiting \/ StepLearning \/ StepError)
  BY <1>1 DEF StepStarting, StepWaiting, StepLearning, StepError
<1>9. ~StepFinalizing
  <2>0. ~FinalizeCancel
    BY DEF FinalizeCancel, Entered
  <2>1. ~FinalizeFlatten
    <3> SUFFICES ASSUME FinalizeFlatten PROVE FALSE
      OBVIOUS
    <3>1. PICK sold \in SUBSET tracked, pending \in SUBSET tracked :
            held' = held \ sold /\ orders' = orders \cup (pending \X {"exit"})
      BY FlattenShape DEF BookFlattened
    <3> QED
      BY <3>1 DEF Entered
  <2>2. ~FinalizeVerify
    BY <1>1 DEF FinalizeVerify, VerifyFails
  <2>3. ASSUME NEW out \in Verdicts PROVE ~FinalizeSettle(out) /\ ~FinalizePositions(out)
    BY <1>1, <1>2 DEF FinalizeSettle, FinalizePositions, PostMarket, VerifyFails
  <2> QED
    BY <2>0, <2>1, <2>2, <2>3 DEF StepFinalizing
<1>10. ASSUME NEW s \in Symbols PROVE ~BarIngest(s) /\ ~BarExit(s)
  BY <1>1 DEF BarIngest, BarExit, Entered
<1>11. ~(TradeDataHalt \/ TradeClose \/ TickBegin \/ TickEnd \/ BarOnly)
  BY <1>1 DEF TradeDataHalt, TradeClose, TickBegin, TickEnd, BarOnly
<1> QED
  BY <1>1, <1>3, <1>4, <1>5, <1>6, <1>7, <1>8, <1>9, <1>10, <1>11
     DEF Next, Step, StepTrading, Bar, vars

\* A process that has seen a mismatch buys nothing more, and no process buys
\* before it has reconciled.
THEOREM MismatchBarsEntries == Spec => MismatchStopsEntries
<1> DEFINE Barred == Entered => ~alarmed /\ synced # "none"
<1>1. TypeOK /\ StepInState /\ PlansGated /\ [Next]_vars => Barred
  <2> SUFFICES ASSUME TypeOK, StepInState, PlansGated, [Next]_vars, Entered
               PROVE  ~alarmed /\ synced # "none"
    OBVIOUS
  <2>1. proc = "run" /\ pc = "bars" /\ brake = "off"
    BY OnlyBarsEnter DEF BarEnterWorking, BarEnterFilled, BarSeen, MayEnter, At
  <2> QED
    BY <2>1 DEF StepInState, PlansGated
<1> QED
  BY <1>1, TypeCorrect, StepsInState, Gated, PTL DEF Spec, MismatchStopsEntries

-----------------------------------------------------------------------------
(* The edges the steps of the loop take                                      *)

\* ShuttingDown is no state of the loop.
NoShutdownInLoop == proc = "run" => state # "ShuttingDown"

Edge == state' = state \/ state' \in Promise!Edges(state)

\* A step that may only fail, or stay, or move along an edge of its state.
LEMMA EdgeCases ==
  ASSUME state \notin {"Halted", "ShuttingDown"}, state \in States,
         state' \in {state, "Halted", "Recovering"} \/ state' \in Promise!Edges(state)
  PROVE  Edge
BY DEF Edge, States, Promise!Edges

\* The preparation goes to Trading or waits, or fails.
LEMMA PreparingEdge ==
  ASSUME TypeOK, StepInState, StepPreparing
  PROVE  Edge
<1> USE CheckpointTypes, StateNames, TransitionShape, FailShape, StampedCheckpoint
<1>0. state = "PreparingSession"
  BY DEF StepPreparing, PrepareReconcile, PrepareFails, PrepareBuild, PrepareActivate,
         Idle, At, StepInState
<1>1. ASSUME NEW out \in Verdicts, PrepareReconcile(out)
      PROVE  state' \in {state, "Halted", "Recovering"}
  <2> DEFINE c == [cp EXCEPT !.session = day]
  <2>1. c \in Checkpoint
    OBVIOUS
  <2>2. cur' \in Sessions /\ (active /\ out # "mismatch") \in BOOLEAN
    BY <1>1 DEF PrepareReconcile, TypeOK
  <2>3. FailStep(c, active /\ out # "mismatch") \/ state' = state
    BY <1>1 DEF PrepareReconcile
  <2> HIDE DEF c
  <2> QED
    BY <2>1, <2>2, <2>3
<1>2. PrepareFails => state' \in {state, "Halted", "Recovering"}
  BY DEF PrepareFails, TypeOK
<1>3. PrepareBuild => state' = state
  BY DEF PrepareBuild, ckpt
<1>4. ASSUME NEW out \in Verdicts, PrepareActivate(out)
      PROVE  state' \in {state, "Trading", "WaitingForSession"}
  <2>1. cur' \in Sessions /\ Activated(out) \in BOOLEAN
    BY <1>4 DEF PrepareActivate, Activated, TypeOK
  <2> QED
    BY <1>4, <2>1 DEF PrepareActivate, TypeOK
<1>5. state' \in {state, "Halted", "Recovering", "Trading", "WaitingForSession"}
  BY <1>1, <1>2, <1>3, <1>4 DEF StepPreparing
<1> QED
  BY <1>0, <1>5 DEF Edge, Promise!Edges

\* Trading halts or goes to the finalization.
LEMMA TradingEdge ==
  ASSUME TypeOK, StepInState, StepTrading
  PROVE  Edge
<1> USE CheckpointTypes, StateNames, TransitionShape
<1>1. TradeDataHalt => state = "Trading" /\ state' \in {state, "Halted"}
  BY DEF TradeDataHalt, InTrade, Idle, TypeOK
<1>2. TradeClose => state = "Trading" /\ state' \in {state, "FinalizingSession"}
  BY DEF TradeClose, InTrade, Idle, TypeOK
<1>3. TickBegin \/ TickEnd \/ BarOnly \/ (\E s \in Symbols : Bar(s)) => state' = state
  BY DEF TickBegin, TickEnd, BarOnly, Bar, BarIngest, BarExit, BarEnterWorking,
         BarEnterFilled, BarFrame, ckpt
<1> QED
  BY <1>1, <1>2, <1>3 DEF StepTrading, Edge, Promise!Edges

\* The finalization goes to Learning, or fails.
LEMMA FinalizingEdge ==
  ASSUME TypeOK, StepInState, StepFinalizing
  PROVE  Edge
<1>0. state = "FinalizingSession"
  BY FlattenShape DEF StepFinalizing, FinalizeCancel, FinalizeSettle, FinalizeVerify,
         FinalizePositions, Idle, At, StepInState
<1>1. ASSUME NEW act \in BOOLEAN, cur' = cur, FailStep(cp, act)
      PROVE  state' \in {state, "Halted", "Recovering"}
  BY <1>1, CheckpointTypes, FailShape DEF TypeOK
<1>2. FinalizeCancel \/ FinalizeFlatten \/ FinalizeVerify
        => state' \in {state, "Halted", "Recovering"}
  BY <1>1, FlattenShape DEF FinalizeCancel, FinalizeVerify, VerifyFails, ckpt, TypeOK
<1>3. ASSUME NEW out \in Verdicts, FinalizeSettle(out)
      PROVE  state' \in {state, "Halted", "Recovering"}
  BY <1>1, <1>3 DEF FinalizeSettle
<1>4. ASSUME NEW out \in Verdicts, FinalizePositions(out)
      PROVE  state' \in {state, "Halted", "Recovering", "Learning"}
  <2>1. CASE VerifyFails
    BY <1>1, <1>4, <2>1 DEF FinalizePositions, VerifyFails, TypeOK
  <2>2. CASE TransitionTo("Learning", cp, active /\ out # "mismatch")
    <3>1. cur' \in Sessions /\ (active /\ out # "mismatch") \in BOOLEAN
      BY <1>4 DEF FinalizePositions, TypeOK
    <3> QED
      BY <2>2, <3>1, CheckpointTypes, StateNames, TransitionShape DEF TypeOK
  <2> QED
    BY <1>4, <2>1, <2>2 DEF FinalizePositions
<1>5. state' \in {state, "Halted", "Recovering", "Learning"}
  BY <1>2, <1>3, <1>4 DEF StepFinalizing
<1> QED
  BY <1>0, <1>5 DEF Edge, Promise!Edges

\* The short steps and a recovery take an edge of their state.
LEMMA OtherStepEdge ==
  ASSUME TypeOK, StepInState, NoShutdownInLoop,
         StepStarting \/ StepWaiting \/ StepLearning \/ StepError \/ StepRecovering
  PROVE  Edge
<1> USE CheckpointTypes, StateNames, TransitionShape, StampedCheckpoint
<1>1. ASSUME NEW next \in States, NEW act \in BOOLEAN, cur' = cur,
             TransitionTo(next, cp, act) \/ Attempt(next, cp, act)
      PROVE  state' \in {state, next}
  BY <1>1 DEF TypeOK
<1>2. CASE StepStarting
  <2> DEFINE c == [cp EXCEPT !.session = day]
  <2>1. c \in Checkpoint
    OBVIOUS
  <2>2. StartTarget \in States /\ cur' \in Sessions
    BY <1>2 DEF StartTarget, StepStarting
  <2>3. TransitionTo(StartTarget, c, active)
    BY <1>2 DEF StepStarting
  <2> HIDE DEF c
  <2>4. state' \in {state, StartTarget} /\ state = "Starting"
    BY <1>2, <2>1, <2>2, <2>3 DEF StepStarting, Idle, TypeOK
  <2>5. StartTarget \in {"WaitingForSession", "PreparingSession", "Trading",
                         "FinalizingSession", "Learning"}
    BY DEF StartTarget
  <2> QED
    BY <2>4, <2>5 DEF Edge, Promise!Edges
<1>3. CASE StepWaiting
  <2>1. state = "WaitingForSession" /\ state' \in {state, "PreparingSession"}
    BY <1>1, <1>3 DEF StepWaiting
  <2> QED
    BY <2>1 DEF Edge, Promise!Edges
<1>4. CASE StepLearning
  <2>1. state = "Learning" /\ state' \in {state, "WaitingForSession"}
    BY <1>1, <1>4 DEF StepLearning, TypeOK
  <2> QED
    BY <2>1 DEF Edge, Promise!Edges
<1>5. CASE StepError
  <2>1. state' \in {state, "Halted", "Recovering"}
    BY <1>1, <1>5, EnterShape DEF StepError, TypeOK
  <2>2. state # "Halted"
    BY <1>5 DEF StepError, StepInState
  <2>3. state # "ShuttingDown"
    BY <1>5 DEF StepError, NoShutdownInLoop
  <2> QED
    BY <2>1, <2>2, <2>3, EdgeCases DEF TypeOK
<1>6. CASE StepRecovering
  <2>1. ASSUME NEW act \in BOOLEAN, StillRecovering(act) PROVE state' \in {state, "Halted"}
    BY <1>1, <2>1 DEF StillRecovering
  <2>2. RecoverNoBroker => state' \in {state, "Halted"}
    BY <2>1 DEF RecoverNoBroker, TypeOK
  <2>3. ASSUME NEW out \in Verdicts, RecoverReconcile(out)
        PROVE  state' \in {state, "Halted", "PreparingSession", "WaitingForSession"}
    <3>1. (active /\ out # "mismatch") \in BOOLEAN
      BY DEF TypeOK
    <3> QED
      BY <1>1, <2>1, <2>3, <3>1 DEF RecoverReconcile, TypeOK
  <2>4. state \in {"Recovering", "Degraded"}
    BY <1>6 DEF StepRecovering, RecoverNoBroker, RecoverReconcile, InRecovery
  <2> QED
    BY <1>6, <2>2, <2>3, <2>4 DEF StepRecovering, Edge, Promise!Edges
<1> QED
  BY <1>2, <1>3, <1>4, <1>5, <1>6

\* Every step of the loop takes an edge of its state.
LEMMA StepEdge ==
  ASSUME TypeOK, StepInState, NoShutdownInLoop, Step
  PROVE  Edge /\ state' # "ShuttingDown"
<1>1. Edge
  BY PreparingEdge, TradingEdge, FinalizingEdge, OtherStepEdge DEF Step
<1>2. state # "ShuttingDown"
  BY StepRuns DEF NoShutdownInLoop
<1> QED
  BY <1>1, <1>2 DEF Edge, Promise!Edges

\* The loop never runs in ShuttingDown: a signal ends it (step_shutdown).
THEOREM LoopStates == Spec => []NoShutdownInLoop
<1>1. Init => NoShutdownInLoop
  BY DEF Init, NoShutdownInLoop
<1>2. TypeOK /\ StepInState /\ NoShutdownInLoop /\ [Next]_vars => NoShutdownInLoop'
  <2> SUFFICES ASSUME TypeOK, StepInState, NoShutdownInLoop, [Next]_vars, proc' = "run"
               PROVE  state' # "ShuttingDown"
    BY DEF NoShutdownInLoop
  <2>1. CASE UNCHANGED <<control, ckpt>>
    BY <2>1 DEF control, ckpt, NoShutdownInLoop
  <2>2. ~Vanish /\ ~Boot /\ ~Interrupt /\ ~Shutdown
    BY ShutdownCases DEF Vanish, Boot, Interrupt, ShutdownReconcile
  <2>3. CASE Initialize
    <3>1. state' \in {state, "Halted", "Starting", "Degraded", "Recovering"} /\ Initializing
      <4>1. ASSUME NEW next, NEW c, NEW act, Attempt(next, c, act)
            PROVE  state' \in {state, next}
        BY <4>1 DEF Attempt, Enter, Refused
      <4> QED
        BY <2>2, <2>3, <4>1, InitializeCases
    <3> QED
      BY <3>1 DEF StepInState
  <2>4. CASE Heartbeat
    BY <2>4 DEF Heartbeat, Idle, NoShutdownInLoop
  <2>5. CASE Stall
    BY <2>5 DEF Stall, Enter
  <2>6. CASE Step
    BY <2>6, StepEdge
  <2>7. CASE World
    BY <2>1, <2>7, WorldFrame
  <2> QED
    BY <2>1, <2>2, <2>3, <2>4, <2>5, <2>6, <2>7 DEF Next, Crash, vars
<1> QED
  BY <1>1, <1>2, TypeCorrect, StepsInState, PTL DEF Spec

-----------------------------------------------------------------------------
(* The checkpoint of a supervisor that is still in Starting                  *)

\* It is the default one or the row: what a heartbeat in Starting writes.
StartingWrites ==
  state = "Starting" => cp.sup \in {"Starting", disk.sup}

\* A start works on the row, or on the default checkpoint.
LEMMA InitializeWrites ==
  ASSUME TypeOK, StartingWrites, Initialize
  PROVE  StartingWrites'
<1>1. CASE Vanish
  BY <1>1 DEF Vanish, Blank, StartingWrites
<1>2. ASSUME NEW next \in States, NEW c \in {cp, Loaded}, Initializing,
             NEW act \in BOOLEAN, cur' = cur, Attempt(next, c, act)
      PROVE  StartingWrites'
  <2>1. Moved(c) /\ state' \in {state, next}
    BY <1>2, CheckpointTypes, TransitionShape DEF TypeOK
  <2>2. state = "Starting" => c.sup \in {"Starting", disk.sup}
    BY <1>2 DEF StartingWrites, Initializing, Loaded
  <2> QED
    BY <2>1, <2>2 DEF Moved, StartingWrites
<1>3. Vanish \/ cur' = cur
  BY DEF Initialize, InitUnreadable, InitHalted, InitDegraded, InitDone, InitRecovering
<1>4. active \in BOOLEAN /\ (active /\ synced' # "mismatch") \in BOOLEAN
  BY DEF TypeOK
<1> QED
  BY <1>1, <1>2, <1>3, <1>4, InitializeCases, StateNames

\* As long as the supervisor is in Starting the checkpoint in memory names the
\* default state or the row's, whatever an initialisation failed at.
THEOREM StartingKnown == Spec => []StartingWrites
<1>1. Init => StartingWrites
  BY DEF Init, Blank, StartingWrites
<1>2. TypeOK /\ StartingWrites /\ [Next]_vars => StartingWrites'
  <2> SUFFICES ASSUME TypeOK, StartingWrites, [Next]_vars
               PROVE  StartingWrites'
    OBVIOUS
  <2>1. CASE UNCHANGED ckpt
    BY <2>1 DEF ckpt, StartingWrites
  <2>2. CASE Vanish
    BY <2>2 DEF Vanish, Blank, StartingWrites
  <2>3. CASE Boot
    BY <2>3 DEF Boot, ckpt, StartingWrites
  <2>4. CASE Initialize
    BY <2>4, InitializeWrites
  <2>5. CASE Heartbeat
    BY <2>5, CheckpointTypes DEF Heartbeat, Persist, Idle, control, Checkpoint,
                                 StartingWrites, TypeOK
  <2>6. CASE Stall
    BY <2>6 DEF Stall, Enter, StartingWrites
  <2>7. CASE Interrupt
    BY <2>7, CheckpointTypes, StateNames, TransitionShape
       DEF Interrupt, Moved, StartingWrites, TypeOK
  <2>8. CASE Step
    BY <2>8, StepRuns, StepAdvances DEF Advanced, Moved, StartingWrites
  <2>9. CASE Shutdown
    BY <2>1, <2>2, <2>9, ShutdownCases DEF ShutdownReconcile
  <2>10. CASE World
    BY <2>1, <2>10, WorldFrame
  <2> QED
    BY <2>1, <2>2, <2>3, <2>4, <2>5, <2>6, <2>7, <2>8, <2>9, <2>10 DEF Next, Crash, vars
<1> QED
  BY <1>1, <1>2, TypeCorrect, PTL DEF Spec

-----------------------------------------------------------------------------
(* The refinement                                                            *)

\* What the step of the refinement is proved from
Known == /\ TypeOK /\ NothingInMemory /\ CheckpointsAgree /\ StepInState
         /\ NoShutdownInLoop /\ StartingWrites

\* An initialisation is an assessment of the row, or ends the process.
LEMMA InitializeImplements ==
  ASSUME Known, Initialize
  PROVE  Promise!Assess \/ Promise!End \/ UNCHANGED Promise!lvars
<1>1. CASE InitUnreadable
  BY <1>1 DEF InitUnreadable, Vanish, Initializing, Life, Promise!End
<1>2. CASE Initializing /\ proc' \in {"init2", "run"}
  <2>1. Life = "init" /\ Life' \in {"init", "loop"}
    BY <1>2 DEF Initializing, Life
  <2>2. ASSUME NEW next \in States, NEW c \in Checkpoint, NEW act \in BOOLEAN, cur' = cur,
               Attempt(next, c, act)
        PROVE  Promise!Stay \/ Promise!Go(next)
    <3>1. Moved(c) /\ state' \in {state, next}
      BY <2>2, TransitionShape DEF Known, TypeOK
    <3> QED
      BY <3>1 DEF Moved, Promise!Stay, Promise!Go
  <2>3. cur' = cur /\ active \in BOOLEAN /\ (active /\ synced' # "mismatch") \in BOOLEAN
    BY <1>2 DEF Initialize, InitUnreadable, InitHalted, InitDegraded, InitDone,
                InitRecovering, Vanish, Known, TypeOK
  <2>4. ~Vanish
    BY <1>2 DEF Vanish
  <2>5. CASE disk.sup = "Halted" /\ Attempt("Halted", cp, active)
    BY <2>1, <2>2, <2>3, <2>5, CheckpointTypes, StateNames DEF Known, Promise!Assess
  <2>6. ASSUME disk.sup # "Halted", NEW next \in {"Starting", "Degraded", "Recovering"},
               NEW act \in {active, active /\ synced' # "mismatch"}, Attempt(next, Loaded, act)
        PROVE  Promise!Assess
    BY <2>1, <2>2, <2>3, <2>6, CheckpointTypes, StateNames DEF Known, Promise!Assess
  <2> QED
    BY <2>4, <2>5, <2>6, InitializeCases
<1> QED
  BY <1>1, <1>2 DEF Initialize, InitHalted, InitDegraded, InitDone, InitRecovering,
                    InitReady, Initialized, Initializing

\* A step of the loop is a move along an edge, or changes nothing here.
LEMMA StepImplements ==
  ASSUME Known, Step
  PROVE  Promise!Move \/ UNCHANGED Promise!lvars
<1>1. Life = "loop" /\ Life' = "loop"
  BY StepRuns DEF Life
<1>2. Edge /\ Advanced
  BY StepEdge, StepAdvances DEF Known
<1>3. CASE UNCHANGED <<state, disk>>
  BY <1>1, <1>3 DEF Promise!lvars
<1>4. CASE state' # state
  BY <1>1, <1>2, <1>4 DEF Edge, Advanced, Moved, Promise!Move, Promise!Go
<1> QED
  BY <1>2, <1>3, <1>4 DEF Advanced, Moved

\* A heartbeat writes the row of the state, or leaves for Recovering.
LEMMA HeartbeatImplements ==
  ASSUME Known, Heartbeat \/ Stall
  PROVE  Promise!Move \/ Promise!Rewrite \/ UNCHANGED Promise!lvars
<1>1. Life = "loop" /\ Life' = "loop" /\ proc = "run"
  BY DEF Heartbeat, Stall, Idle, control, Life
<1>2. ASSUME state' = state, Persist(cp) PROVE disk'.sup \in {disk.sup, state}
  <2>1. disk'.sup \in {disk.sup, cp.sup}
    BY <1>2, CheckpointTypes DEF Persist, Checkpoint, Known, TypeOK
  <2> QED
    BY <1>1, <2>1 DEF Known, CheckpointsAgree, StartingWrites
<1>3. CASE state' = state /\ Persist(cp)
  BY <1>1, <1>2, <1>3 DEF Promise!Rewrite, Promise!lvars
<1>4. CASE Enter("Recovering", cp, active) /\ state = "Trading"
  BY <1>1, <1>4 DEF Enter, Promise!Edges, Promise!Move, Promise!Go
<1> QED
  BY <1>3, <1>4 DEF Heartbeat, Stall

\* A signal, the shutdown that follows, a crash and a start.
LEMMA EndsImplement ==
  ASSUME Known, Boot \/ Interrupt \/ Shutdown \/ Crash
  PROVE  \/ Promise!Start \/ Promise!Signal \/ Promise!End
         \/ UNCHANGED Promise!lvars
<1>1. CASE Boot
  BY <1>1 DEF Boot, ckpt, Life, Promise!Start, Promise!Stay
<1>2. CASE Interrupt
  <2>1. Life \in {"init", "loop"} /\ Life' = "stop"
    BY <1>2 DEF Interrupt, Life
  <2>2. Moved(cp) /\ state' \in {state, "ShuttingDown"}
    BY <1>2, CheckpointTypes, StateNames, TransitionShape DEF Interrupt, Known, TypeOK
  <2> QED
    BY <2>1, <2>2 DEF Moved, Promise!Signal, Promise!Stay, Promise!Go
<1>3. CASE Crash
  BY <1>3 DEF Crash, Vanish, Life, Known, TypeOK, Promise!End
<1>4. CASE ShutdownLiquidate
  <2>1. Life = "stop" /\ Life' = "down" /\ state' = "Starting" /\ proc # "down"
    BY <1>4 DEF ShutdownLiquidate, Vanish, Life
  <2>2. disk'.sup \in {disk.sup, cp.sup}
    BY <1>4, CheckpointTypes DEF ShutdownLiquidate, Checkpoint, Known, TypeOK
  <2>3. disk'.sup \in {disk.sup, state}
    BY <2>1, <2>2 DEF Known, CheckpointsAgree, StartingWrites
  <2> QED
    BY <2>1, <2>3 DEF Promise!End
<1>5. ASSUME NEW out \in Verdicts, ShutdownReconcile(out) PROVE UNCHANGED Promise!lvars
  BY <1>5 DEF ShutdownReconcile, ckpt, Life, Promise!lvars
<1> QED
  BY <1>1, <1>2, <1>3, <1>4, <1>5 DEF Shutdown

\* The supervisor implements Lifecycle: with Life, its state and the row of its
\* checkpoint for the variables, every step of the program is a step of the
\* life cycle or changes nothing in it.
THEOREM Implements == Spec => FollowsLifecycle
<1>1. Init => Promise!Init
  BY DEF Init, Missing, Life, Promise!Init
<1>2. Known /\ [Next]_vars => [Promise!Next]_Promise!lvars
  <2> SUFFICES ASSUME Known, [Next]_vars
               PROVE  [Promise!Next]_Promise!lvars
    OBVIOUS
  <2>1. CASE UNCHANGED <<proc, state, disk>>
    BY <2>1 DEF Life, Promise!lvars
  <2>2. CASE Initialize
    BY <2>2, InitializeImplements DEF Promise!Next
  <2>3. CASE Heartbeat \/ Stall
    BY <2>3, HeartbeatImplements DEF Promise!Next
  <2>4. CASE Step
    BY <2>4, StepImplements DEF Promise!Next
  <2>5. CASE Boot \/ Interrupt \/ Shutdown \/ Crash
    BY <2>5, EndsImplement DEF Promise!Next
  <2>6. CASE World
    BY <2>1, <2>6, WorldFrame DEF control, ckpt
  <2> QED
    BY <2>1, <2>2, <2>3, <2>4, <2>5, <2>6 DEF Next, vars, control, ckpt
<1> QED
  BY <1>1, <1>2, TypeCorrect, Volatile, Agreement, StepsInState, LoopStates, StartingKnown,
     PTL DEF Spec, Known, FollowsLifecycle, Promise!Spec

\* What the life cycle promises by itself: a running process that has left
\* Starting finds its state in the row, so a crash loses no transition.
RowNamesState == Life # "down" /\ state # "Starting" => disk.sup = state

\* The life cycle alone keeps the row in step with the state.
THEOREM LifecycleIsDurable == FollowsLifecycle => []RowNamesState
<1> DEFINE Inv == /\ Life = "down" => state = "Starting"
                  /\ RowNamesState
<1>1. Promise!Init => Inv
  BY DEF Promise!Init, RowNamesState
<1>2. Inv /\ [Promise!Next]_Promise!lvars => Inv'
  BY DEF RowNamesState, Promise!Next, Promise!lvars, Promise!Start, Promise!Assess,
         Promise!Move, Promise!Rewrite, Promise!Signal, Promise!End, Promise!Go, Promise!Stay
<1>3. Inv => RowNamesState
  OBVIOUS
<1> QED
  BY <1>1, <1>2, <1>3, PTL DEF FollowsLifecycle, Promise!Spec
=============================================================================
