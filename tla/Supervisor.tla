----------------------------- MODULE Supervisor -----------------------------
(***************************************************************************)
(* The 24/7 supervisor of TradeHive (crates/bot/src/supervisor.rs) driving *)
(* one trading runtime: the states it moves through, the checkpoint it     *)
(* writes before every move, its retry budget, the two initialisations of  *)
(* a start, the heartbeat, the graceful shutdown, and what each state does *)
(* to the bot plans, to the open trades and to the orders at the broker.   *)
(*                                                                         *)
(* A position is a symbol that is or is not held: quantities, prices and   *)
(* profit are left to other modules.  Handlers that wait for the network   *)
(* several times are cut into several actions (pc), so that the clock,     *)
(* the broker, a crash or a signal can come in between.                    *)
(***************************************************************************)
EXTENDS Naturals, FiniteSets

CONSTANTS
  Symbols,      \* option contracts the bots trade
  MaxDay,       \* calendar days that are explored
  MaxRetries,   \* SupervisorConfig.max_retries
  MaxOutages,   \* bound: outages of the store and of the broker, together
  MaxStops      \* bound: crashes and interrupts, together

ASSUME SymbolsAssumption == IsFiniteSet(Symbols)
ASSUME MaxDayAssumption == MaxDay \in Nat \ {0}
ASSUME MaxRetriesAssumption == MaxRetries \in Nat \ {0}
ASSUME BoundsAssumption == MaxOutages \in Nat /\ MaxStops \in Nat

VARIABLES
  \* --- the process and the step it is in ---
  proc,     \* "down", first and second initialisation, loop, shutdown
  pc,       \* how far the current step (or shutdown) has come
  noted,    \* market phase read when the current step began ("none" at rest)
  err,      \* the step returned Err and run_supervised has not handled it yet
  \* --- supervisor ---
  state,    \* HiveSupervisor.state
  cp,       \* HiveSupervisor.checkpoint, in memory
  disk,     \* the SUPERVISOR_CHECKPOINT row
  retry,    \* retry_count, saturated at MaxRetries: it is only compared to it
  \* --- runtime ---
  cur,      \* current_session_id, as a day; 0 is None
  plans,    \* session of the bot_plans in memory; 0 when there are none
  saved,    \* sessions with plans in the bot_plans table
  active,   \* TradingRuntime.active
  brake,    \* "off", "killed" (kill switch), "halted" (and health = Halted)
  feed,     \* day of stats.last_market_event; 0 is None
  synced,   \* history: verdict of the last reconcile of this process
  alarmed,  \* history: some reconcile of this process found a mismatch
  \* --- the book of open trades ---
  tracked,  \* open_trades in memory
  stored,   \* open_trades rows
  guarded,  \* trades whose protective_order_id is recorded
  hit,      \* guarded trades whose protective order is Filled at the broker
  \* --- broker ---
  held,     \* symbols with a position
  orders,   \* working orders, <<symbol, kind>>
  \* --- world ---
  phase, day, faulty, outages, stops

control == <<proc, pc, noted, err>>
ckpt    == <<state, cp, disk, retry>>
runtime == <<cur, plans, saved, active, brake, feed>>
book    == <<tracked, stored, guarded, hit>>
broker  == <<held, orders>>
world   == <<phase, day, faulty, outages, stops>>
audit   == <<synced, alarmed>>
vars    == <<control, ckpt, runtime, book, audit, broker, world>>

States == {"Starting", "WaitingForSession", "PreparingSession", "Trading",
           "FinalizingSession", "Learning", "Recovering", "Degraded",
           "Halted", "ShuttingDown"}

\* Dawn and Night are the parts of WaitingForNextSession before and after the
\* session of the day: the session id of a state is the local date.
Phases == {"Dawn", "PreMarket", "MarketOpen", "MarketClosing", "PostMarket",
           "Learning", "Night"}

Services == {"store", "broker"}
Kinds == {"entry", "stop", "exit"}
Verdicts == {"match", "mismatch", "error"}
Sessions == 0..MaxDay

Checkpoint == [sup : States, session : Sessions]
Blank   == [sup |-> "Starting", session |-> 0]   \* SupervisorCheckpoint::default
Missing == [sup |-> "Missing", session |-> 0]    \* no row yet

TypeOK ==
  /\ proc \in {"down", "init1", "init2", "run", "stopping"}
  /\ pc \in {"top", "build", "activate", "bars", "flatten", "settle",
             "verify", "positions", "liquidate"}
  /\ noted \in Phases \cup {"none"}
  /\ err \in BOOLEAN
  /\ state \in States
  /\ cp \in Checkpoint
  /\ disk \in Checkpoint \cup {Missing}
  /\ retry \in 0..MaxRetries
  /\ cur \in Sessions
  /\ plans \in Sessions
  /\ saved \subseteq Sessions
  /\ active \in BOOLEAN
  /\ brake \in {"off", "killed", "halted"}
  /\ feed \in Sessions
  /\ synced \in Verdicts \cup {"none"}
  /\ alarmed \in BOOLEAN
  /\ tracked \subseteq Symbols
  /\ stored \subseteq Symbols
  /\ guarded \subseteq Symbols
  /\ hit \subseteq Symbols
  /\ held \subseteq Symbols
  /\ orders \subseteq Symbols \X Kinds
  /\ phase \in Phases
  /\ day \in 1..MaxDay
  /\ faulty \subseteq Services
  /\ outages \in 0..MaxOutages
  /\ stops \in 0..MaxStops

Init ==
  /\ proc = "down" /\ pc = "top" /\ noted = "none" /\ err = FALSE
  /\ state = "Starting" /\ cp = Blank /\ disk = Missing /\ retry = 0
  /\ cur = 0 /\ plans = 0 /\ saved = {} /\ active = FALSE
  /\ brake = "off" /\ feed = 0 /\ synced = "none" /\ alarmed = FALSE
  /\ tracked = {} /\ stored = {} /\ guarded = {} /\ hit = {}
  /\ held = {} /\ orders = {}
  /\ phase \in Phases /\ day = 1
  /\ faulty = {} /\ outages = 0 /\ stops = 0

-----------------------------------------------------------------------------
(* Transitions of the supervisor.  c is the checkpoint in memory as the     *)
(* handler left it, act the value of active that the handler left.          *)

StoreMayFail  == "store" \in faulty
BrokerMayFail == "broker" \in faulty

\* transition_to_verified, success: the candidate checkpoint is on disk
\* before the state is assigned.  Nothing is written when the state is kept.
Enter(next, c, act) ==
  LET sealed == [sup |-> next, session |-> IF cur' # 0 THEN cur' ELSE c.session]
  IN /\ active' = act
     /\ state' = next
     /\ IF state = next
          THEN cp' = c /\ disk' = disk
          ELSE cp' = sealed /\ disk' = sealed

\* Variant: the state is assigned although the save failed.
RefusedButMoved(next, c) ==
  /\ state # next
  /\ StoreMayFail
  /\ active' = FALSE
  /\ cp' = c
  /\ state' = next
  /\ UNCHANGED disk

\* transition_to_verified, the save fails: trading is disabled, the state and
\* the row stay.
Refused(next, c) ==
  /\ state # next
  /\ StoreMayFail
  /\ active' = FALSE
  /\ cp' = c
  /\ UNCHANGED <<state, disk>>

\* transition_to_verified(..)? : a refusal ends the step with an error.
TransitionTo(next, c, act) ==
  \/ Enter(next, c, act) /\ err' = FALSE
  \/ Refused(next, c) /\ err' = TRUE

\* let _ = transition_to_verified(..) : a refusal is ignored.
Attempt(next, c, act) ==
  /\ Enter(next, c, act) \/ Refused(next, c)
  /\ err' = FALSE

\* retry_count += 1
Bump == IF retry < MaxRetries THEN retry + 1 ELSE retry

\* check_retry_budget after the increment
Exhausted == Bump >= MaxRetries

\* Variant: a failed step is tried again at once, outside of the budget.
FailAndRetry(c, act) ==
  /\ retry' = Bump
  /\ active' = act /\ cp' = c /\ err' = FALSE
  /\ UNCHANGED <<state, disk>>

\* The failure path every step shares: count the failure, halt when the
\* budget is spent, otherwise go to Recovering.  A refused halt is ignored.
FailStep(c, act) ==
  /\ retry' = Bump
  /\ \/ Exhausted /\ Enter("Halted", c, act) /\ err' = FALSE
     \/ Exhausted /\ StoreMayFail /\ TransitionTo("Recovering", c, FALSE)
     \/ ~Exhausted /\ TransitionTo("Recovering", c, act)

-----------------------------------------------------------------------------
(* Orders, fills and the reconciliation of the book with the broker.        *)

TradingHours == {"MarketOpen", "MarketClosing"}

CanFill(o) ==
  /\ phase \in TradingHours
  /\ o[2] = "entry" \/ o[1] \in held

\* Sets of working orders that fill while a call is under way
Bursts ==
  {b \in SUBSET orders :
     /\ \A o \in b : CanFill(o)
     /\ \A o, p \in b : o[1] = p[1] => o = p}

\* Positions once the orders of b have filled
HeldAfter(b) ==
  (held \cup {s \in Symbols : <<s, "entry">> \in b})
    \ {s \in Symbols : <<s, "stop">> \in b \/ <<s, "exit">> \in b}

\* Protective orders known to the book as Filled once the orders of b have
HitAfter(b) == hit \cup {s \in guarded : <<s, "stop">> \in b}

\* The book: trades in memory, rows, recorded protective ids, filled ones.
\* An id lives as long as its trade, in memory or on disk.
Keep(mine, rows, ids, fills) ==
  /\ tracked' = mine
  /\ stored' = rows
  /\ guarded' = ids \cap (mine \cup rows)
  /\ hit' = fills \cap (mine \cup rows)

Remember(out) == synced' = out /\ alarmed' = (alarmed \/ out = "mismatch")

\* The compare at the end of reconcile, on the positions read at its start
Verdict(out, mine) ==
  \/ out = "error" /\ StoreMayFail
  \/ out = "match" /\ mine = held
  \/ out = "mismatch" /\ mine # held

\* Variant: a mismatch disables trading only.
NeverBraked(out) == brake

\* A mismatch engages the kill switch; trading is disabled by the callers.
Braked(out) == IF out = "mismatch" THEN "killed" ELSE brake

\* TradingRuntime::reconcile.  It reads the positions, ingests the trades
\* whose protective order is Filled (an unreadable one is skipped), records
\* the report, compares, and protects the trades with no protective order on
\* a match.  Orders may fill after the positions were read.  The caller sets
\* brake and active by the outcome.
Reconcile(out) ==
  /\ Remember(out)
  /\ \/ /\ out = "error" /\ BrokerMayFail
        /\ UNCHANGED <<book, broker>>
     \/ \E late \in Bursts :
        \E found \in SUBSET (tracked \cap HitAfter(late)) :
        \E left \in SUBSET found :
          LET mine == tracked \ found
              bare == (mine \ guarded) \cap HeldAfter(late)
          IN /\ found = tracked \cap HitAfter(late) \/ BrokerMayFail
             /\ left = {} \/ StoreMayFail
             /\ Verdict(out, mine)
             /\ \E fresh \in SUBSET (IF out = "match" THEN bare ELSE {}) :
                  /\ held' = HeldAfter(late)
                  /\ orders' = (orders \ late) \cup (fresh \X {"stop"})
                  /\ Keep(mine, stored \ (found \ left), guarded \cup fresh,
                          HitAfter(late))

-----------------------------------------------------------------------------
(* Start: the runtime is built, then initialize_and_recover runs twice, once *)
(* from main and once more at the head of run_supervised.                    *)

\* The process is gone: everything in memory is, too.
Vanish ==
  /\ proc' = "down" /\ pc' = "top" /\ noted' = "none" /\ err' = FALSE
  /\ state' = "Starting" /\ cp' = Blank /\ retry' = 0
  /\ cur' = 0 /\ plans' = 0 /\ active' = FALSE /\ brake' = "off" /\ feed' = 0
  /\ synced' = "none" /\ alarmed' = FALSE
  /\ tracked' = {}

\* TradingRuntime::new and HiveSupervisor::new: open trades come back from
\* the store, plans and the kill switch do not.
Boot ==
  /\ proc = "down"
  /\ proc' = "init1"
  /\ tracked' = stored
  /\ guarded' = guarded \cap stored
  /\ hit' = hit \cap stored
  /\ active' = (phase = "MarketOpen")
  /\ UNCHANGED <<pc, noted, err, ckpt, cur, plans, saved, brake, feed, stored,
                 audit, broker, world>>

Initializing == proc \in {"init1", "init2"}
Initialized  == proc' = IF proc = "init1" THEN "init2" ELSE "run"

\* The checkpoint that initialize_and_recover works on: the row, if any
Loaded == IF disk = Missing THEN cp ELSE disk

\* The row cannot be read: halt, if that can be saved, and end the process.
InitUnreadable ==
  /\ Initializing
  /\ StoreMayFail
  /\ disk' \in {disk, [sup |-> "Halted", session |-> cp.session]}
  /\ Vanish
  /\ UNCHANGED <<saved, stored, guarded, hit, broker, world>>

\* The row says Halted: take the state over, the checkpoint itself is not
\* loaded, and a refused save is ignored.
InitHalted ==
  /\ Initializing
  /\ disk.sup = "Halted"
  /\ Initialized
  /\ UNCHANGED cur
  /\ Attempt("Halted", cp, active)
  /\ UNCHANGED <<pc, noted, retry, plans, saved, brake, feed, book, audit,
                 broker, world>>

\* Variant: a halted row is recovered from like any other.
InitAlways == Initializing /\ Initialized

\* The row says anything but Halted: recover.
InitReady == Initializing /\ disk.sup # "Halted" /\ Initialized

\* The broker does not answer
InitDegraded ==
  /\ InitReady
  /\ BrokerMayFail
  /\ UNCHANGED cur
  /\ Attempt("Degraded", Loaded, active)
  /\ UNCHANGED <<pc, noted, retry, plans, saved, brake, feed, book, audit,
                 broker, world>>

\* The startup reconciliation fails, or the plans cannot be read
InitRecovering(out) ==
  /\ InitReady
  /\ Reconcile(out) /\ brake' = Braked(out)
  /\ out = "match" => StoreMayFail /\ Loaded.session # 0
  /\ UNCHANGED cur
  /\ Attempt("Recovering", Loaded, active /\ out # "mismatch")
  /\ UNCHANGED <<pc, noted, retry, plans, saved, feed, world>>

\* Plans of the session in the checkpoint are restored, whatever day it is.
Restored ==
  IF Loaded.session # 0 /\ Loaded.session \in saved THEN Loaded.session ELSE plans

InitDone ==
  /\ InitReady
  /\ Reconcile("match") /\ UNCHANGED brake
  /\ plans' = Restored
  /\ UNCHANGED cur
  /\ Attempt("Starting", Loaded, active)
  /\ UNCHANGED <<pc, noted, retry, saved, feed, world>>

Initialize ==
  \/ InitUnreadable \/ InitHalted \/ InitDegraded \/ InitDone
  \/ \E out \in Verdicts : InitRecovering(out)

-----------------------------------------------------------------------------
(* The loop of run_supervised: heartbeat, then the handler of the state.     *)

Idle == proc = "run" /\ pc = "top" /\ ~err
At(p) == proc = "run" /\ pc = p /\ ~err

\* persist_checkpoint: the checkpoint in memory as it is, not the state
Persist(c) ==
  LET stamped == [c EXCEPT !.session = IF cur # 0 THEN cur ELSE @]
  IN cp' = stamped /\ (disk' = stamped \/ (StoreMayFail /\ disk' = disk))

\* emit_heartbeat with recent progress
Heartbeat ==
  /\ Idle
  /\ Persist(cp)
  /\ UNCHANGED <<control, state, retry, runtime, book, audit, broker, world>>

\* emit_heartbeat finds no progress while Trading: one more retry, whatever
\* the budget says, and Recovering, if that can be saved; in any case the
\* checkpoint in memory is persisted at the end.
Stall ==
  /\ Idle
  /\ state = "Trading"
  /\ retry' = Bump
  /\ UNCHANGED cur
  /\ \/ Enter("Recovering", cp, active)
     \/ StoreMayFail /\ active' = FALSE /\ UNCHANGED state /\ Persist(cp)
  /\ UNCHANGED <<control, plans, saved, brake, feed, book, audit, broker, world>>

\* run_supervised: the step returned an error.
StepError ==
  /\ proc = "run" /\ err
  /\ UNCHANGED cur
  /\ retry' = Bump
  /\ \/ Exhausted /\ Enter("Halted", cp, active)
     \/ Exhausted /\ StoreMayFail /\ Attempt("Recovering", cp, FALSE)
     \/ ~Exhausted /\ Attempt("Recovering", cp, active)
  /\ err' = FALSE
  /\ UNCHANGED <<proc, pc, noted, plans, saved, brake, feed, book, audit,
                 broker, world>>

\* Variant: an open market is traded without looking at the plans.
StartTargetBlind ==
  CASE phase = "PreMarket" -> "PreparingSession"
    [] phase = "MarketOpen" -> "Trading"
    [] phase \in {"MarketClosing", "PostMarket"} -> "FinalizingSession"
    [] phase = "Learning" -> "Learning"
    [] OTHER -> "WaitingForSession"

\* Where Starting goes, by the phase of the market
StartTarget ==
  CASE phase = "PreMarket" -> "PreparingSession"
    [] phase = "MarketOpen" -> IF plans = 0 THEN "PreparingSession" ELSE "Trading"
    [] phase \in {"MarketClosing", "PostMarket"} -> "FinalizingSession"
    [] phase = "Learning" -> "Learning"
    [] OTHER -> "WaitingForSession"

StepStarting ==
  /\ Idle /\ state = "Starting"
  /\ cur' = day
  /\ TransitionTo(StartTarget, [cp EXCEPT !.session = day], active)
  /\ UNCHANGED <<proc, pc, noted, retry, plans, saved, brake, feed, book,
                 audit, broker, world>>

\* With the default configuration the preparation window is PreMarket.
StepWaiting ==
  /\ Idle /\ state = "WaitingForSession"
  /\ UNCHANGED cur
  /\ IF phase \in {"PreMarket", "MarketOpen"}
       THEN TransitionTo("PreparingSession", cp, FALSE)
       ELSE active' = FALSE /\ UNCHANGED <<state, cp, disk, err>>
  /\ UNCHANGED <<proc, pc, noted, retry, plans, saved, brake, feed, book,
                 audit, broker, world>>

\* Variant: an error of the reconciliation does not stop the preparation.
CleanEnough(out) == out # "mismatch"

\* The old plans may be dropped and new ones made.
Clean(out) == out = "match"

\* PreparingSession, first part: the session id, then the reconciliation.
PrepareReconcile(out) ==
  /\ Idle /\ state = "PreparingSession"
  /\ cur' = day
  /\ Reconcile(out) /\ brake' = Braked(out)
  /\ LET c == [cp EXCEPT !.session = day]
     IN IF Clean(out)
          THEN /\ pc' = "build" /\ noted' = phase
               /\ cp' = c
               /\ UNCHANGED <<err, state, disk, retry, active>>
          ELSE /\ FailStep(c, active /\ out # "mismatch")
               /\ UNCHANGED <<pc, noted>>
  /\ UNCHANGED <<proc, plans, saved, feed, world>>

\* Second part: the old plans are cleared; no universe, no chain, no bot or
\* a plan that cannot be saved fails the step.  Plans saved before the one
\* that failed stay.
PrepareFails ==
  /\ At("build")
  /\ UNCHANGED cur
  /\ \/ plans' = 0 /\ UNCHANGED saved
     \/ StoreMayFail /\ plans' = cur /\ saved' = saved \cup {cur}
  /\ FailStep(cp, active)
  /\ pc' = "top" /\ noted' = "none"
  /\ UNCHANGED <<proc, brake, feed, book, audit, broker, world>>

PrepareBuild ==
  /\ At("build")
  /\ plans' = cur
  /\ saved' = saved \cup {cur}
  /\ pc' = "activate"
  /\ UNCHANGED <<proc, noted, err, ckpt, cur, active, brake, feed, book,
                 audit, broker, world>>

\* Third part: activate_market_open reconciles again and enables trading
\* unless the kill switch is engaged.  Its error is only printed: the step
\* goes on, by the phase read at its beginning.
Activated(out) ==
  CASE out = "match"    -> active \/ brake = "off"
    [] out = "mismatch" -> FALSE
    [] OTHER            -> active

PrepareActivate(out) ==
  /\ At("activate")
  /\ Reconcile(out) /\ brake' = Braked(out)
  /\ retry' = 0
  /\ UNCHANGED cur
  /\ TransitionTo(IF noted = "MarketOpen" THEN "Trading" ELSE "WaitingForSession",
                  cp, Activated(out))
  /\ pc' = "top" /\ noted' = "none"
  /\ UNCHANGED <<proc, plans, saved, feed, world>>

-----------------------------------------------------------------------------
(* Trading: one tick looks at the data and the phase, then feeds the bars of *)
(* every symbol to on_market_bar_at, whose errors are only printed.          *)

\* The last market event is too old: always when it is of an earlier day,
\* possibly when it is of today; never before the first event.
MayBeStale == feed # 0
IsStale == feed # 0 /\ feed # day

InTrade == Idle /\ state = "Trading" /\ plans # 0

TradeDataHalt ==
  /\ InTrade
  /\ MayBeStale
  /\ brake' = "halted"
  /\ UNCHANGED cur
  /\ TransitionTo("Halted", cp, FALSE)
  /\ UNCHANGED <<proc, pc, noted, retry, plans, saved, feed, book, audit,
                 broker, world>>

TradeClose ==
  /\ InTrade /\ ~IsStale
  /\ phase # "MarketOpen"
  /\ UNCHANGED cur
  /\ TransitionTo("FinalizingSession", cp, active)
  /\ UNCHANGED <<proc, pc, noted, retry, plans, saved, brake, feed, book,
                 audit, broker, world>>

\* Trading is enabled whatever the kill switch says, then the broker's clock
\* is read.
TickBegin ==
  /\ InTrade /\ ~IsStale
  /\ phase = "MarketOpen"
  /\ active' = TRUE
  /\ \/ pc' = "bars" /\ err' = FALSE
     \/ BrokerMayFail /\ pc' = "top" /\ err' = TRUE
  /\ UNCHANGED <<proc, noted, ckpt, cur, plans, saved, brake, feed, book,
                 audit, broker, world>>

\* on_market_bar_at records the bar unless health is Halted.
BarSeen == At("bars") /\ brake # "halted" /\ feed' = day

\* What every bar leaves alone
BarFrame ==
  UNCHANGED <<control, ckpt, cur, plans, saved, active, brake, audit, world>>

BarOnly ==
  /\ BarSeen
  /\ BarFrame
  /\ UNCHANGED <<book, broker>>

\* Open trades are managed when the minute before the bar is in MarketOpen.
Managing == active /\ phase \in TradingHours

\* A trade leaves memory, and then its row; a failing delete leaves the row.
Dropped(s) ==
  \/ Keep(tracked \ {s}, stored \ {s}, guarded, hit)
  \/ StoreMayFail /\ Keep(tracked \ {s}, stored, guarded, hit)

\* manage_open_trade: the protective order is Filled, so the trade is closed.
BarIngest(s) ==
  /\ BarSeen /\ Managing
  /\ s \in tracked \cap hit
  /\ Dropped(s)
  /\ BarFrame
  /\ UNCHANGED broker

\* manage_open_trade: an exit condition holds.  The protective order is
\* cancelled first; a trade whose position is gone is dropped; otherwise a
\* sell is submitted, which the kill switch refuses.  It may be refused, stay
\* working, or fill; after a fill the store may fail before the trade is
\* removed, or after.
BarExit(s) ==
  /\ BarSeen /\ Managing
  /\ s \in tracked
  /\ \E uncancelled \in SUBSET {<<s, "stop">>} :
       LET rest == orders \ ({<<s, "stop">>} \ uncancelled)
       IN /\ uncancelled = {} \/ BrokerMayFail
          /\ \/ /\ s \notin held
                /\ Dropped(s)
                /\ orders' = rest /\ UNCHANGED held
             \/ /\ s \in held
                /\ orders' = rest /\ UNCHANGED <<held, book>>
             \/ /\ s \in held /\ brake = "off"
                /\ orders' = rest \cup {<<s, "exit">>}
                /\ UNCHANGED <<held, book>>
             \/ /\ s \in held /\ brake = "off"
                /\ orders' = rest /\ held' = held \ {s}
                /\ Dropped(s) \/ (StoreMayFail /\ UNCHANGED book)
  /\ BarFrame

\* A new entry is allowed: plans of this session, entry phase, no kill switch,
\* no open trade in the contract
MayEnter(s) ==
  /\ active /\ phase = "MarketOpen" /\ plans = cur /\ brake = "off"
  /\ s \notin tracked

\* handle_signal, the buy order stays working, or the broker has it and the
\* answer was lost: nothing is tracked.
BarEnterWorking(s) ==
  /\ BarSeen /\ MayEnter(s)
  /\ orders' = orders \cup {<<s, "entry">>}
  /\ BarFrame
  /\ UNCHANGED <<book, held>>

\* The protective ids after a fill of s: the id of a refused order is None.
Recorded(s, stop) == IF stop # {} THEN guarded \cup {s} ELSE guarded \ {s}

\* Variant: the trade is tracked although its row could not be written.
OpenedInMemory(s, stop) ==
  \/ Keep(tracked \cup {s}, stored \cup {s}, Recorded(s, stop), hit \ {s})
  \/ StoreMayFail /\ Keep(tracked \cup {s}, stored, Recorded(s, stop), hit \ {s})

\* The book after a fill of s: the row is written before the trade is
\* tracked.
Opened(s, stop) ==
  \/ Keep(tracked \cup {s}, stored \cup {s}, Recorded(s, stop), hit \ {s})
  \/ StoreMayFail /\ UNCHANGED book

\* handle_signal, the buy fills: a protective order is submitted, which the
\* broker may refuse, then the row is written, then the trade is tracked.
BarEnterFilled(s) ==
  /\ BarSeen /\ MayEnter(s)
  /\ held' = held \cup {s}
  /\ \E stop \in SUBSET {<<s, "stop">>} :
       /\ orders' = orders \cup stop
       /\ Opened(s, stop)
  /\ BarFrame

TickEnd ==
  /\ At("bars")
  /\ pc' = "top"
  /\ UNCHANGED <<proc, noted, err, ckpt, runtime, book, audit, broker, world>>

-----------------------------------------------------------------------------
(* FinalizingSession: cancel, flatten, reconcile, verify orders, verify      *)
(* positions.                                                                *)

\* cancel_all_orders may leave orders behind even when it succeeds (an order
\* the broker could not cancel is only in its 207 answer).  When it fails the
\* step goes on only if list_open_orders says there are none.
FinalizeCancel ==
  /\ Idle /\ state = "FinalizingSession"
  /\ orders' \in SUBSET orders
  /\ UNCHANGED cur
  /\ \/ /\ pc' = "flatten"
        /\ active' = FALSE
        /\ UNCHANGED <<err, ckpt>>
     \/ BrokerMayFail /\ FailStep(cp, FALSE) /\ UNCHANGED pc
  /\ UNCHANGED <<proc, noted, plans, saved, brake, feed, book, audit, held,
                 world>>

\* The sells of execute_market_closing before it stops: only of positions
\* that exist, none with the kill switch on, and none after a rejected one,
\* which engages the kill switch.
Flattened(sold, pending, rejected) ==
  /\ sold \cap pending = {} /\ (sold \cup pending) \cap rejected = {}
  /\ sold \cup pending \cup rejected \subseteq
       IF brake = "off" THEN tracked \cap held ELSE {}
  /\ Cardinality(rejected) <= 1

\* The loop of execute_market_closing over the open trades: sells that fill,
\* sells left working (or filled in part), a sell the broker rejected.  The
\* first error (no fresh quote, no answer, a refused order, a report that
\* cannot be saved after the fill) ends it, the other trades are not tried.
Flattening(sold, pending, rejected, unbooked, left) ==
  /\ Flattened(sold, pending, rejected)
  /\ left \cup unbooked # {} => StoreMayFail
  /\ Cardinality(unbooked) <= 1
  /\ held' = held \ sold
  /\ orders' = orders \cup (pending \X {"exit"})
  /\ Keep(tracked \ (sold \ unbooked), stored \ (sold \ (left \cup unbooked)),
          guarded, hit)
  /\ brake' = IF rejected # {} THEN "killed" ELSE brake
  /\ LET done == tracked = sold \cup pending \cup rejected /\ unbooked = {}
     IN IF done
          THEN /\ pc' = "settle" /\ active' = FALSE
               /\ UNCHANGED <<err, state, cp, disk, retry>>
          ELSE FailStep(cp, FALSE) /\ pc' = "top"

FinalizeFlatten ==
  /\ At("flatten")
  /\ UNCHANGED cur
  /\ \E sold \in SUBSET tracked : \E pending \in SUBSET tracked :
     \E rejected \in SUBSET tracked :
     \E unbooked \in SUBSET sold : \E left \in SUBSET sold :
       Flattening(sold, pending, rejected, unbooked, left)
  /\ UNCHANGED <<proc, noted, plans, saved, feed, audit, world>>

\* execute_market_closing, the end: reconcile, then both sides must be empty,
\* otherwise the kill switch is engaged.
FinalizeSettle(out) ==
  /\ At("settle")
  /\ UNCHANGED cur
  /\ Reconcile(out)
  /\ \/ /\ out = "match" /\ tracked' = {} /\ held' = {}
        /\ pc' = "verify" /\ active' = FALSE /\ UNCHANGED brake
        /\ UNCHANGED <<err, state, cp, disk, retry>>
     \/ /\ out = "match" /\ (tracked' # {} \/ held' # {})
        /\ brake' = "killed"
        /\ FailStep(cp, FALSE) /\ pc' = "top"
     \/ /\ out # "match" \/ BrokerMayFail
        /\ brake' = Braked(out)
        /\ FailStep(cp, FALSE) /\ pc' = "top"
  /\ UNCHANGED <<proc, noted, plans, saved, feed, world>>

\* What a verification of the step does when it fails
VerifyFails ==
  /\ FailStep(cp, active)
  /\ pc' = "top"
  /\ UNCHANGED <<plans, brake, book, audit, broker>>

\* Variant: only the flattening sells are looked for.
NoSellsLeft == \A o \in orders : o[2] # "exit"

\* list_open_orders is empty
NoOrdersLeft == orders = {}

FinalizeVerify ==
  /\ At("verify")
  /\ UNCHANGED cur
  /\ \/ /\ NoOrdersLeft
        /\ pc' = "positions"
        /\ UNCHANGED <<err, ckpt, plans, active, brake, book, audit, broker>>
     \/ (~NoOrdersLeft \/ BrokerMayFail) /\ VerifyFails
  /\ UNCHANGED <<proc, noted, saved, feed, world>>

\* execute_post_market: the plans and the trades are cleared if the book
\* matches once more and the account answers.  Its error is only printed.
PostMarket(out) ==
  /\ Reconcile(out)
  /\ brake' = Braked(out)
  /\ \/ out = "match" /\ plans' = 0
     \/ (out # "match" \/ BrokerMayFail) /\ UNCHANGED plans

\* positions must be empty; then the post market work, and Learning.
FinalizePositions(out) ==
  /\ At("positions")
  /\ UNCHANGED cur
  /\ \/ /\ held = {}
        /\ PostMarket(out)
        /\ TransitionTo("Learning", cp, active /\ out # "mismatch")
        /\ pc' = "top"
        /\ UNCHANGED retry
     \/ (held # {} \/ BrokerMayFail) /\ VerifyFails
  /\ UNCHANGED <<proc, noted, saved, feed, world>>

StepFinalizing ==
  \/ FinalizeCancel \/ FinalizeFlatten \/ FinalizeVerify
  \/ \E out \in Verdicts : FinalizeSettle(out) \/ FinalizePositions(out)

\* Learning: whatever execute_learning returns, the plans are cleared.
StepLearning ==
  /\ Idle /\ state = "Learning"
  /\ plans' = 0
  /\ retry' = 0
  /\ UNCHANGED cur
  /\ TransitionTo("WaitingForSession", cp, active)
  /\ UNCHANGED <<proc, pc, noted, saved, brake, feed, book, audit, broker, world>>

-----------------------------------------------------------------------------
(* Recovering and Degraded: gated by a reconciliation that matches.          *)

InRecovery == Idle /\ state \in {"Recovering", "Degraded"}

\* Variant: the budget is not looked at in recovery.
StillRecoveringFreely(act) ==
  /\ retry' = Bump
  /\ UNCHANGED <<cur, state, cp, disk, err>>
  /\ active' = act

\* The failure is counted and the state kept until the budget is spent.
StillRecovering(act) ==
  /\ retry' = Bump
  /\ UNCHANGED cur
  /\ IF Exhausted
       THEN Attempt("Halted", cp, act)
       ELSE active' = act /\ UNCHANGED <<state, cp, disk, err>>

RecoverNoBroker ==
  /\ InRecovery /\ BrokerMayFail
  /\ StillRecovering(active)
  /\ UNCHANGED <<proc, pc, noted, plans, saved, brake, feed, book, audit,
                 broker, world>>

RecoverReconcile(out) ==
  /\ InRecovery
  /\ Reconcile(out)
  /\ brake' = Braked(out)
  /\ IF out = "match"
       THEN /\ retry' = 0
            /\ UNCHANGED cur
            /\ TransitionTo(IF phase = "MarketOpen" THEN "PreparingSession"
                            ELSE "WaitingForSession", cp, active)
       ELSE StillRecovering(active /\ out # "mismatch")
  /\ UNCHANGED <<proc, pc, noted, plans, saved, feed, world>>

-----------------------------------------------------------------------------
(* Graceful shutdown on an interrupt, and the end of the process.            *)

\* ctrl_c drops run_supervised wherever it waits and step_shutdown begins.
Interrupt ==
  /\ proc \in {"init2", "run"}
  /\ stops < MaxStops /\ stops' = stops + 1
  /\ proc' = "stopping" /\ pc' = "settle" /\ noted' = "none"
  /\ UNCHANGED cur
  /\ Attempt("ShuttingDown", cp, FALSE)
  /\ UNCHANGED <<retry, plans, saved, brake, feed, book, audit, broker,
                 phase, day, faulty, outages>>

ShutdownReconcile(out) ==
  /\ proc = "stopping" /\ pc = "settle"
  /\ Reconcile(out)
  /\ brake' = Braked(out)
  /\ pc' = "liquidate"
  /\ UNCHANGED <<proc, noted, err, ckpt, cur, plans, saved, active, feed, world>>

\* emergency_liquidate_all: cancel all, stop if orders remain, sell what the
\* broker holds, and drop the trades whose position is confirmed gone.
Liquidate ==
  \E rest \in SUBSET orders : \E sold \in SUBSET held :
  \E pending \in SUBSET (held \ sold) : \E left \in SUBSET stored :
    /\ rest # {} => sold \cup pending = {}
    /\ held' = held \ sold
    /\ orders' = rest \cup (pending \X {"exit"})
    /\ left = {} \/ StoreMayFail
    /\ \/ /\ rest = {}
          /\ stored' = (stored \ (tracked \ held')) \cup left
       \/ (rest # {} \/ BrokerMayFail) /\ UNCHANGED stored

ShutdownLiquidate ==
  /\ proc = "stopping" /\ pc = "liquidate"
  /\ \/ tracked # {} /\ Liquidate
     \/ tracked = {} /\ UNCHANGED <<stored, broker>>
  /\ LET stamped == [cp EXCEPT !.session = IF cur # 0 THEN cur ELSE @]
     IN disk' = stamped \/ (StoreMayFail /\ disk' = disk)
  /\ Vanish
  /\ guarded' = guarded \cap stored' /\ hit' = hit \cap stored'
  /\ UNCHANGED <<saved, world>>

\* kill -9, SIGTERM, a panic, the systemd watchdog
Crash ==
  /\ proc # "down"
  /\ stops < MaxStops /\ stops' = stops + 1
  /\ Vanish
  /\ guarded' = guarded \cap stored /\ hit' = hit \cap stored
  /\ UNCHANGED <<disk, saved, stored, broker, phase, day, faulty, outages>>

-----------------------------------------------------------------------------
(* The world: fills at the broker, the clock, outages.                       *)

Fill ==
  \E o \in orders :
    /\ CanFill(o)
    /\ held' = HeldAfter({o})
    /\ hit' = HitAfter({o})
    /\ orders' = orders \ {o}
    /\ UNCHANGED <<control, ckpt, runtime, tracked, stored, guarded, audit, world>>

Following ==
  [p \in Phases |->
     CASE p = "Dawn"          -> {"PreMarket", "Night"}    \* Night: a day off
       [] p = "PreMarket"     -> {"MarketOpen"}
       [] p = "MarketOpen"    -> {"MarketClosing"}
       [] p = "MarketClosing" -> {"PostMarket"}
       [] p = "PostMarket"    -> {"Learning"}
       [] p = "Learning"      -> {"Night"}
       [] p = "Night"         -> {"Dawn"}]

\* Every order of the program is good for the day only.
ClockTick ==
  /\ phase' \in Following[phase]
  /\ day' = IF phase = "Night" THEN day + 1 ELSE day
  /\ day' <= MaxDay
  /\ orders' = IF phase = "MarketClosing" THEN {} ELSE orders
  /\ UNCHANGED <<control, ckpt, runtime, book, audit, held, faulty, outages, stops>>

\* While a service is faulty each of its calls may fail, or not.
Break(svc) ==
  /\ svc \notin faulty
  /\ outages < MaxOutages /\ outages' = outages + 1
  /\ faulty' = faulty \cup {svc}
  /\ UNCHANGED <<control, ckpt, runtime, book, audit, broker, phase, day, stops>>

Mend(svc) ==
  /\ svc \in faulty
  /\ faulty' = faulty \ {svc}
  /\ UNCHANGED <<control, ckpt, runtime, book, audit, broker, phase, day,
                 outages, stops>>

-----------------------------------------------------------------------------
(* The specification                                                        *)

Bar(s) == BarIngest(s) \/ BarExit(s) \/ BarEnterWorking(s) \/ BarEnterFilled(s)

StepTrading ==
  \/ TradeDataHalt \/ TradeClose \/ TickBegin \/ BarOnly \/ TickEnd
  \/ \E s \in Symbols : Bar(s)

StepPreparing ==
  \/ PrepareFails \/ PrepareBuild
  \/ \E out \in Verdicts : PrepareReconcile(out) \/ PrepareActivate(out)

StepRecovering ==
  \/ RecoverNoBroker
  \/ \E out \in Verdicts : RecoverReconcile(out)

\* HiveSupervisor::step and the error handling around it; Halted only sleeps.
Step ==
  \/ StepStarting \/ StepWaiting \/ StepPreparing \/ StepTrading
  \/ StepFinalizing \/ StepLearning \/ StepRecovering \/ StepError

Shutdown ==
  \/ ShutdownLiquidate
  \/ \E out \in Verdicts : ShutdownReconcile(out)

World ==
  \/ Fill \/ ClockTick
  \/ \E svc \in Services : Break(svc) \/ Mend(svc)

Next ==
  \/ Boot \/ Initialize \/ Heartbeat \/ Stall \/ Step
  \/ Interrupt \/ Shutdown \/ Crash \/ World

Spec == Init /\ [][Next]_vars

\* The process runs when it can, systemd restarts it, and outages end.
Fairness ==
  /\ WF_vars(Boot) /\ WF_vars(Initialize) /\ WF_vars(Step) /\ WF_vars(Shutdown)
  /\ \A svc \in Services : WF_vars(Mend(svc))

FairSpec == Spec /\ Fairness

-----------------------------------------------------------------------------
(* Properties                                                               *)

\* Durability first: in a running process the row on disk always names the
\* state the supervisor is in, once it has left Starting.  No crash can lose
\* a transition, and no heartbeat or second initialisation writes another one.
DurabilityFirst == proc # "down" /\ state # "Starting" => disk.sup = state

\* What Lifecycle calls the life of the process
Life ==
  CASE proc \in {"init1", "init2"} -> "init"
    [] proc = "run"                -> "loop"
    [] proc = "stopping"           -> "stop"
    [] OTHER                       -> "down"

Promise == INSTANCE Lifecycle WITH life <- Life, state <- state, row <- disk.sup

\* The supervisor implements its life cycle: whatever fails in between, it takes
\* no other edge, no row moves without the state or the state without the row
\* (transition_to_verified), a Halted row is never recovered from, and Halted is
\* left only by a shutdown.
FollowsLifecycle == Promise!Spec

\* A trade in memory always has a row, so a crash between any two steps
\* leaves no tracked position that the next process does not know.
TradesSurviveCrash == proc # "down" => tracked \subseteq stored

\* The supervisor never trades without bots.
TradingHasPlans == state = "Trading" => plans # 0

\* Learning is only reached from finalization with a flat account: nothing
\* held and no order left that could open or close anything.
FinalizedFlat ==
  [][state = "FinalizingSession" /\ state' = "Learning"
       => held' = {} /\ orders' = {}]_vars

\* Within one process Halted is final, except for the shutdown.
HaltedSticks ==
  [][state = "Halted" /\ proc' # "down" => state' \in {"Halted", "ShuttingDown"}]_vars

\* The program sends a buy order, or one fills at once.
Entered ==
  \E s \in Symbols :
    \/ <<s, "entry">> \in orders' \ orders
    \/ s \in held' \ held /\ <<s, "entry">> \notin orders

\* After a reconciliation that found a mismatch this process buys nothing any
\* more, although it may go on to Trading and sets active again there.
MismatchStopsEntries == [][Entered => ~alarmed /\ synced # "none"]_vars

\* Bot plans are only installed while the last reconciliation matched.
PlansFollowMatch ==
  [][plans' # plans /\ plans' # 0 => synced' = "match"]_vars

\* Recovery comes to a decision: it leaves for a session, or halts.
RecoveryDecides ==
  proc = "run" /\ state = "Recovering" ~> proc # "run" \/ state # "Recovering"

\* A finalization does not hang: it is concluded or it has failed.
FinalizationDecides ==
  proc = "run" /\ state = "FinalizingSession"
    ~> proc # "run" \/ state # "FinalizingSession"

\* The one that follows is what a test says, and fails.

\* A halt on disk survives everything but an operator's shutdown.
HaltIsDurable ==
  [][disk.sup = "Halted" /\ proc # "stopping"
       => disk'.sup \in {"Halted", "ShuttingDown"}]_vars

=============================================================================
