------------------------------- MODULE Watchdog -------------------------------
(***************************************************************************)
(* The supervisor's loop in time (crates/bot/src/supervisor.rs): the       *)
(* heartbeat at the head of every step, which feeds the watchdog of        *)
(* systemd or withholds it, the work and the sleep of the step, the        *)
(* back-off of a recovery, the step that fails because the store refuses a *)
(* transition, the guard of the start (crates/cli/src/main.rs) and the     *)
(* service manager that runs the process                                   *)
(* (deploy/systemd/trading-hive.service).  What the states do to trades    *)
(* and rows is Supervisor.tla; here a state is what it costs in seconds.   *)
(***************************************************************************)
EXTENDS Integers

CONSTANTS            \* in seconds, but for MaxRetries
  Heartbeat,         \* heartbeat_interval (15)
  Tick,              \* tick_interval (5)
  Stall,             \* stall_threshold, four operation_timeouts (120)
  InitialDelay, MaxDelay, MaxRetries,   \* of the back-off (2, 300, 10)
  StartupDeadline,   \* of StartupWatchdogGuard (60)
  WatchdogSec,       \* of the unit (30)
  StartTimeout,      \* what systemd waits for READY=1 (90)
  BusyTimeout,       \* what a save waits for a locked database (5)
  Work               \* bound: what the work of a step may take

ASSUME PeriodAssumption ==
  /\ Heartbeat \in Nat \ {0} /\ Tick \in Nat \ {0} /\ Stall \in Nat
  /\ WatchdogSec \in Nat \ {0} /\ StartTimeout \in Nat /\ StartupDeadline \in Nat
  /\ BusyTimeout \in Nat \ {0}
ASSUME DelayAssumption ==
  InitialDelay \in Nat \ {0} /\ MaxDelay \in Nat \ {0} /\ MaxRetries \in Nat \ {0}
ASSUME WorkAssumption == Work \subseteq Nat \ {0}

VARIABLES
  managed,    \* run by systemd: NOTIFY_SOCKET and WATCHDOG_USEC are set
  broken,     \* the positions will never again match those of the broker
  store,      \* sound since the process started; refusing, when it may refuse any
              \* save; or back, after it did
  saved,      \* the state row says Halted
  proc,       \* down; init1 or init2; head or body of a step
  state,      \* SupervisorState; Closing is FinalizingSession and Learning
  ready,      \* READY=1 was sent
  retries,    \* retry_count
  beat, ping, \* seconds since last_heartbeat, since last_ping
  progress,   \* seconds since last_progress, while Trading asks for them
  fed,        \* seconds since systemd, if it is there, heard READY=1 or WATCHDOG=1
  up,         \* seconds since it started the process, until READY=1
  stalled,    \* history: the process was found stalled
  took        \* history: what the step took that ended the process

memory  == <<state, ready, retries>>
ages    == <<beat, ping, progress, fed, up>>
outside == <<managed, broken, store>>
vars == <<outside, saved, proc, memory, ages, stalled, took>>

States == {"Starting", "WaitingForSession", "PreparingSession", "Trading", "Closing",
           "Recovering", "Halted"}

CountedTo == IF MaxRetries > 6 THEN MaxRetries ELSE 6   \* more retries change nothing

TypeOK ==
  /\ managed \in BOOLEAN /\ broken \in BOOLEAN /\ saved \in BOOLEAN
  /\ store \in {"sound", "refusing", "back"}
  /\ proc \in {"down", "init1", "init2", "head", "body"}
  /\ state \in States
  /\ ready \in BOOLEAN /\ stalled \in BOOLEAN
  /\ retries \in 0..CountedTo
  /\ {beat, ping, progress, fed, up, took} \subseteq Nat

LongAgo == 60   \* what new() sets last_heartbeat and last_ping back to

Init ==
  /\ managed \in BOOLEAN /\ broken = FALSE /\ store = "sound"
  /\ saved = FALSE /\ proc = "init1"
  /\ state = "Starting" /\ ready = FALSE /\ retries = 0
  /\ beat = LongAgo /\ ping = LongAgo /\ progress = 0 /\ fed = 0 /\ up = 0
  /\ stalled = FALSE /\ took = 0

-----------------------------------------------------------------------------
(* Time and systemd.  Ages are counted as far as anyone compares them.      *)

\* WatchdogNotifier: half of WatchdogSec, or what it is without systemd
Interval ==
  IF ~managed THEN 15 ELSE IF WatchdogSec \div 2 < 1 THEN 1 ELSE WatchdogSec \div 2

Aged(age, d, cap) == IF age + d < cap THEN age + d ELSE cap

\* d seconds pass; the last progress was made since seconds ago, or is as old as ever.
Passes(d, since) ==
  /\ UNCHANGED took
  /\ beat' = Aged(beat, d, Heartbeat) /\ ping' = Aged(ping, d, Interval)
  /\ progress' = IF state' = "Trading" THEN Aged(since, 0, Stall + 1) ELSE 0
  /\ fed' = IF managed /\ ready /\ ready' THEN Aged(fed, d, WatchdogSec) ELSE 0
  /\ up' = IF managed /\ ~ready' THEN Aged(up, d, StartTimeout) ELSE 0

\* systemd ends what is not fed in time, or not ready in time.
Ended(d) ==
  /\ managed
  /\ IF ready THEN fed + d >= WatchdogSec ELSE up + d >= StartTimeout

Dies(d) ==
  /\ proc' = "down" /\ took' = d
  /\ UNCHANGED <<outside, saved, memory, ages, stalled>>

\* Restart=always; without systemd nobody starts the process again.
Boot ==
  /\ managed /\ proc = "down"
  /\ proc' = "init1"
  /\ state' = "Starting" /\ ready' = FALSE /\ retries' = 0
  /\ beat' = LongAgo /\ ping' = LongAgo /\ progress' = 0 /\ fed' = 0 /\ up' = 0
  /\ stalled' = FALSE /\ took' = 0
  /\ store' = IF store = "back" THEN "sound" ELSE store
  /\ UNCHANGED <<managed, broken, saved>>

\* Bound: the positions break for good outside an outage only.  A broken broker but
\* forbids what the other one may do as well.
Break ==
  /\ ~broken /\ store # "refusing"
  /\ broken' = TRUE
  /\ UNCHANGED <<managed, store, saved, proc, memory, ages, stalled, took>>

\* The disk is full, or another process holds the database.  An outage begins and ends
\* between two steps: it may refuse what it likes.
Outage ==
  /\ ~broken /\ proc # "body"
  /\ store' = IF store = "refusing" THEN "back" ELSE "refusing"
  /\ UNCHANGED <<managed, broken, saved, proc, memory, ages, stalled, took>>

-----------------------------------------------------------------------------
(* A transition, and a step that fails                                      *)

\* transition_to_verified: the row, and then the memory, which dates the progress.
Enters(s) == state' = s /\ saved' = (s = "Halted")

\* Where it may be refused, nothing changes.
Refused == store = "refusing" /\ UNCHANGED <<state, saved>>

Counted(r) == IF r < CountedTo THEN r + 1 ELSE r

\* check_retry_budget, and the way to Recovering unless it halted; a store that refuses
\* the one may take the other.
Judged ==
  \/ retries' >= MaxRetries /\ Enters("Halted")
  \/ (retries' < MaxRetries \/ store = "refusing") /\ Enters("Recovering")

\* The loop counts a step that fails, after r retries, and sleeps for none.
StepError(r) ==
  /\ retries' = Counted(r)
  /\ Judged \/ Refused
  /\ UNCHANGED ready

-----------------------------------------------------------------------------
(* initialize_and_recover, which main calls and run_supervised calls again  *)

Initializing == proc \in {"init1", "init2"}

\* The guard of the start watches the first call only.
Guarded(w) == proc = "init1" /\ w >= StartupDeadline

Initialized(w) ==
  /\ ~Ended(w) /\ ~Guarded(w)
  /\ proc' = IF proc = "init1" THEN "init2" ELSE "head"
  /\ UNCHANGED <<outside, stalled>>

InitDies ==
  /\ Initializing
  /\ \E w \in Work : (Ended(w) \/ Guarded(w)) /\ Dies(w)

\* Halted, from the row: at once, and never ready.  The transition may be refused in
\* each of these; nobody looks.
InitHalted ==
  /\ Initializing /\ saved
  /\ UNCHANGED <<ready, retries>>
  /\ Initialized(0)
  /\ Enters("Halted") \/ Refused
  /\ Passes(0, 0)

\* The row cannot be read: Halted, if that can be written, and the process gives up.
InitUnreadable ==
  /\ Initializing
  /\ saved' = TRUE \/ (store = "refusing" /\ UNCHANGED saved)
  /\ proc' = "down" /\ took' = 0
  /\ UNCHANGED <<outside, memory, ages, stalled>>

\* Degraded or Recovering: not ready either.
InitRecovering ==
  /\ Initializing /\ ~saved
  /\ UNCHANGED <<ready, retries>>
  /\ Enters("Recovering") \/ Refused
  /\ \E w \in Work : Initialized(w) /\ Passes(w, 0)

\* Everything matches: READY=1.
InitReady ==
  /\ Initializing /\ ~saved /\ ~broken
  /\ ready' = TRUE
  /\ Enters("Starting") \/ Refused
  /\ \E w \in Work : Initialized(w) /\ Passes(w, 0)
  /\ UNCHANGED retries

-----------------------------------------------------------------------------
(* The head of a step: emit_heartbeat                                       *)

Due == proc = "head" /\ beat >= Heartbeat
IsStalled == state = "Trading" /\ progress > Stall

HeadEarly ==
  /\ proc = "head" /\ beat < Heartbeat
  /\ proc' = "body"
  /\ UNCHANGED <<outside, saved, memory, ages, stalled, took>>

\* Variant: a heartbeat that withholds the watchdog does not count as one.
StallAgain == beat

\* last_heartbeat is set whether or not the watchdog is fed.
StallBeat == 0

\* The watchdog is withheld, and the runtime recovers if the store lets it.
HeadStalled ==
  /\ Due /\ IsStalled
  /\ proc' = "body"
  /\ beat' = StallBeat
  /\ retries' = Counted(retries)
  /\ \/ Enters("Recovering") /\ progress' = 0
     \/ Refused /\ UNCHANGED progress
  /\ stalled' = TRUE
  /\ UNCHANGED <<outside, ready, ping, fed, up, took>>

\* Variant: the interval is all of WatchdogSec.
FedLate == ping >= WatchdogSec

Feeds == ping >= Interval

\* Every heartbeat saves the checkpoint, and with it what the memory says.
HeadHealthy ==
  /\ Due /\ ~IsStalled
  /\ proc' = "body"
  /\ beat' = 0
  /\ Enters(state) \/ Refused
  /\ IF Feeds /\ managed THEN ping' = 0 /\ fed' = 0 ELSE UNCHANGED <<ping, fed>>
  /\ UNCHANGED <<outside, memory, progress, up, stalled, took>>

-----------------------------------------------------------------------------
(* The body of a step: the work and the sleep of each state                 *)

\* Variant: the delay does not grow.
Flat == InitialDelay

\* calculate_backoff_delay: twice as long with every failure, within a fifth
Doubled == InitialDelay * <<1, 2, 4, 8, 16, 32, 64>>[1 + IF retries < 6 THEN retries ELSE 6]
Capped(d) == IF d < MaxDelay THEN d ELSE MaxDelay
Delays == {(4 * Capped(Doubled)) \div 5, Capped((6 * Capped(Doubled)) \div 5)}

\* A full disk refuses a transition at once, a locked one after a while.  When the
\* count can tell the steps refused at once apart no longer, they are one step.
Refusal == IF retries < MaxRetries THEN {0, BusyTimeout} ELSE {BusyTimeout}

\* What a step may take in each state
Costs ==
  CASE state = "Starting"          -> {0, BusyTimeout}
    [] state = "WaitingForSession" -> {0, BusyTimeout, Tick}
    [] state = "Trading"           -> {0, BusyTimeout} \cup Work \cup {w + Tick : w \in Work}
    [] state = "Recovering"        -> {d + w : d \in Delays, w \in Work}
    [] state = "Halted"            -> {Heartbeat}
    [] OTHER                       -> Work

BodyDies ==
  /\ proc = "body"
  /\ \E d \in Costs : Ended(d) /\ Dies(d)

Lasts(d, since) ==
  /\ proc = "body" /\ d \in Costs /\ ~Ended(d)
  /\ proc' = "head"
  /\ Passes(d, since)
  /\ UNCHANGED <<outside, stalled>>

\* The session goes on, by the clock; or it halts, for old market data.
Turns ==
  CASE state = "Starting"          -> {"PreparingSession", "Trading", "Closing",
                                   "WaitingForSession"}
    [] state = "WaitingForSession" -> {"PreparingSession"}
    [] state = "Trading"           -> {"PreparingSession", "Closing", "Halted"}
    [] OTHER                       -> {}

Turn ==
  /\ \E s \in Turns : Enters(s)
  /\ UNCHANGED <<ready, retries>>
  /\ Lasts(0, 0)

TurnRefused ==
  /\ store = "refusing" /\ Turns # {}
  /\ StepError(retries)
  /\ \E d \in Refusal : Lasts(d, IF state' = state THEN progress + d ELSE 0)

Sleep ==
  /\ UNCHANGED <<saved, memory>>
  /\ \/ state = "WaitingForSession" /\ Lasts(Tick, 0)
     \/ state = "Halted" /\ Lasts(Heartbeat, 0)

\* A tick that feeds a bar is progress.
Trade ==
  /\ state = "Trading"
  /\ UNCHANGED <<saved, memory>>
  /\ \E w \in Work : Lasts(w + Tick, progress + w + Tick) \/ Lasts(w + Tick, Tick)

\* The broker does not tell the clock.
TradeFails ==
  /\ state = "Trading"
  /\ StepError(retries)
  /\ \E w \in Work : Lasts(w, IF state' = state THEN progress + w ELSE 0)

\* Variant: the failures of a recovery are not added up.
FailedOnce ==
  /\ retries' = 1
  /\ Enters("Recovering")
  /\ UNCHANGED ready

\* One more failure
Failed ==
  /\ retries' = Counted(retries)
  /\ Judged
  /\ UNCHANGED ready

\* Preparing and closing fail; refused, the way to Recovering is a failure of its own.
Fail ==
  /\ state \in {"PreparingSession", "Closing"}
  /\ Failed \/ (store = "refusing" /\ StepError(Counted(retries)))
  /\ \E w \in Work : Lasts(w, 0)

RecoverFails ==
  /\ state = "Recovering"
  /\ Failed
  /\ \E d \in Costs : Lasts(d, 0)

\* Preparing, learning and recovering end with the retry counter at zero.
Ends ==
  \/ state = "PreparingSession" /\ ~broken
  \/ state = "Closing"
  \/ state = "Recovering" /\ ~broken

Goals ==
  CASE state = "PreparingSession" -> {"Trading", "WaitingForSession"}
    [] state = "Recovering"       -> {"PreparingSession", "WaitingForSession"}
    [] OTHER                      -> {"WaitingForSession"}

\* Variant: a recovery that matches is as good as a start that did.
ReadyAgain == ready \/ state = "Recovering"

\* Only initialize_and_recover reports READY=1.
ReadyAfterRecovery == ready

Conclude ==
  /\ Ends
  /\ \E s \in Goals : Enters(s)
  /\ retries' = 0 /\ ready' = ReadyAfterRecovery
  /\ \E d \in Costs : Lasts(d, 0)

\* Refused on the way out, after the counter was reset, or into Learning, before.
ConcludeRefused ==
  /\ store = "refusing" /\ Ends
  /\ StepError(0) \/ (state = "Closing" /\ StepError(retries))
  /\ \E d \in Costs : Lasts(d, 0)

Body ==
  \/ BodyDies \/ Turn \/ TurnRefused \/ Sleep \/ Trade \/ TradeFails
  \/ Fail \/ RecoverFails \/ Conclude \/ ConcludeRefused

Start == InitDies \/ InitUnreadable \/ InitHalted \/ InitRecovering \/ InitReady
Head  == HeadEarly \/ HeadStalled \/ HeadHealthy

Next == Boot \/ Break \/ Outage \/ Start \/ Head \/ Body

Spec == Init /\ [][Next]_vars

\* The process runs, and systemd restarts it.  Neither the broker nor the store need
\* fail, and the store that does need not come back.
FairSpec ==
  /\ Spec
  /\ WF_vars(Boot) /\ WF_vars(Start) /\ WF_vars(Head) /\ WF_vars(Body)

-----------------------------------------------------------------------------
(* Properties                                                               *)

\* With a heartbeat and a ping that each have their own interval, systemd still
\* ends no process for a step as short as the time that is left after a heartbeat
\* interval: a process that was not found stalled dies in a longer step.
EndedForCause ==
  [][(proc = "body" /\ proc' = "down" /\ ready /\ ~stalled)
       => took' > WatchdogSec - Heartbeat]_vars

\* A runtime that was found stalled is lost: the recovery it is sent to cannot
\* feed the watchdog again in time, however fast it is.
StallIsFatal == [][(managed /\ ready /\ stalled /\ stalled') => fed' >= fed]_vars

\* Under systemd only an outage of the store spends the retry budget, in steps that
\* fail without a sleep: what fails and backs off is ended, and the count with it, long
\* before, by a back-off longer than WatchdogSec.
BudgetOutOfReach == (managed /\ store = "sound") => retries < MaxRetries

\* Without systemd the back-off spends it: what cannot recover is Halted in the end,
\* unless the store refuses that.
BudgetIsSpent ==
  (~managed /\ broken /\ state = "Recovering")
    ~> (state = "Halted" \/ proc = "down" \/ store = "refusing")

\* A process that did not match when it started is ended by systemd even if it
\* has recovered and trades since, and so is one that was Halted in its row.
UnreadyIsEnded == (managed /\ proc = "head" /\ ~ready) ~> (proc = "down")
===============================================================================
