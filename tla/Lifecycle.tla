------------------------------ MODULE Lifecycle -------------------------------
(***************************************************************************)
(* What the supervisor promises of its states (SupervisorState and         *)
(* transition_to_verified, crates/bot/src/supervisor.rs): the edges a      *)
(* running supervisor may take, that the durable row moves together with   *)
(* the state, and what a start, a shutdown and a crash may do to the two.  *)
(* Nothing is said of clocks, retries, orders or trades.                   *)
(***************************************************************************)
VARIABLES
  life,   \* "down", "init" (initialize_and_recover), "loop", "stop"
  state,  \* the state in memory; "Starting" when the process is down
  row     \* the state named by the SUPERVISOR_CHECKPOINT row, or "Missing"

lvars == <<life, state, row>>

\* Every state may fail, Trading may halt at once, and nothing leaves Halted.
Edges(s) ==
  CASE s = "Starting"          -> {"WaitingForSession", "PreparingSession", "Trading",
                                   "FinalizingSession", "Learning", "Recovering", "Halted"}
    [] s = "WaitingForSession" -> {"PreparingSession", "Recovering", "Halted"}
    [] s = "PreparingSession"  -> {"WaitingForSession", "Trading", "Recovering", "Halted"}
    [] s = "Trading"           -> {"FinalizingSession", "Recovering", "Halted"}
    [] s = "FinalizingSession" -> {"Learning", "Recovering", "Halted"}
    [] s = "Learning"          -> {"WaitingForSession", "Recovering", "Halted"}
    [] s = "Recovering"        -> {"WaitingForSession", "PreparingSession", "Halted"}
    [] s = "Degraded"          -> {"WaitingForSession", "PreparingSession", "Recovering",
                                   "Halted"}
    [] OTHER                   -> {}

\* State and row move together, or not at all.
Go(next) == state' = next /\ row' = next
Stay     == UNCHANGED <<state, row>>

Init == life = "down" /\ state = "Starting" /\ row = "Missing"

Start == life = "down" /\ life' = "init" /\ Stay

\* A start takes a Halted row over and recovers from any other one.
Assess ==
  /\ life = "init" /\ life' \in {"init", "loop"}
  /\ \/ Stay
     \/ row = "Halted" /\ Go("Halted")
     \/ row # "Halted" /\ \E next \in {"Starting", "Degraded", "Recovering"} : Go(next)

Move == life = "loop" /\ UNCHANGED life /\ \E next \in Edges(state) : Go(next)

\* The heartbeat writes the row of the state again.
Rewrite == life = "loop" /\ UNCHANGED <<life, state>> /\ row' = state

Signal ==
  /\ life \in {"init", "loop"} /\ life' = "stop"
  /\ Stay \/ Go("ShuttingDown")

\* The process ends.  A shutdown may write its checkpoint once more, and a
\* start that cannot read the row may write Halted.
End ==
  /\ life # "down" /\ life' = "down" /\ state' = "Starting"
  /\ \/ row' = row
     \/ life = "stop" /\ row' = state
     \/ life = "init" /\ row' = "Halted"

Next == Start \/ Assess \/ Move \/ Rewrite \/ Signal \/ End

Spec == Init /\ [][Next]_lvars
=============================================================================
