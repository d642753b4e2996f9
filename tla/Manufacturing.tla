---------------------------- MODULE Manufacturing ----------------------------
(***************************************************************************)
(* The bots of a session: how the capital is shared out                    *)
(* (allocate_candidates and manufacture_promoted_bots_for_session in       *)
(* crates/hive/src/lib.rs), how the plans get into the store, the fleet    *)
(* and the memory (ensure_bots_manufactured in crates/bot/src/lib.rs), the *)
(* life of a bot in the fleet (crates/deployment/src/lib.rs), and what a   *)
(* restart restores.                                                       *)
(*                                                                         *)
(* Money and confidences are small integers.  The research that finds the  *)
(* candidates is left out: any of them may turn up with any confidence.    *)
(***************************************************************************)
EXTENDS Naturals, Sequences, FiniteSets, Functions

CONSTANTS
  Symbols,         \* underlyings of the universe
  Strategies,      \* strategies of the registry
  MaxConfidence,   \* confidences are 1 to this
  Contracts,       \* option contracts of a symbol that may rank first
  Total,           \* HiveManufacturingPolicy.total_capital
  SymbolCap,       \* max_symbol_capital_pct of it
  MaxBots,         \* max_bots
  MaxBotsPerSymbol,
  MaxDays,         \* bound: days
  MaxPreparations, \* bound: preparations
  MaxRestarts      \* bound: restarts

ASSUME NamesAssumption == IsFiniteSet(Symbols) /\ IsFiniteSet(Strategies)
ASSUME PolicyAssumption ==
  /\ {Total, SymbolCap, MaxBots, MaxBotsPerSymbol, MaxConfidence} \subseteq Nat \ {0}
  /\ SymbolCap <= Total
ASSUME BoundsAssumption ==
  /\ MaxDays \in Nat \ {0} /\ MaxPreparations \in Nat /\ MaxRestarts \in Nat

VARIABLES
  today,     \* the date
  session,   \* current_session_id, the day it is of
  saved,     \* session_id in the stored checkpoint
  pc,        \* "idle", "making" (a preparation), or "trading"
  batch,     \* plans that were manufactured in the last preparation, by rank
  made,      \* ranks of those that are in the fleet and in memory
  plans,     \* bot_plans in memory
  rows,      \* bot_plans table, the plan with its session
  fleet,     \* BotFleet.bots, in order of creation
  prepared,  \* history: preparations of each session
  restarts   \* history: restarts

vars == <<today, session, saved, pc, batch, made, plans, rows, fleet, prepared, restarts>>

NoPlans == [k \in {} |-> {}]

\* The id of a bot is the hash of what it is assigned.
Plans == [symbol : Symbols, strategy : Strategies, contract : Contracts, capital : 1..Total]
Statuses == {"Draft", "Paper", "Active", "Retired"}

TypeOK ==
  /\ today \in 1..MaxDays
  /\ session \in 1..today /\ saved \in 1..session
  /\ pc \in {"idle", "making", "trading"}
  /\ \E K \in SUBSET (1..Cardinality(Symbols \X Strategies)) : batch \in [K -> Plans]
  /\ made \subseteq DOMAIN batch
  /\ plans \subseteq Plans
  /\ rows \subseteq Plans \X (1..MaxDays)
  /\ fleet \in Seq([bot : Plans, status : Statuses])
  /\ prepared \in [1..MaxDays -> 0..MaxPreparations]
  /\ restarts \in 0..MaxRestarts

Init ==
  /\ today = 1 /\ session = 1 /\ saved = 1 /\ pc = "idle" /\ batch = NoPlans /\ made = {} /\ plans = {}
  /\ rows = {} /\ fleet = <<>> /\ prepared = [s \in 1..MaxDays |-> 0] /\ restarts = 0

-----------------------------------------------------------------------------
(* allocate_candidates.  A candidate is a symbol, a strategy and a           *)
(* confidence; versions of a strategy are not told apart.                   *)

Candidates(confidence) ==
  {[symbol |-> p[1], strategy |-> p[2], confidence |-> confidence[p]] :
     p \in {q \in Symbols \X Strategies : confidence[q] > 0}}

\* What f comes to over K, counted unit by unit
Sum(f, K) == Cardinality(UNION {{k} \X (1..f[k]) : k \in K})

\* Variant: the candidates are taken as they come.
AsTheyCome(C) == Injection(1..Cardinality(C), C)

\* Best confidence first.  Candidates of the same confidence are sorted by their names,
\* here they come in any order.
Ranked(C) ==
  {r \in Injection(1..Cardinality(C), C) :
     \A j, k \in DOMAIN r : j < k => r[j].confidence >= r[k].confidence}

\* The ranks of K above k, and those of a symbol
Above(K, k) == {j \in K : j < k}
OfSymbol(r, K, s) == {k \in K : r[k].symbol = s}

\* The best ones, not too many of one symbol: the rest spills over to others.  There is
\* one such set, since who is taken depends on those above.
Selected(r) ==
  {chosen \in SUBSET DOMAIN r :
     \A k \in DOMAIN r :
       k \in chosen <=>
         /\ Cardinality(Above(chosen, k)) < MaxBots
         /\ Cardinality(OfSymbol(r, Above(chosen, k), r[k].symbol)) < MaxBotsPerSymbol}

Lesser(m, n) == IF m < n THEN m ELSE n

\* The share by confidence
ByConfidence(r, chosen, k) ==
  (Total * r[k].confidence) \div Sum([j \in chosen |-> r[j].confidence], chosen)

\* Variant: each bot on its own may use the capital of its symbol.
ShareAlone(r, capital, k) == Lesser(ByConfidence(r, DOMAIN capital, k), SymbolCap)

\* As far as those above k have not used up the cap of the symbol
Share(r, capital, k) ==
  LET used == Sum(capital, OfSymbol(r, Above(DOMAIN capital, k), r[k].symbol))
  IN Lesser(ByConfidence(r, DOMAIN capital, k), IF used < SymbolCap THEN SymbolCap - used ELSE 0)

\* Who gets how much, again from the top
Shared(r, chosen) ==
  {capital \in [chosen -> 0..SymbolCap] : \A k \in chosen : capital[k] = Share(r, capital, k)}

\* Variant: a bot may be left without capital.
AllocatedToAll(capital) == DOMAIN capital

\* allocate_candidates leaves out who gets nothing.
Allocated(capital) == {k \in DOMAIN capital : capital[k] > 0}

\* manufacture_promoted_bots_for_session: an allocation becomes a plan if its
\* symbol has a contract that can be traded.
Manufactured(r, capital, contract) ==
  [k \in {j \in Allocated(capital) : r[j].symbol \in DOMAIN contract} |->
     [symbol |-> r[k].symbol, strategy |-> r[k].strategy,
      contract |-> contract[r[k].symbol], capital |-> capital[k]]]

\* What the option chains may make of a ranking
BatchesOf(r) ==
  UNION {UNION {{Manufactured(r, capital, contract) : capital \in Shared(r, chosen)} :
                  chosen \in Selected(r)} :
           contract \in UNION {[tradable -> Contracts] : tradable \in SUBSET Symbols}}

\* What the research and the option chains of a day may lead to
Batches ==
  UNION {UNION {BatchesOf(r) : r \in Ranked(Candidates(confidence))} :
           confidence \in [Symbols \X Strategies -> 0..MaxConfidence]}

-----------------------------------------------------------------------------
(* BotFleet                                                                 *)

\* create refuses a bot that exists and is not retired; a bot of the same id
\* is added behind the retired one.
Created(f, p) ==
  IF \E k \in DOMAIN f : f[k].bot = p /\ f[k].status # "Retired" THEN f
  ELSE Append(f, [bot |-> p, status |-> "Draft"])

\* set finds the first bot with the id, which may be a retired one: then the
\* promotion and the activation fail, and their errors are dropped.
IsFirst(f, p, k) == f[k].bot = p /\ \A j \in 1..(k - 1) : f[j].bot # p
Set(f, p, from, to) ==
  [k \in DOMAIN f |-> IF IsFirst(f, p, k) /\ f[k].status = from
                        THEN [f[k] EXCEPT !.status = to] ELSE f[k]]

Promoted(f, p) ==
  IF Created(f, p) = f THEN f
  ELSE Set(Set(Created(f, p), p, "Draft", "Paper"), p, "Paper", "Active")

\* Variant: retired bots come back.
ActiveAgain(f) == [k \in DOMAIN f |-> [f[k] EXCEPT !.status = "Active"]]

\* activate_all
AllActive(f) ==
  [k \in DOMAIN f |-> [f[k] EXCEPT !.status = IF @ = "Retired" THEN @ ELSE "Active"]]

\* retire_all
AllRetired(f) == [k \in DOMAIN f |-> [f[k] EXCEPT !.status = "Retired"]]

-----------------------------------------------------------------------------
(* The bot_plans table                                                      *)

\* save_bot_plan: the row of a plan that was made before is replaced.
Stored(p, s) == {r \in rows : r[1] # p} \cup {<<p, s>>}

\* load_bot_plans_for_session: every row of the session
PlansOf(s) == {r[1] : r \in {q \in rows : q[2] = s}}

-----------------------------------------------------------------------------
(* The session                                                              *)

\* Preparing: the old bots are retired and dropped, then new ones are made.
\* Before the open a day is prepared again and again, after it once more when
\* a recovery leads back.
Prepare(b) ==
  /\ pc = "idle" /\ Sum(prepared, 1..MaxDays) < MaxPreparations
  /\ prepared' = [prepared EXCEPT ![today] = @ + 1]
  /\ session' = today
  /\ fleet' = AllRetired(fleet)
  /\ plans' = {}
  /\ batch' = b
  /\ made' = {}
  /\ IF b = NoPlans
       THEN UNCHANGED pc /\ saved' = session'
       ELSE pc' = "making" /\ UNCHANGED saved
  /\ UNCHANGED <<today, rows, restarts>>

\* One plan: its row is written first.  When that fails, the preparation does.
Make(k) ==
  /\ pc = "making" /\ k \notin made /\ \A j \in DOMAIN batch \ made : k <= j
  /\ \/ /\ rows' = Stored(batch[k], session)
        /\ fleet' = Promoted(fleet, batch[k])
        /\ plans' = plans \cup {batch[k]}
        /\ made' = made \cup {k}
        /\ UNCHANGED <<pc, saved>>
     \/ /\ pc' = "idle" /\ saved' = session
        /\ UNCHANGED <<rows, fleet, plans, made>>
  /\ UNCHANGED <<today, session, batch, prepared, restarts>>

\* activate_market_open: the reconciliation may fail, which is only printed.
\* In an open market the loop trades, before the open it waits, which ends in
\* the next preparation.
Activate(matched) ==
  /\ pc = "making" /\ made = DOMAIN batch
  /\ pc' \in {"trading", "idle"} /\ saved' = session
  /\ fleet' = IF matched THEN AllActive(fleet) ELSE fleet
  /\ UNCHANGED <<today, session, batch, made, plans, rows, prepared, restarts>>

\* An error sends a trading session through recovery back to preparation, or
\* to the next day.
Recover ==
  /\ pc = "trading"
  /\ pc' = "idle"
  /\ UNCHANGED <<today, session, saved, batch, made, plans, rows, fleet, prepared, restarts>>

NextDay ==
  /\ pc = "idle" /\ today < MaxDays
  /\ today' = today + 1
  /\ UNCHANGED <<session, saved, pc, batch, made, plans, rows, fleet, prepared, restarts>>

\* The session was finalized, the day is over after Learning: the bots are
\* retired, their rows stay.
Close ==
  /\ pc = "trading" /\ today < MaxDays
  /\ today' = today + 1
  /\ pc' = "idle"
  /\ fleet' = AllRetired(fleet)
  /\ plans' = {} /\ batch' = NoPlans /\ made' = {}
  /\ UNCHANGED <<session, saved, rows, prepared, restarts>>

\* A new process restores the rows of the session in the checkpoint, and then
\* starts the session of the day.  In an open market it trades at once if there
\* were any.
Restart ==
  /\ restarts < MaxRestarts /\ restarts' = restarts + 1
  /\ session' = today /\ saved' = today
  /\ plans' = PlansOf(saved)
  /\ pc' \in IF plans' = {} THEN {"idle"} ELSE {"idle", "trading"}
  /\ fleet' = <<>> /\ batch' = NoPlans /\ made' = {}
  /\ UNCHANGED <<today, rows, prepared>>

Next ==
  \/ \E b \in Batches : Prepare(b)
  \/ \E k \in DOMAIN batch : Make(k)
  \/ \E matched \in BOOLEAN : Activate(matched)
  \/ Recover \/ NextDay \/ Close \/ Restart

Spec == Init /\ [][Next]_vars

-----------------------------------------------------------------------------
(* Properties                                                               *)

Funds(P) == Sum([p \in P |-> p.capital], P)
Of(s, P) == {p \in P : p.symbol = s}

WithinPolicy(P) ==
  /\ Funds(P) <= Total
  /\ Cardinality(P) <= MaxBots
  /\ \A s \in Symbols :
       Funds(Of(s, P)) <= SymbolCap /\ Cardinality(Of(s, P)) <= MaxBotsPerSymbol

\* The bots that trade share out no more than the capital, and no symbol has
\* more bots or capital than the policy allows: as long as no day is
\* prepared twice, or the process was not restarted.
BudgetKept ==
  restarts = 0 \/ (\A d \in 1..MaxDays : prepared[d] <= 1) => WithinPolicy(plans)

\* Of two bots on the same symbol the one that was ranked higher has at least
\* the capital of the other.
BetterGetsMore ==
  \A j, k \in DOMAIN batch :
    j < k /\ batch[j].symbol = batch[k].symbol => batch[j].capital >= batch[k].capital

\* A retired bot is never used again by the same process.
RetiredIsFinal ==
  [][restarts' = restarts =>
       \A k \in DOMAIN fleet : fleet[k].status = "Retired" => fleet'[k] = fleet[k]]_vars

=============================================================================
