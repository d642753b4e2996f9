--------------------------- MODULE MCManufacturing ---------------------------
(* Instances of Manufacturing for TLC: symbols and strategies are alike, so   *)
(* that states are explored up to their permutation.                          *)
EXTENDS Manufacturing, SequencesExt, TLC

Symmetry == Permutations(Symbols) \cup Permutations(Strategies)

Orders ==
  UNION {Ranked(Candidates(confidence)) :
           confidence \in [Symbols \X Strategies -> 0..MaxConfidence]}

\* The selection as the loop of allocate_candidates makes it, one rank at a time
Loop(r) ==
  FoldLeft(LAMBDA chosen, k :
             IF /\ Cardinality(chosen) < MaxBots
                /\ Cardinality(OfSymbol(r, chosen, r[k].symbol)) < MaxBotsPerSymbol
               THEN chosen \cup {k} ELSE chosen,
           {}, [k \in DOMAIN r |-> k])

\* The shares as the second loop deals them out
Deal(r, chosen) ==
  FoldLeft(LAMBDA capital, k :
             IF k \in chosen
               THEN [j \in DOMAIN capital \cup {k} |->
                       IF j = k THEN Share(r, [i \in chosen |->
                                       IF i \in DOMAIN capital THEN capital[i] ELSE 0], k)
                       ELSE capital[j]]
               ELSE capital,
           [j \in {} |-> 0], [k \in DOMAIN r |-> k])

\* What Selected and Shared say of a ranking is what the loops do with it.
ASSUME LoopsAgree ==
  \A r \in Orders : Selected(r) = {Loop(r)} /\ Shared(r, Loop(r)) = {Deal(r, Loop(r))}
=============================================================================
