------------------------------ MODULE HistoryLog ------------------------------
(***************************************************************************)
(* What a file of the JSON history promises                                *)
(* (crates/storage/src/json_history.rs): it changes by whole updates, one  *)
(* after the other, each applied to what the ones before it left.          *)
(***************************************************************************)
CONSTANTS
  Bots,    \* ids of the records in the file
  Events   \* what can be appended to a record

VARIABLE file   \* the entries of every record; none, and it does not exist

\* The entry a record is created with
Manifest == "MANUFACTURED"

Contents == [Bots -> SUBSET (Events \cup {Manifest})]

Updates == [kind : {"upsert"}, bot : Bots] \cup [kind : {"append"}, bot : Bots, event : Events]

\* An event is only appended to a record that exists.
Known(u, c) == u.kind = "upsert" \/ c[u.bot] # {}

\* upsert_bot replaces the whole record, its events too; a record that is pushed
\* to one of the other files is an upsert of a new id.
Apply(u, c) ==
  [c EXCEPT ![u.bot] = IF u.kind = "upsert" THEN {Manifest} ELSE @ \cup {u.event}]

Init == file = [b \in Bots |-> {}]

Update(u) == Known(u, file) /\ file' = Apply(u, file)

Next == \E u \in Updates : Update(u)

Spec == Init /\ [][Next]_file
=============================================================================
