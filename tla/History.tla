------------------------------- MODULE History --------------------------------
(***************************************************************************)
(* A file of the JSON history (crates/storage/src/json_history.rs), shared *)
(* by the processes that work in one data directory.  An update creates    *)
(* the lock file, reads the file, changes its copy, renames a temporary    *)
(* file over it and removes the lock file.  Nobody owns the lock file: who *)
(* dies in between leaves it behind.                                       *)
(***************************************************************************)
EXTENDS Naturals

CONSTANTS
  Procs,       \* processes
  Bots, Events,
  Tries,       \* attempts to create the lock file (100)
  MaxCrashes,  \* bound: processes that die
  MaxFaults    \* bound: file operations that fail

ASSUME TriesAssumption == Tries \in Nat \ {0}
ASSUME BoundsAssumption == MaxCrashes \in Nat /\ MaxFaults \in Nat

VARIABLES
  file,      \* the file
  lock,      \* the lock file exists
  pc,        \* where a process is in its update
  job,       \* the update
  copy,      \* what it is going to write
  tries,     \* failed attempts to create the lock file
  crashes, faults

vars == <<file, lock, pc, job, copy, tries, crashes, faults>>

Log == INSTANCE HistoryLog WITH Bots <- Bots, Events <- Events, file <- file

TypeOK ==
  /\ file \in Log!Contents
  /\ lock \in BOOLEAN
  /\ pc \in [Procs -> {"idle", "lock", "read", "write", "unlock"}]
  /\ job \in [Procs -> Log!Updates]
  /\ copy \in [Procs -> Log!Contents]
  /\ tries \in [Procs -> 0..(Tries - 1)]
  /\ crashes \in 0..MaxCrashes
  /\ faults \in 0..MaxFaults

Init ==
  /\ file = [b \in Bots |-> {}]
  /\ lock = FALSE
  /\ pc = [p \in Procs |-> "idle"]
  /\ job \in [Procs -> Log!Updates]
  /\ copy = [p \in Procs |-> file]
  /\ tries = [p \in Procs |-> 0]
  /\ crashes = 0 /\ faults = 0

Goto(p, label) == pc' = [pc EXCEPT ![p] = label]

\* One more file operation that fails
Fault == faults < MaxFaults /\ faults' = faults + 1
Fine  == UNCHANGED faults

-----------------------------------------------------------------------------
Call(p, u) ==
  /\ pc[p] = "idle"
  /\ job' = [job EXCEPT ![p] = u]
  /\ tries' = [tries EXCEPT ![p] = 0]
  /\ Goto(p, "lock")
  /\ UNCHANGED <<file, lock, copy, crashes, faults>>

\* with_lock: create_new succeeds for one process only.
Acquire(p) ==
  /\ pc[p] = "lock" /\ ~lock
  /\ lock' = TRUE
  /\ Goto(p, "read")
  /\ UNCHANGED <<file, job, copy, tries, crashes, faults>>

\* Variant: who has tried often enough goes on without the lock.
BusyThenOn(p) ==
  /\ pc[p] = "lock" /\ lock
  /\ IF tries[p] + 1 < Tries
       THEN tries' = [tries EXCEPT ![p] = @ + 1] /\ UNCHANGED pc
       ELSE Goto(p, "read") /\ UNCHANGED tries
  /\ UNCHANGED <<file, lock, job, copy, crashes, faults>>

\* It exists: after the last attempt the update fails.
Busy(p) ==
  /\ pc[p] = "lock" /\ lock
  /\ IF tries[p] + 1 < Tries
       THEN tries' = [tries EXCEPT ![p] = @ + 1] /\ UNCHANGED pc
       ELSE Goto(p, "idle") /\ UNCHANGED tries
  /\ UNCHANGED <<file, lock, job, copy, crashes, faults>>

\* It cannot be created for another reason.
AcquireFails(p) ==
  /\ pc[p] = "lock" /\ Fault
  /\ Goto(p, "idle")
  /\ UNCHANGED <<file, lock, job, copy, tries, crashes>>

\* Variant: the copy of the last update is used.
ReadCached(p) ==
  /\ pc[p] = "read"
  /\ \/ /\ Log!Known(job[p], copy[p]) /\ Fine
        /\ copy' = [copy EXCEPT ![p] = Log!Apply(job[p], copy[p])]
        /\ Goto(p, "write")
     \/ /\ (~Log!Known(job[p], copy[p]) /\ Fine) \/ Fault
        /\ Goto(p, "unlock") /\ UNCHANGED copy
  /\ UNCHANGED <<file, lock, job, tries, crashes>>

\* Variant: an unknown bot returns without removing the lock file.
ReadAndReturn(p) ==
  /\ pc[p] = "read"
  /\ \/ /\ Log!Known(job[p], file) /\ Fine
        /\ copy' = [copy EXCEPT ![p] = Log!Apply(job[p], file)]
        /\ Goto(p, "write")
     \/ /\ (~Log!Known(job[p], file) /\ Fine) \/ Fault
        /\ Goto(p, "idle") /\ UNCHANGED copy
  /\ UNCHANGED <<file, lock, job, tries, crashes>>

\* The file is read and changed in memory.  An unknown bot and a file that
\* cannot be read end the update.
Read(p) ==
  /\ pc[p] = "read"
  /\ \/ /\ Log!Known(job[p], file) /\ Fine
        /\ copy' = [copy EXCEPT ![p] = Log!Apply(job[p], file)]
        /\ Goto(p, "write")
     \/ /\ (~Log!Known(job[p], file) /\ Fine) \/ Fault
        /\ Goto(p, "unlock") /\ UNCHANGED copy
  /\ UNCHANGED <<file, lock, job, tries, crashes>>

\* atomic_write: the temporary file becomes the file, or something fails.
Write(p) ==
  /\ pc[p] = "write"
  /\ (file' = copy[p] /\ Fine) \/ (Fault /\ UNCHANGED file)
  /\ Goto(p, "unlock")
  /\ UNCHANGED <<lock, job, copy, tries, crashes>>

\* Variant: the lock file stays when the file could not be read or written.
UnlockAfterWrite(p) ==
  /\ pc[p] = "unlock"
  /\ lock' = (file # copy[p]) /\ Fine
  /\ Goto(p, "idle")
  /\ UNCHANGED <<file, job, copy, tries, crashes>>

\* Whatever came of it the lock file is removed; that it cannot be is ignored.
Unlock(p) ==
  /\ pc[p] = "unlock"
  /\ (lock' = FALSE /\ Fine) \/ (Fault /\ UNCHANGED lock)
  /\ Goto(p, "idle")
  /\ UNCHANGED <<file, job, copy, tries, crashes>>

\* The process dies, and another one may start in its place.
Crash(p) ==
  /\ pc[p] # "idle"
  /\ crashes < MaxCrashes /\ crashes' = crashes + 1
  /\ Goto(p, "idle")
  /\ UNCHANGED <<file, lock, job, copy, tries, faults>>

Work(p) == Acquire(p) \/ Busy(p) \/ AcquireFails(p) \/ Read(p) \/ Write(p) \/ Unlock(p)

Next ==
  \E p \in Procs : Work(p) \/ Crash(p) \/ \E u \in Log!Updates : Call(p, u)

Spec == Init /\ [][Next]_vars

\* A process that is alive goes on.
FairSpec == Spec /\ \A p \in Procs : WF_vars(Work(p))

-----------------------------------------------------------------------------
(* Properties                                                               *)

Inside(p) == pc[p] \in {"read", "write", "unlock"}

\* Two processes are never inside at the same time, whatever crashes and fails.
OneWriter == \A p, r \in Procs : Inside(p) /\ Inside(r) => p = r

\* Every update is applied as a whole, to the contents the one before it left.
Atomic == Log!Spec

\* A lock file nobody holds was left by a crash or by a failed removal: no way
\* out of an update forgets it.
StaleNeedsCrash ==
  lock /\ crashes = 0 /\ faults = 0 => \E p \in Procs : Inside(p)

\* And it does not stay: unless something crashes or fails, it is removed.
LockReleased == lock ~> ~lock \/ crashes + faults > 0
=============================================================================
