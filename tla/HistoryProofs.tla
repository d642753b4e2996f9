---------------------------- MODULE HistoryProofs -----------------------------
(***************************************************************************)
(* Proofs about History, for any processes, records, events and number of  *)
(* attempts: the types, that one process writes at a time, and that the    *)
(* file implements the log of HistoryLog.                                  *)
(***************************************************************************)
EXTENDS History, TLAPS

\* Who is inside has created the lock file, and its copy is the file with its
\* update applied: nobody else can have written in between.
LockHeld == \A p \in Procs : Inside(p) => lock

CopyIsCurrent ==
  \A p \in Procs : pc[p] = "write" =>
    Log!Known(job[p], file) /\ copy[p] = Log!Apply(job[p], file)

IInv == TypeOK /\ LockHeld /\ OneWriter /\ CopyIsCurrent

-----------------------------------------------------------------------------
\* An update applied to contents gives contents.
LEMMA ApplyTyped ==
  ASSUME NEW c \in Log!Contents, NEW u \in Log!Updates
  PROVE  Log!Apply(u, c) \in Log!Contents
BY DEF Log!Contents, Log!Updates, Log!Apply, Log!Manifest

\* No process is inside at first.
LEMMA InitIInv == Init => IInv
<1> SUFFICES ASSUME Init PROVE IInv
  OBVIOUS
<1>1. TypeOK
  <2>1. file \in Log!Contents
    BY DEF Init, Log!Contents
  <2>2. copy \in [Procs -> Log!Contents]
    BY <2>1 DEF Init
  <2>3. /\ lock \in BOOLEAN
        /\ pc \in [Procs -> {"idle", "lock", "read", "write", "unlock"}]
        /\ job \in [Procs -> Log!Updates]
    BY DEF Init
  <2>4. /\ tries \in [Procs -> 0..(Tries - 1)]
        /\ crashes \in 0..MaxCrashes
        /\ faults \in 0..MaxFaults
    BY TriesAssumption, BoundsAssumption DEF Init
  <2> QED
    BY <2>1, <2>2, <2>3, <2>4 DEF TypeOK
<1>2. \A p \in Procs : pc[p] = "idle"
  BY DEF Init
<1> QED
  BY <1>1, <1>2 DEF IInv, LockHeld, OneWriter, CopyIsCurrent, Inside

\* Every step keeps the types.
LEMMA TypeStep == TypeOK /\ [Next]_vars => TypeOK'
<1> SUFFICES ASSUME TypeOK, [Next]_vars PROVE TypeOK'
  OBVIOUS
<1> USE TriesAssumption, BoundsAssumption DEF TypeOK, Goto, Fine, Fault
<1>1. CASE UNCHANGED vars
  BY <1>1 DEF vars
<1>2. ASSUME NEW p \in Procs, NEW u \in Log!Updates, Call(p, u) PROVE TypeOK'
  BY <1>2 DEF Call
<1>3. ASSUME NEW p \in Procs, Acquire(p) PROVE TypeOK'
  BY <1>3 DEF Acquire
<1>4. ASSUME NEW p \in Procs, Busy(p) PROVE TypeOK'
  BY <1>4 DEF Busy
<1>5. ASSUME NEW p \in Procs, AcquireFails(p) PROVE TypeOK'
  BY <1>5 DEF AcquireFails
<1>6. ASSUME NEW p \in Procs, Read(p) PROVE TypeOK'
  <2>1. copy' \in [Procs -> Log!Contents]
    <3>1. Log!Apply(job[p], file) \in Log!Contents
      BY ApplyTyped
    <3> QED
      BY <1>6, <3>1 DEF Read
  <2>2. pc' \in [Procs -> {"idle", "lock", "read", "write", "unlock"}]
    BY <1>6 DEF Read
  <2>3. faults' \in 0..MaxFaults
    BY <1>6 DEF Read
  <2> QED
    BY <1>6, <2>1, <2>2, <2>3 DEF Read
<1>7. ASSUME NEW p \in Procs, Write(p) PROVE TypeOK'
  BY <1>7 DEF Write
<1>8. ASSUME NEW p \in Procs, Unlock(p) PROVE TypeOK'
  <2>1. lock' \in BOOLEAN
    BY <1>8 DEF Unlock
  <2>2. pc' \in [Procs -> {"idle", "lock", "read", "write", "unlock"}]
    BY <1>8 DEF Unlock
  <2>3. faults' \in 0..MaxFaults
    BY <1>8 DEF Unlock
  <2> QED
    BY <1>8, <2>1, <2>2, <2>3 DEF Unlock
<1>9. ASSUME NEW p \in Procs, Crash(p) PROVE TypeOK'
  BY <1>9 DEF Crash
<1> QED
  BY <1>1, <1>2, <1>3, <1>4, <1>5, <1>6, <1>7, <1>8, <1>9 DEF Next, Work

\* Every step keeps the lock: who enters found no lock file and nobody inside,
\* and only the one inside writes the file and removes the lock file.
LEMMA LockStep == IInv /\ [Next]_vars => (LockHeld /\ OneWriter /\ CopyIsCurrent)'
<1> SUFFICES ASSUME IInv, [Next]_vars PROVE (LockHeld /\ OneWriter /\ CopyIsCurrent)'
  OBVIOUS
<1> USE DEF IInv, TypeOK, LockHeld, OneWriter, CopyIsCurrent, Inside, Goto
<1>1. CASE UNCHANGED vars
  BY <1>1 DEF vars
<1>2. ASSUME NEW p \in Procs, NEW u \in Log!Updates, Call(p, u)
      PROVE  (LockHeld /\ OneWriter /\ CopyIsCurrent)'
  BY <1>2 DEF Call
<1>3. ASSUME NEW p \in Procs, Acquire(p)
      PROVE  (LockHeld /\ OneWriter /\ CopyIsCurrent)'
  BY <1>3 DEF Acquire
<1>4. ASSUME NEW p \in Procs, Busy(p)
      PROVE  (LockHeld /\ OneWriter /\ CopyIsCurrent)'
  BY <1>4 DEF Busy
<1>5. ASSUME NEW p \in Procs, AcquireFails(p)
      PROVE  (LockHeld /\ OneWriter /\ CopyIsCurrent)'
  BY <1>5 DEF AcquireFails
<1>6. ASSUME NEW p \in Procs, Read(p)
      PROVE  (LockHeld /\ OneWriter /\ CopyIsCurrent)'
  BY <1>6 DEF Read
<1>7. ASSUME NEW p \in Procs, Write(p)
      PROVE  (LockHeld /\ OneWriter /\ CopyIsCurrent)'
  BY <1>7 DEF Write
<1>8. ASSUME NEW p \in Procs, Unlock(p)
      PROVE  (LockHeld /\ OneWriter /\ CopyIsCurrent)'
  BY <1>8 DEF Unlock
<1>9. ASSUME NEW p \in Procs, Crash(p)
      PROVE  (LockHeld /\ OneWriter /\ CopyIsCurrent)'
  BY <1>9 DEF Crash
<1> QED
  BY <1>1, <1>2, <1>3, <1>4, <1>5, <1>6, <1>7, <1>8, <1>9 DEF Next, Work

\* The inductive invariant holds in every reachable state.
LEMMA Inductive == Spec => []IInv
<1>1. Init => IInv
  BY InitIInv
<1>2. IInv /\ [Next]_vars => IInv'
  BY TypeStep, LockStep DEF IInv
<1> QED
  BY <1>1, <1>2, PTL DEF Spec

-----------------------------------------------------------------------------
\* The types of the variables.
THEOREM TypeCorrect == Spec => []TypeOK
<1>1. IInv => TypeOK
  BY DEF IInv
<1> QED
  BY <1>1, Inductive, PTL

\* with_lock excludes: at most one process is between creating and removing the
\* lock file, whatever crashes and whatever file operation fails.
THEOREM Exclusive == Spec => []OneWriter
<1>1. IInv => OneWriter
  BY DEF IInv
<1> QED
  BY <1>1, Inductive, PTL

-----------------------------------------------------------------------------
\* As long as nothing crashes or fails, whoever made the lock file is inside.
LEMMA StaleStep == IInv /\ StaleNeedsCrash /\ [Next]_vars => StaleNeedsCrash'
<1> SUFFICES ASSUME IInv, StaleNeedsCrash, [Next]_vars, lock', crashes' = 0, faults' = 0
             PROVE  \E r \in Procs : Inside(r)'
  BY DEF StaleNeedsCrash
<1> USE DEF StaleNeedsCrash, IInv, TypeOK, Inside, Goto, Fault, Fine
<1>0. crashes \in Nat /\ faults \in Nat
  BY BoundsAssumption
<1>1. CASE UNCHANGED vars
  BY <1>1 DEF vars
<1>2. ASSUME NEW p \in Procs, NEW u \in Log!Updates, Call(p, u)
      PROVE  \E r \in Procs : Inside(r)'
  BY <1>2 DEF Call
<1>3. ASSUME NEW p \in Procs, Acquire(p) PROVE \E r \in Procs : Inside(r)'
  BY <1>3 DEF Acquire
<1>4. ASSUME NEW p \in Procs, Busy(p) PROVE \E r \in Procs : Inside(r)'
  BY <1>4 DEF Busy
<1>5. ASSUME NEW p \in Procs, AcquireFails(p) PROVE \E r \in Procs : Inside(r)'
  BY <1>0, <1>5 DEF AcquireFails
<1>6. ASSUME NEW p \in Procs, Read(p) PROVE \E r \in Procs : Inside(r)'
  BY <1>6 DEF Read
<1>7. ASSUME NEW p \in Procs, Write(p) PROVE \E r \in Procs : Inside(r)'
  BY <1>7 DEF Write
<1>8. ASSUME NEW p \in Procs, Unlock(p) PROVE \E r \in Procs : Inside(r)'
  BY <1>0, <1>8 DEF Unlock
<1>9. ASSUME NEW p \in Procs, Crash(p) PROVE \E r \in Procs : Inside(r)'
  BY <1>0, <1>9 DEF Crash
<1> QED
  BY <1>1, <1>2, <1>3, <1>4, <1>5, <1>6, <1>7, <1>8, <1>9 DEF Next, Work

\* No way out of an update forgets the lock file: one that nobody holds was left
\* by a crash or by a removal that failed.
THEOREM LockNotForgotten == Spec => []StaleNeedsCrash
<1>1. Init => StaleNeedsCrash
  BY DEF Init, StaleNeedsCrash
<1>2. IInv /\ StaleNeedsCrash /\ [Next]_vars => StaleNeedsCrash'
  BY StaleStep
<1> QED
  BY <1>1, <1>2, Inductive, PTL DEF Spec

-----------------------------------------------------------------------------
\* The file only changes by a rename of the process inside, whose copy is one
\* update of the current contents.
LEMMA StepIsUpdate == IInv /\ [Next]_vars => [Log!Next]_file
<1> SUFFICES ASSUME IInv, [Next]_vars PROVE [Log!Next]_file
  OBVIOUS
<1>1. ASSUME NEW p \in Procs, Write(p) PROVE [Log!Next]_file
  <2>1. CASE UNCHANGED file
    BY <2>1
  <2>2. CASE file' = copy[p]
    <3>1. Log!Known(job[p], file) /\ file' = Log!Apply(job[p], file)
      BY <1>1, <2>2 DEF IInv, CopyIsCurrent, Write
    <3>2. job[p] \in Log!Updates
      BY DEF IInv, TypeOK
    <3> QED
      BY <3>1, <3>2 DEF Log!Next, Log!Update
  <2> QED
    BY <1>1, <2>1, <2>2 DEF Write
<1>2. ASSUME NEW p \in Procs, ~Write(p), Work(p) PROVE UNCHANGED file
  BY <1>2 DEF Work, Acquire, Busy, AcquireFails, Read, Unlock
<1>3. ASSUME NEW p \in Procs, Crash(p) \/ \E u \in Log!Updates : Call(p, u)
      PROVE  UNCHANGED file
  BY <1>3 DEF Crash, Call
<1>4. CASE UNCHANGED vars
  BY <1>4 DEF vars
<1> QED
  BY <1>1, <1>2, <1>3, <1>4 DEF Next, Work

\* The file implements the log: every update that reaches it is applied as a
\* whole to what the ones before it left, and none is lost.
THEOREM ImplementsLog == Spec => Atomic
<1>1. Init => Log!Init
  BY DEF Init, Log!Init
<1>2. IInv /\ [Next]_vars => [Log!Next]_file
  BY StepIsUpdate
<1> QED
  BY <1>1, <1>2, Inductive, PTL DEF Spec, Atomic, Log!Spec
=============================================================================
