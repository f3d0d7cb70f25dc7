------------------------------ MODULE FileLock ------------------------------
(***************************************************************************)
(* Leader election on one host (leader.ts without REDIS_URL): a lock file  *)
(* with the leader's name and a timestamp, read and rewritten under the    *)
(* file mutex.  All of it is synchronous, so a process does nothing else   *)
(* between the start and the end of an election or a release.              *)
(***************************************************************************)
EXTENDS FileMutex

CONSTANTS
  TTL,     \* LOCK_TTL_MS
  Safety,  \* LEASE_SAFETY_MS
  Torn     \* an empty or cut-off lock file

ASSUME LeaseTimes ==
  /\ TTL \in Nat /\ Safety \in Nat /\ Safety < TTL /\ Hold <= TTL
  /\ Torn # None /\ Torn \notin Procs

(* What the lock file says when it is whole; ages count no further than TTL. *)
LockFile == [by : Procs, age : 0..TTL]

ASSUME NoLockFile == None \notin LockFile /\ Torn \notin LockFile

VARIABLES
  lock,      \* LOCK_FILE: its instanceId and age, Torn, or None
  job,       \* what each process is in the mutex for: "elect" or "release"
  step,      \* its next file-system call inside the mutex
  result,    \* what tryAcquireLock() will return
  age,       \* ticks since the election read sentAt
  validFor   \* ticks left before leaseValidUntil; 0 unless leader

lockVars == <<lock, job, step, result, age, validFor>>
vars == <<mutexVars, lockVars>>

(* The timestamp is taken inside the critical section, before the write. *)
Named(p) == {[by |-> p, age |-> t] : t \in 0..(Hold - clock[p])}

Holder(p) == lock \notin {None, Torn} /\ lock.by = p

-----------------------------------------------------------------------------
(* A timer runs an election, or the process shuts down or relinquishes.    *)
StartElection(p) ==
  /\ Begin(p)
  /\ job' = [job EXCEPT ![p] = "elect"]
  /\ step' = [step EXCEPT ![p] = "read"]
  /\ result' = [result EXCEPT ![p] = FALSE]
  /\ age' = [age EXCEPT ![p] = 0]
  /\ UNCHANGED <<lock, validFor>>

StartRelease(p) ==
  /\ Begin(p)
  /\ job' = [job EXCEPT ![p] = "release"]
  /\ step' = [step EXCEPT ![p] = "read"]
  /\ validFor' = [validFor EXCEPT ![p] = 0]
  /\ UNCHANGED <<lock, result, age>>

(* Mutant: a lock is taken over whatever its age. *)
DecisionAnyAge(p) ==
  IF job[p] = "release" THEN IF Holder(p) THEN "remove" ELSE "done"
  ELSE IF lock \in {None, Torn} THEN "create"
  ELSE "write"

(* tryAcquireLockUnlocked() or releaseFileLock() has read the lock file. *)
Decision(p) ==
  IF job[p] = "release" THEN IF Holder(p) THEN "remove" ELSE "done"
  ELSE IF lock \in {None, Torn} THEN "create"
  ELSE IF lock.age < TTL /\ ~Holder(p) THEN "done"
  ELSE "write"

(* One call of the critical section: the lock file and the step after it.  *)
Call(p, now, then, next) ==
  /\ pc[p] = "in" /\ step[p] = now
  /\ lock' = then
  /\ step' = [step EXCEPT ![p] = next]
  /\ UNCHANGED <<mutexVars, job, age, validFor>>

ReadLock(p) ==
  Call(p, "read", lock, Decision(p)) /\ UNCHANGED result

(* tryCreateLockAtomically(): "wx" creates an empty file, then fills it;   *)
(* EEXIST means no.                                                        *)
CreateLock(p) ==
  /\ IF lock = None THEN Call(p, "create", Torn, "fill")
                    ELSE Call(p, "create", lock, "done")
  /\ UNCHANGED result

FillLock(p) ==
  /\ \E l \in Named(p) : Call(p, "fill", l, "done")
  /\ result' = [result EXCEPT ![p] = TRUE]

(* writeLock(): a temporary file and a rename. *)
WriteLock(p) ==
  /\ \E l \in Named(p) : Call(p, "write", l, "done")
  /\ result' = [result EXCEPT ![p] = TRUE]

RemoveLock(p) ==
  Call(p, "remove", None, "done") /\ UNCHANGED result

LeaveSection(p) ==
  /\ Leave(p) /\ step[p] = "done"
  /\ UNCHANGED lockVars

(* tryAcquire() after the mutex, or after failing to get it.               *)
(* Mutant: no safety margin. *)
LeaseNoMargin(p) == TTL - age[p]

Lease(p) == IF TTL - age[p] > Safety THEN TTL - age[p] - Safety ELSE 0

EndJob(p) ==
  /\ validFor' = [validFor EXCEPT ![p] =
       IF pc'[p] = "out" THEN IF job[p] = "elect" /\ result[p] THEN Lease(p) ELSE 0
       ELSE @]
  /\ age' = [age EXCEPT ![p] = IF pc'[p] = "out" THEN 0 ELSE @]
  /\ UNCHANGED <<lock, job, step, result>>

MutexCall(p) == CallStep(p) /\ EndJob(p)

Killed(p) ==
  /\ Kill(p)
  /\ validFor' = [validFor EXCEPT ![p] = 0]
  /\ age' = [age EXCEPT ![p] = 0]
  /\ UNCHANGED <<lock, job, step, result>>

(* Ages count no further than TTL. *)
Tick ==
  /\ MutexTick
  /\ lock' = IF lock \notin {None, Torn} /\ lock.age < TTL
             THEN [lock EXCEPT !.age = @ + 1] ELSE lock
  /\ age' = [p \in Procs |-> IF pc[p] # "out" /\ age[p] < TTL THEN age[p] + 1 ELSE age[p]]
  /\ validFor' = [p \in Procs |-> IF validFor[p] > 0 THEN validFor[p] - 1 ELSE 0]
  /\ UNCHANGED <<job, step, result>>

-----------------------------------------------------------------------------
Init ==
  /\ MutexInit
  /\ lock = None
  /\ job = [p \in Procs |-> "elect"]
  /\ step = [p \in Procs |-> "done"]
  /\ result = [p \in Procs |-> FALSE]
  /\ age = [p \in Procs |-> 0]
  /\ validFor = [p \in Procs |-> 0]

Work(p) ==
  \/ ReadLock(p) \/ CreateLock(p) \/ FillLock(p) \/ WriteLock(p)
  \/ RemoveLock(p) \/ LeaveSection(p) \/ MutexCall(p)

Next ==
  \/ \E p \in Procs :
       StartElection(p) \/ StartRelease(p) \/ Work(p) \/ Killed(p)
  \/ Tick

Spec == Init /\ [][Next]_vars

(* Timers fire, running processes run, time passes. *)
FairSpec ==
  /\ Spec
  /\ WF_vars(Tick)
  /\ \A p \in Procs : WF_vars(StartElection(p)) /\ WF_vars(Work(p))

-----------------------------------------------------------------------------
(* Properties *)

(* Type invariant. *)
TypeOK ==
  /\ MutexTypeOK
  /\ lock \in LockFile \cup {None, Torn}
  /\ job \in [Procs -> {"elect", "release"}]
  /\ step \in [Procs -> {"read", "create", "fill", "write", "remove", "done"}]
  /\ result \in [Procs -> BOOLEAN]
  /\ age \in [Procs -> 0..TTL]
  /\ validFor \in [Procs -> 0..(TTL - Safety)]

(* isLeader() is asked only between elections, which block the process. *)
IsLeader(p) == pc[p] = "out" /\ validFor[p] > 0

(* Whoever may act as leader has its name in the lock file, young enough   *)
(* that nobody takes it over before the leader's own deadline: so two      *)
(* processes never act at once, however long an election waited for the    *)
(* mutex and wherever a process was killed, as long as the mutex excludes. *)
LeaderNamedInLock ==
  \A p \in Procs :
    IsLeader(p) => Holder(p) /\ lock.age + validFor[p] + Safety <= TTL

Busy(p, with) == job[p] = with /\ pc[p] # "out"

(* A node killed in the middle of an election, or of breaking a stale      *)
(* mutex, does not keep the others from winning elections for good, once   *)
(* nodes no longer release - unless it died between creating the lock file *)
(* and filling it: that file is never replaced, although leader.ts:158     *)
(* says "Corrupted lock - try to take over".                               *)
ElectionsAreWon ==
  \/ []<>(\E p \in Procs : Busy(p, "release"))
  \/ <>[](lock = Torn)
  \/ []<>(\E p \in Procs : Busy(p, "elect") /\ result[p])
=============================================================================
