----------------------------- MODULE FileMutex -----------------------------
(***************************************************************************)
(* withFileMutex() of oracle-worker/src/fileMutex.ts: a critical section   *)
(* guarded by an exclusively created file, which other processes break     *)
(* when it looks abandoned.  Every file-system call is a step of its own;  *)
(* processes may be killed between any two of them.                        *)
(*                                                                         *)
(* A file is known by the call that created it.  A call that is over, or   *)
(* whose process was killed, leaves its file behind as one by None.        *)
(***************************************************************************)
EXTENDS Integers, FiniteSets

CONSTANTS
  Procs,       \* processes sharing the file system
  Stale,       \* staleMs: age at which a file counts as abandoned
  Timeout,     \* timeoutMs: how long a call tries
  Hold,        \* how long a critical section takes at most
  MaxCrashes,  \* bound: processes killed inside a call
  None

ASSUME Times ==
  /\ Stale \in Nat /\ Timeout \in Nat /\ Hold \in Nat /\ MaxCrashes \in Nat
  /\ Hold < Stale
  /\ None \notin Procs

VARIABLES
  mutex,    \* the file `${target}.mutex', or None
  grave,    \* the file each breaker has renamed aside, or None
  pc,       \* the next call of each process; "out" between calls
  clock,    \* ticks left to the deadline, or of the critical section
  crashes   \* processes killed so far

mutexVars == <<mutex, grave, pc, clock, crashes>>

Breaking == {"stat", "rename", "check", "link", "bury"}
Inside   == {"in", "compare", "unlink"}
Labels   == {"out", "create", "wait"} \cup Breaking \cup Inside

File == [by : Procs \cup {None}, age : 0..Stale]

ASSUME NoneIsNoFile == None \notin File

Fresh(f) == f.age < Stale

Goto(p, label) == pc' = [pc EXCEPT ![p] = label]

(* The files of a call that is over are nobody's. *)
Disown(f, p) == IF f # None /\ f.by = p THEN [f EXCEPT !.by = None] ELSE f

-----------------------------------------------------------------------------
Begin(p) ==
  /\ pc[p] = "out"
  /\ Goto(p, "create")
  /\ clock' = [clock EXCEPT ![p] = Timeout]
  /\ UNCHANGED <<mutex, grave, crashes>>

(* Mutant: the file is opened without O_EXCL. *)
CreateAnyway(p) ==
  /\ pc[p] = "create"
  /\ mutex' = [by |-> p, age |-> 0]
  /\ clock' = [clock EXCEPT ![p] = Hold]
  /\ Goto(p, "in")
  /\ UNCHANGED <<grave, crashes>>

(* writeFileSync with flag "wx" *)
Create(p) ==
  /\ pc[p] = "create"
  /\ IF mutex = None
     THEN /\ mutex' = [by |-> p, age |-> 0]
          /\ clock' = [clock EXCEPT ![p] = Hold]
          /\ Goto(p, "in")
     ELSE Goto(p, "stat") /\ UNCHANGED <<mutex, clock>>
  /\ UNCHANGED <<grave, crashes>>

(* Mutant: a file is never taken for abandoned. *)
StatNeverStale(p) ==
  /\ pc[p] = "stat"
  /\ Goto(p, "wait")
  /\ UNCHANGED <<mutex, grave, clock, crashes>>

(* breakIfStale(): look at the age, rename, look again, put it back. *)
Stat(p) ==
  /\ pc[p] = "stat"
  /\ Goto(p, IF mutex = None \/ Fresh(mutex) THEN "wait" ELSE "rename")
  /\ UNCHANGED <<mutex, grave, clock, crashes>>

Rename(p) ==
  /\ pc[p] = "rename"
  /\ grave' = [grave EXCEPT ![p] = mutex]
  /\ mutex' = None
  /\ Goto(p, IF mutex = None THEN "wait" ELSE "check")
  /\ UNCHANGED <<clock, crashes>>

Check(p) ==
  /\ pc[p] = "check"
  /\ Goto(p, IF Fresh(grave[p]) THEN "link" ELSE "bury")
  /\ UNCHANGED <<mutex, grave, clock, crashes>>

Link(p) ==
  /\ pc[p] = "link"
  /\ mutex' = IF mutex = None THEN grave[p] ELSE mutex
  /\ Goto(p, "bury")
  /\ UNCHANGED <<grave, clock, crashes>>

Bury(p) ==
  /\ pc[p] = "bury"
  /\ grave' = [grave EXCEPT ![p] = None]
  /\ Goto(p, "wait")
  /\ UNCHANGED <<mutex, clock, crashes>>

(* The deadline, then sleepSync() and another attempt. *)
Retry(p) ==
  /\ pc[p] = "wait"
  /\ Goto(p, IF clock[p] = 0 THEN "out" ELSE "create")
  /\ UNCHANGED <<mutex, grave, clock, crashes>>

(* fn() is over; `finally' compares the token and unlinks. *)
Leave(p) ==
  /\ pc[p] = "in"
  /\ Goto(p, "compare")
  /\ UNCHANGED <<mutex, grave, clock, crashes>>

(* Every name of a file that p created and no longer owns. *)
EndCall(p, m) ==
  /\ mutex' = Disown(m, p)
  /\ grave' = [q \in Procs |-> IF q = p THEN None ELSE Disown(grave[q], p)]
  /\ Goto(p, "out")

Compare(p) ==
  /\ pc[p] = "compare"
  /\ IF mutex # None /\ mutex.by = p
     THEN Goto(p, "unlink") /\ UNCHANGED <<mutex, grave>>
     ELSE EndCall(p, mutex)
  /\ UNCHANGED <<clock, crashes>>

Unlink(p) ==
  /\ pc[p] = "unlink"
  /\ EndCall(p, None)
  /\ UNCHANGED <<clock, crashes>>

(* The process is killed; it may come back and call again. *)
Kill(p) ==
  /\ pc[p] # "out"
  /\ crashes < MaxCrashes
  /\ crashes' = crashes + 1
  /\ EndCall(p, mutex)
  /\ UNCHANGED clock

(* Critical sections take milliseconds: they end before Hold is over. *)
Older(f) == IF f # None /\ Fresh(f) THEN [f EXCEPT !.age = @ + 1] ELSE f

MutexTick ==
  /\ \A p \in Procs : pc[p] \in Inside => clock[p] > 0
  /\ mutex' = Older(mutex)
  /\ grave' = [p \in Procs |-> Older(grave[p])]
  /\ clock' = [p \in Procs |-> IF clock[p] > 0 THEN clock[p] - 1 ELSE 0]
  /\ UNCHANGED <<pc, crashes>>

-----------------------------------------------------------------------------
MutexInit ==
  /\ mutex = None
  /\ grave = [p \in Procs |-> None]
  /\ pc = [p \in Procs |-> "out"]
  /\ clock = [p \in Procs |-> 0]
  /\ crashes = 0

CallStep(p) ==
  \/ Create(p) \/ Stat(p) \/ Rename(p) \/ Check(p) \/ Link(p) \/ Bury(p)
  \/ Retry(p) \/ Compare(p) \/ Unlink(p)

MutexNext ==
  \/ \E p \in Procs : Begin(p) \/ CallStep(p) \/ Leave(p) \/ Kill(p)
  \/ MutexTick

MutexSpec == MutexInit /\ [][MutexNext]_mutexVars

-----------------------------------------------------------------------------
(* Properties *)

(* Type invariant. *)
MutexTypeOK ==
  /\ mutex \in File \cup {None}
  /\ grave \in [Procs -> File \cup {None}]
  /\ pc \in [Procs -> Labels]
  /\ clock \in [Procs -> 0..Timeout \cup 0..Hold]
  /\ crashes \in 0..MaxCrashes

(* "so only one process holds it at a time" (fileMutex.ts:7): no two      *)
(* processes are inside critical sections on one target.                   *)
MutualExclusion ==
  \A p, q \in Procs : pc[p] \in Inside /\ pc[q] \in Inside => p = q

(* It does hold as long as no process has been killed inside a call: no    *)
(* live holder's file ever looks abandoned, however long the others wait,  *)
(* time out and come back.                                                 *)
ExclusionUntilKill == crashes = 0 => MutualExclusion
=============================================================================
