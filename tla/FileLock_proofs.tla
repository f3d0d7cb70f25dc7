--------------------------- MODULE FileLock_proofs ---------------------------
(***************************************************************************)
(* The file backend of the election, for any number of processes, any TTL, *)
(* safety margin and deadlines: first the mutex (FileMutex), then the lock *)
(* file it guards (FileLock).                                              *)
(*                                                                         *)
(* The mutex excludes until a process is killed inside a call.  The lock   *)
(* file's processes move it as FileMutex says, so its theorems hold there. *)
(* An acting leader is named in the lock file for as long as the mutex     *)
(* excludes: the invariant says what a process inside the critical section *)
(* knows of the file it has read, which is why its next call is safe.      *)
(***************************************************************************)
EXTENDS FileLock, TLAPS

-----------------------------------------------------------------------------
(* The mutex *)

(* A file at the mutex's path belongs to a process that is inside and will *)
(* leave before the file can count as abandoned; a process that is inside  *)
(* has its file there; nobody is breaking anything.                        *)
FileOfHolder ==
  mutex # None =>
    /\ mutex.by \in Procs
    /\ pc[mutex.by] \in Inside
    /\ mutex.age + clock[mutex.by] <= Hold

HolderHasFile ==
  \A p \in Procs : pc[p] \in Inside => mutex # None /\ mutex.by = p

NobodyBreaks ==
  \A p \in Procs : pc[p] \notin Breaking \ {"stat"} /\ grave[p] = None

Undisturbed == FileOfHolder /\ HolderHasFile /\ NobodyBreaks

IInv == MutexTypeOK /\ (crashes = 0 => Undisturbed)

LEMMA InitInv == MutexInit => IInv
<1> SUFFICES ASSUME MutexInit PROVE IInv
  OBVIOUS
<1>1. MutexTypeOK
  BY Times DEF MutexInit, MutexTypeOK, Labels
<1>2. Undisturbed
  BY DEF MutexInit, Undisturbed, FileOfHolder, HolderHasFile, NobodyBreaks, Inside, Breaking
<1>. QED BY <1>1, <1>2 DEF IInv

(* The type invariant. *)
LEMMA DisownType ==
  ASSUME NEW f \in File \cup {None}, NEW p \in Procs
  PROVE  Disown(f, p) \in File \cup {None}
BY DEF Disown, File

LEMMA OlderType ==
  ASSUME NEW f \in File \cup {None}
  PROVE  Older(f) \in File \cup {None}
BY Times DEF Older, Fresh, File

LEMMA EndCallType ==
  ASSUME MutexTypeOK, NEW p \in Procs, NEW m \in File \cup {None}, EndCall(p, m)
  PROVE  /\ mutex' \in File \cup {None}
         /\ grave' \in [Procs -> File \cup {None}]
         /\ pc' \in [Procs -> Labels]
BY DisownType DEF MutexTypeOK, EndCall, Goto, Labels

LEMMA NextType == MutexTypeOK /\ [MutexNext]_mutexVars => MutexTypeOK'
<1> SUFFICES ASSUME MutexTypeOK, [MutexNext]_mutexVars PROVE MutexTypeOK'
  OBVIOUS
<1> USE DEF MutexTypeOK
<1>1. ASSUME NEW p \in Procs, Begin(p) PROVE MutexTypeOK'
  BY <1>1, Times DEF Begin, Goto, Labels
<1>2. ASSUME NEW p \in Procs, Create(p) PROVE MutexTypeOK'
  <2>1. [by |-> p, age |-> 0] \in File /\ Hold \in 0..Timeout \cup 0..Hold
    BY Times DEF File
  <2>. QED BY <1>2, <2>1 DEF Create, Goto, Labels, Breaking, Inside
<1>3. ASSUME NEW p \in Procs, Stat(p) \/ Rename(p) \/ Check(p) \/ Link(p) \/ Bury(p)
      PROVE  MutexTypeOK'
  BY <1>3 DEF Stat, Rename, Check, Link, Bury, Goto, Labels, Breaking
<1>4. ASSUME NEW p \in Procs, Retry(p) \/ Leave(p) PROVE MutexTypeOK'
  BY <1>4 DEF Retry, Leave, Goto, Labels, Inside
<1>5. ASSUME NEW p \in Procs, Compare(p) PROVE MutexTypeOK'
  BY <1>5, EndCallType DEF Compare, Goto, Labels, Inside
<1>6. ASSUME NEW p \in Procs, Unlink(p) PROVE MutexTypeOK'
  BY <1>6, EndCallType DEF Unlink
<1>7. ASSUME NEW p \in Procs, Kill(p) PROVE MutexTypeOK'
  <2>1. crashes' \in 0..MaxCrashes
    BY <1>7, Times DEF Kill
  <2>. QED BY <1>7, <2>1, EndCallType DEF Kill
<1>8. ASSUME MutexTick PROVE MutexTypeOK'
  <2>1. mutex' \in File \cup {None} /\ grave' \in [Procs -> File \cup {None}]
    BY <1>8, OlderType DEF MutexTick
  <2>2. \A i \in 0..Timeout \cup 0..Hold :
          (IF i > 0 THEN i - 1 ELSE 0) \in 0..Timeout \cup 0..Hold
    BY Times
  <2>3. clock' \in [Procs -> 0..Timeout \cup 0..Hold]
    BY <1>8, <2>2 DEF MutexTick
  <2>. QED BY <1>8, <2>1, <2>3 DEF MutexTick
<1>9. ASSUME UNCHANGED mutexVars PROVE MutexTypeOK'
  BY <1>9 DEF mutexVars
<1>. QED
  BY <1>1, <1>2, <1>3, <1>4, <1>5, <1>6, <1>7, <1>8, <1>9 DEF MutexNext, CallStep

(* While nobody has been killed, every step leaves the mutex undisturbed.  *)
LEMMA NextUndisturbed ==
  ASSUME MutexTypeOK, Undisturbed, crashes = 0, crashes' = 0, [MutexNext]_mutexVars
  PROVE  Undisturbed'
<1> USE DEF MutexTypeOK, Undisturbed, FileOfHolder, HolderHasFile, NobodyBreaks,
            Inside, Breaking
<1>1. ASSUME NEW p \in Procs, Begin(p) PROVE Undisturbed'
  BY <1>1 DEF Begin, Goto
<1>2. ASSUME NEW p \in Procs, Create(p) PROVE Undisturbed'
  <2>1. CASE mutex = None
    <3>1. /\ mutex' = [by |-> p, age |-> 0] /\ grave' = grave
          /\ pc' = [pc EXCEPT ![p] = "in"] /\ clock' = [clock EXCEPT ![p] = Hold]
      BY <1>2, <2>1 DEF Create, Goto
    <3>2. mutex' # None
      BY <3>1, NoneIsNoFile, Times DEF File
    <3>. QED BY <2>1, <3>1, <3>2, Times
  <2>2. CASE mutex # None
    BY <1>2, <2>2 DEF Create, Goto
  <2>. QED BY <2>1, <2>2
<1>3. ASSUME NEW p \in Procs, Stat(p) PROVE Undisturbed'
  <2>1. mutex # None => Fresh(mutex)
    BY Times DEF Fresh, File
  <2>2. pc' = [pc EXCEPT ![p] = "wait"] /\ UNCHANGED <<mutex, grave, clock>>
    BY <1>3, <2>1 DEF Stat, Goto
  <2>. QED BY <1>3, <2>2 DEF Stat
<1>4. ASSUME NEW p \in Procs, Rename(p) \/ Check(p) \/ Link(p) \/ Bury(p)
      PROVE  Undisturbed'
  BY <1>4 DEF Rename, Check, Link, Bury
<1>5. ASSUME NEW p \in Procs, Retry(p) \/ Leave(p) PROVE Undisturbed'
  BY <1>5 DEF Retry, Leave, Goto
<1>6. ASSUME NEW p \in Procs, Compare(p) PROVE Undisturbed'
  <2>1. mutex # None /\ mutex.by = p
    BY <1>6 DEF Compare
  <2>. QED BY <1>6, <2>1 DEF Compare, Goto
<1>7. ASSUME NEW p \in Procs, Unlink(p) PROVE Undisturbed'
  <2>1. /\ mutex' = None /\ pc' = [pc EXCEPT ![p] = "out"]
        /\ grave' = [q \in Procs |-> None]
    BY <1>7 DEF Unlink, EndCall, Goto, Disown
  <2>2. \A q \in Procs : q # p => pc[q] \notin Inside
    BY <1>7 DEF Unlink
  <2>. QED BY <2>1, <2>2
<1>8. ASSUME NEW p \in Procs, Kill(p) PROVE Undisturbed'
  BY <1>8 DEF Kill
<1>9. ASSUME MutexTick PROVE Undisturbed'
  <2>1. UNCHANGED pc /\ grave' = [p \in Procs |-> None]
    BY <1>9 DEF MutexTick, Older
  <2>2. CASE mutex = None
    BY <1>9, <2>1, <2>2 DEF MutexTick, Older
  <2>3. CASE mutex # None
    <3>1. mutex.by \in Procs /\ clock[mutex.by] > 0 /\ Fresh(mutex)
      BY <1>9, <2>3, Times DEF MutexTick, Fresh, File
    <3>2. mutex' = [mutex EXCEPT !.age = @ + 1]
      BY <1>9, <2>3, <3>1 DEF MutexTick, Older
    <3>3. clock'[mutex.by] = clock[mutex.by] - 1
      BY <1>9, <3>1 DEF MutexTick
    <3>4. mutex' # None /\ mutex'.by = mutex.by /\ mutex'.age = mutex.age + 1
      BY <2>3, <3>1, <3>2, NoneIsNoFile, Times DEF File, Fresh
    <3>5. mutex.age \in Nat /\ clock[mutex.by] \in Nat
      BY <2>3, <3>1, Times DEF File
    <3>6. FileOfHolder'
      BY <2>1, <2>3, <3>1, <3>3, <3>4, <3>5, Times
    <3>7. HolderHasFile' /\ NobodyBreaks'
      BY <2>1, <3>4
    <3>. QED BY <3>6, <3>7
  <2>. QED BY <2>2, <2>3
<1>10. ASSUME UNCHANGED mutexVars PROVE Undisturbed'
  BY <1>10 DEF mutexVars
<1>. QED
  BY <1>1, <1>2, <1>3, <1>4, <1>5, <1>6, <1>7, <1>8, <1>9, <1>10 DEF MutexNext, CallStep

(* Kills are only counted up. *)
LEMMA CrashesGrow ==
  MutexTypeOK /\ [MutexNext]_mutexVars /\ crashes' = 0 => crashes = 0
BY Times DEF MutexTypeOK, MutexNext, CallStep, Begin, Create, Stat, Rename, Check,
   Link, Bury, Retry, Leave, Compare, Unlink, Kill, MutexTick, mutexVars

LEMMA Inductive == MutexSpec => []IInv
<1>1. IInv /\ [MutexNext]_mutexVars => IInv'
  <2> SUFFICES ASSUME IInv, [MutexNext]_mutexVars PROVE IInv'
    OBVIOUS
  <2>1. MutexTypeOK'
    BY NextType DEF IInv
  <2>2. crashes' = 0 => Undisturbed'
    BY CrashesGrow, NextUndisturbed DEF IInv
  <2>. QED BY <2>1, <2>2 DEF IInv
<1>. QED
  BY <1>1, InitInv, PTL DEF MutexSpec

(* Type correctness of the mutex, whoever is killed. *)
THEOREM MutexTypeCorrect == MutexSpec => []MutexTypeOK
<1>1. IInv => MutexTypeOK
  BY DEF IInv
<1>. QED BY <1>1, Inductive, PTL

(* Until a process is killed inside a call, critical sections exclude one  *)
(* another, for any number of processes and whatever the deadlines.        *)
THEOREM ExclusiveUntilKill == MutexSpec => []ExclusionUntilKill
<1>1. IInv => ExclusionUntilKill
  BY DEF IInv, Undisturbed, HolderHasFile, MutualExclusion, ExclusionUntilKill
<1>. QED BY <1>1, Inductive, PTL

(* Two processes and one kill: the file of a process that is inside is at  *)
(* the mutex's path, or the other has it in its grave and will find it     *)
(* fresh and put it back before it creates one itself.  A third process    *)
(* could create one meanwhile, and a second kill could hit the breaker.    *)
AtMostTwo == \A p, q, r \in Procs : p = q \/ p = r \/ q = r

InPlace(p) == mutex # None /\ mutex.by = p /\ mutex.age + clock[p] <= Hold

Aside(p) ==
  \E q \in Procs \ {p} :
    /\ mutex = None /\ grave[q] # None /\ grave[q].by = p
    /\ grave[q].age + clock[p] <= Hold
    /\ pc[q] \in {"check", "link"}

Held(p) == pc[p] \in Inside => InPlace(p) \/ Aside(p)

Buries(p) == grave[p] # None <=> pc[p] \in {"check", "link", "bury"}

TwoInv == \A p \in Procs : Held(p) /\ Buries(p)

LEMMA UndisturbedIsHeld == ASSUME MutexTypeOK, Undisturbed PROVE TwoInv
BY DEF Undisturbed, FileOfHolder, HolderHasFile, NobodyBreaks, TwoInv, Held, InPlace, Buries,
   Breaking, Inside, MutexTypeOK

LEMMA HeldExcludes ==
  ASSUME AtMostTwo, TwoInv, NEW p \in Procs, NEW q \in Procs,
         pc[p] \in Inside, pc[q] \in Inside
  PROVE  p = q
BY DEF AtMostTwo, TwoInv, Held, InPlace, Aside, Inside

(* A step of p that moves neither the mutex nor a grave nor the clock of   *)
(* the other, and neither begins nor ends a critical section.              *)
LEMMA QuietStep ==
  ASSUME AtMostTwo, MutexTypeOK, TwoInv, NEW p \in Procs, UNCHANGED <<mutex, grave>>,
         \A q \in Procs \ {p} : pc'[q] = pc[q] /\ clock'[q] = clock[q],
         pc'[p] \in Inside => pc[p] \in Inside /\ clock'[p] = clock[p],
         pc[p] = "check" => pc'[p] \in {"link", "bury"},
         pc[p] = "check" /\ Fresh(grave[p]) => pc'[p] = "link",
         pc[p] # "check" => (pc'[p] \notin {"check", "link", "bury"} /\
                             pc[p] \notin {"check", "link", "bury"})
  PROVE  TwoInv'
<1>1. \A q \in Procs : Buries(q)'
  BY DEF TwoInv, Buries
<1>2. ASSUME NEW q \in Procs PROVE Held(q)'
  <2>1. CASE pc'[q] \notin Inside
    BY <2>1 DEF Held
  <2>2. CASE pc'[q] \in Inside
    <3>1. pc[q] \in Inside /\ clock'[q] = clock[q]
      BY <2>2
    <3>2. CASE InPlace(q)
      BY <3>1, <3>2 DEF Held, InPlace
    <3>3. CASE Aside(q)
      <4>1. PICK r \in Procs \ {q} :
              /\ mutex = None /\ grave[r] # None /\ grave[r].by = q
              /\ grave[r].age + clock[q] <= Hold
              /\ pc[r] \in {"check", "link"}
        BY <3>3 DEF Aside
      <4>2. clock[q] \in Nat /\ grave[r].age \in Nat
        BY <4>1, Times DEF MutexTypeOK, File
      <4>3. Fresh(grave[r])
        BY <4>1, <4>2, Times DEF Fresh
      <4>4. pc'[r] \in {"check", "link"}
        BY <4>1, <4>3
      <4>5. Aside(q)'
        BY <3>1, <4>1, <4>4 DEF Aside
      <4>. QED BY <4>5 DEF Held
    <3>. QED BY <3>1, <3>2, <3>3 DEF TwoInv, Held
  <2>. QED BY <2>1, <2>2
<1>. QED BY <1>1, <1>2 DEF TwoInv

(* A call of p ends: nobody else is inside, or p's end leaves its file.    *)
LEMMA EndStep ==
  ASSUME AtMostTwo, MutexTypeOK, TwoInv, NEW p \in Procs, NEW m, EndCall(p, m),
         UNCHANGED clock, \A q \in Procs \ {p} : pc[q] \notin Inside
  PROVE  TwoInv'
<1>1. pc' = [pc EXCEPT ![p] = "out"]
  BY DEF EndCall, Goto
<1>2. \A q \in Procs : pc'[q] \notin Inside
  BY <1>1 DEF MutexTypeOK, Inside
<1>3. \A f \in File : Disown(f, p) # None
  <2>1. \A f \in File : Disown(f, p) \in File
    BY DEF Disown, File
  <2>. QED BY <2>1, NoneIsNoFile
<1>4. /\ grave'[p] = None
      /\ \A q \in Procs \ {p} : grave'[q] # None <=> grave[q] # None
  BY <1>3 DEF EndCall, MutexTypeOK, Disown
<1>5. \A q \in Procs : Buries(q)'
  BY <1>1, <1>4 DEF TwoInv, Buries, MutexTypeOK
<1>. QED BY <1>2, <1>5 DEF TwoInv, Held

LEMMA TwoNext ==
  ASSUME AtMostTwo, MutexTypeOK, MutexTypeOK', TwoInv, [MutexNext]_mutexVars,
         crashes' = crashes
  PROVE  TwoInv'
<1>1. ASSUME NEW p \in Procs, Begin(p) PROVE TwoInv'
  BY <1>1, QuietStep DEF Begin, Goto, MutexTypeOK, Inside
<1>2. ASSUME NEW p \in Procs, Create(p) PROVE TwoInv'
  <2>1. CASE mutex = None
    <3>1. /\ mutex' = [by |-> p, age |-> 0] /\ grave' = grave /\ pc[p] = "create"
          /\ pc' = [pc EXCEPT ![p] = "in"] /\ clock' = [clock EXCEPT ![p] = Hold]
      BY <1>2, <2>1 DEF Create, Goto
    <3>2. \A q \in Procs \ {p} : pc[q] \notin Inside
      BY <2>1, <3>1 DEF AtMostTwo, TwoInv, Held, InPlace, Aside
    <3>3. mutex' # None
      BY <3>1, NoneIsNoFile, Times DEF File
    <3>4. InPlace(p)'
      BY <3>1, <3>3, Times DEF InPlace, MutexTypeOK
    <3>5. \A q \in Procs : Held(q)'
      BY <3>1, <3>2, <3>4 DEF Held, MutexTypeOK
    <3>6. \A q \in Procs : Buries(q)'
      BY <3>1 DEF TwoInv, Buries, MutexTypeOK
    <3>. QED BY <3>5, <3>6 DEF TwoInv
  <2>2. CASE mutex # None
    BY <1>2, <2>2, QuietStep DEF Create, Goto, MutexTypeOK, Inside
  <2>. QED BY <2>1, <2>2
<1>3. ASSUME NEW p \in Procs, Stat(p) \/ Retry(p) \/ Leave(p) PROVE TwoInv'
  BY <1>3, QuietStep DEF Stat, Retry, Leave, Goto, MutexTypeOK, Inside
<1>4. ASSUME NEW p \in Procs, Check(p) PROVE TwoInv'
  BY <1>4, QuietStep DEF Check, Goto, MutexTypeOK, Inside
<1>5. ASSUME NEW p \in Procs, Rename(p) PROVE TwoInv'
  <2>1. /\ pc[p] = "rename" /\ mutex' = None /\ clock' = clock
        /\ grave' = [grave EXCEPT ![p] = mutex]
        /\ pc' = [pc EXCEPT ![p] = IF mutex = None THEN "wait" ELSE "check"]
    BY <1>5 DEF Rename, Goto
  <2>2. \A q \in Procs : Buries(q)'
    BY <2>1 DEF TwoInv, Buries, MutexTypeOK
  <2>3. ASSUME NEW q \in Procs, pc'[q] \in Inside PROVE Held(q)'
    <3>1. q # p /\ pc[q] \in Inside
      BY <2>1, <2>3 DEF MutexTypeOK, Inside
    <3>2. ~Aside(q)
      BY <2>1, <3>1 DEF AtMostTwo, Aside
    <3>3. InPlace(q)
      BY <3>1, <3>2 DEF TwoInv, Held
    <3>4. Aside(q)'
      BY <2>1, <3>1, <3>3 DEF InPlace, Aside, MutexTypeOK
    <3>. QED BY <3>4 DEF Held
  <2>. QED BY <2>2, <2>3 DEF TwoInv, Held
<1>6. ASSUME NEW p \in Procs, Link(p) PROVE TwoInv'
  <2>1. /\ pc[p] = "link" /\ UNCHANGED <<grave, clock>>
        /\ mutex' = IF mutex = None THEN grave[p] ELSE mutex
        /\ pc' = [pc EXCEPT ![p] = "bury"]
    BY <1>6 DEF Link, Goto
  <2>2. \A q \in Procs : Buries(q)'
    BY <2>1 DEF TwoInv, Buries, MutexTypeOK
  <2>3. ASSUME NEW q \in Procs, pc'[q] \in Inside PROVE Held(q)'
    <3>1. q # p /\ pc[q] \in Inside
      BY <2>1, <2>3 DEF MutexTypeOK, Inside
    <3>2. InPlace(q)'
      BY <2>1, <3>1 DEF AtMostTwo, TwoInv, Held, InPlace, Aside
    <3>. QED BY <3>2 DEF Held
  <2>. QED BY <2>2, <2>3 DEF TwoInv, Held
<1>7. ASSUME NEW p \in Procs, Bury(p) PROVE TwoInv'
  <2>1. /\ pc[p] = "bury" /\ UNCHANGED <<mutex, clock>>
        /\ grave' = [grave EXCEPT ![p] = None]
        /\ pc' = [pc EXCEPT ![p] = "wait"]
    BY <1>7 DEF Bury, Goto
  <2>2. \A q \in Procs : Buries(q)'
    BY <2>1 DEF TwoInv, Buries, MutexTypeOK
  <2>3. ASSUME NEW q \in Procs, pc'[q] \in Inside PROVE Held(q)'
    <3>1. q # p /\ pc[q] \in Inside
      BY <2>1, <2>3 DEF MutexTypeOK, Inside
    <3>2. InPlace(q)'
      BY <2>1, <3>1 DEF AtMostTwo, TwoInv, Held, InPlace, Aside
    <3>. QED BY <3>2 DEF Held
  <2>. QED BY <2>2, <2>3 DEF TwoInv, Held
<1>8. ASSUME NEW p \in Procs, Compare(p) PROVE TwoInv'
  <2>1. \A q \in Procs \ {p} : pc[q] \notin Inside
    BY <1>8, HeldExcludes DEF Compare, Inside
  <2>2. CASE EndCall(p, mutex)
    BY <1>8, <2>1, <2>2, EndStep DEF Compare
  <2>3. CASE Goto(p, "unlink") /\ UNCHANGED <<mutex, grave>>
    BY <1>8, <2>3, QuietStep DEF Compare, Goto, MutexTypeOK, Inside
  <2>. QED BY <1>8, <2>2, <2>3 DEF Compare
<1>9. ASSUME NEW p \in Procs, Unlink(p) PROVE TwoInv'
  <2>1. \A q \in Procs \ {p} : pc[q] \notin Inside
    BY <1>9, HeldExcludes DEF Unlink, Inside
  <2>. QED BY <1>9, <2>1, EndStep DEF Unlink
<1>10. ASSUME MutexTick PROVE TwoInv'
  <2>1. /\ UNCHANGED pc /\ mutex' = Older(mutex)
        /\ \A p \in Procs : grave'[p] = Older(grave[p])
        /\ \A p \in Procs : pc[p] \in Inside => clock[p] > 0 /\ clock'[p] = clock[p] - 1
    BY <1>10 DEF MutexTick
  <2>2. \A f \in File \cup {None} : Older(f) = None <=> f = None
    <3>1. \A f \in File : Older(f) \in File
      BY OlderType, NoneIsNoFile, Times DEF Older, Fresh, File
    <3>2. Older(None) = None
      BY DEF Older
    <3>. QED BY <3>1, <3>2, NoneIsNoFile
  <2>3. ASSUME NEW f \in File, NEW i \in Nat, f.age + i <= Hold, i > 0
        PROVE  Older(f).by = f.by /\ Older(f).age + (i - 1) <= Hold
    <3>1. f.age \in Nat /\ Older(f).by = f.by /\ Older(f).age \in {f.age, f.age + 1}
      BY Times DEF Older, Fresh, File
    <3>. QED BY <2>3, <3>1, Times
  <2>4. \A p \in Procs : Buries(p)'
    BY <2>1, <2>2 DEF TwoInv, Buries, MutexTypeOK
  <2>5. ASSUME NEW q \in Procs, pc'[q] \in Inside PROVE Held(q)'
    <3>1. pc[q] \in Inside /\ clock[q] > 0 /\ clock'[q] = clock[q] - 1 /\ clock[q] \in Nat
      BY <2>1, <2>5, Times DEF MutexTypeOK
    <3>2. CASE InPlace(q)
      <4>1. mutex \in File /\ mutex.by = q /\ mutex.age + clock[q] <= Hold
        BY <3>2 DEF InPlace, MutexTypeOK
      <4>2. Older(mutex).by = q /\ Older(mutex).age + (clock[q] - 1) <= Hold
        BY <2>3, <3>1, <4>1
      <4>3. InPlace(q)'
        BY <2>1, <2>2, <3>1, <4>1, <4>2, NoneIsNoFile DEF InPlace
      <4>. QED BY <4>3 DEF Held
    <3>3. CASE Aside(q)
      <4>1. PICK r \in Procs \ {q} :
              /\ mutex = None /\ grave[r] # None /\ grave[r].by = q
              /\ grave[r].age + clock[q] <= Hold
              /\ pc[r] \in {"check", "link"}
        BY <3>3 DEF Aside
      <4>2. grave[r] \in File
        BY <4>1 DEF MutexTypeOK
      <4>3. Older(grave[r]).by = q /\ Older(grave[r]).age + (clock[q] - 1) <= Hold
        BY <2>3, <3>1, <4>1, <4>2
      <4>4. /\ mutex' = None /\ grave'[r] # None /\ grave'[r].by = q
            /\ grave'[r].age + clock'[q] <= Hold /\ pc'[r] \in {"check", "link"}
        BY <2>1, <2>2, <3>1, <4>1, <4>2, <4>3
      <4>5. Aside(q)'
        BY <4>4 DEF Aside
      <4>. QED BY <4>5 DEF Held
    <3>. QED BY <3>1, <3>2, <3>3 DEF TwoInv, Held
  <2>. QED BY <2>4, <2>5 DEF TwoInv, Held
<1>11. ASSUME UNCHANGED mutexVars PROVE TwoInv'
  BY <1>11 DEF mutexVars, TwoInv, Held, InPlace, Aside, Buries
<1>12. ASSUME NEW p \in Procs, Kill(p) PROVE FALSE
  BY <1>12 DEF Kill, MutexTypeOK
<1>. QED
  BY <1>1, <1>2, <1>3, <1>4, <1>5, <1>6, <1>7, <1>8, <1>9, <1>10, <1>11, <1>12
     DEF MutexNext, CallStep

(* The one kill finds the mutex undisturbed. *)
LEMMA TwoKill ==
  ASSUME AtMostTwo, MutexTypeOK, Undisturbed, NEW p \in Procs, Kill(p)
  PROVE  TwoInv'
<1>1. TwoInv
  BY UndisturbedIsHeld
<1>2. EndCall(p, mutex) /\ UNCHANGED clock
  BY DEF Kill
<1>3. CASE \A q \in Procs \ {p} : pc[q] \notin Inside
  BY <1>1, <1>2, <1>3, EndStep
<1>4. CASE \E q \in Procs \ {p} : pc[q] \in Inside
  <2>1. PICK q \in Procs \ {p} : pc[q] \in Inside
    BY <1>4
  <2>2. mutex # None /\ mutex.by = q /\ mutex.age + clock[q] <= Hold
    BY <2>1 DEF Undisturbed, FileOfHolder, HolderHasFile
  <2>3. /\ mutex' = mutex /\ pc' = [pc EXCEPT ![p] = "out"]
        /\ \A r \in Procs : grave'[r] = None
    BY <1>2, <2>1, <2>2 DEF EndCall, Disown, Goto, Undisturbed, NobodyBreaks
  <2>4. \A r \in Procs : Buries(r)'
    BY <2>3 DEF Undisturbed, NobodyBreaks, Buries, Breaking, MutexTypeOK
  <2>5. ASSUME NEW r \in Procs, pc'[r] \in Inside PROVE Held(r)'
    <3>1. r = q
      BY <2>1, <2>3, <2>5 DEF AtMostTwo, MutexTypeOK, Inside
    <3>. QED BY <1>2, <2>2, <2>3, <3>1 DEF Held, InPlace
  <2>. QED BY <2>4, <2>5 DEF TwoInv, Held
<1>. QED BY <1>3, <1>4

(* A primary and one backup exclude one another even when a process is     *)
(* killed inside a call: with three processes, or a second kill, they do   *)
(* not.                                                                    *)
THEOREM TwoExclude ==
  ASSUME AtMostTwo, MaxCrashes <= 1
  PROVE  MutexSpec => []MutualExclusion
<1>1. MutexInit => TwoInv
  BY InitInv, UndisturbedIsHeld DEF IInv, MutexInit
<1>2. IInv /\ IInv' /\ TwoInv /\ [MutexNext]_mutexVars => TwoInv'
  <2> SUFFICES ASSUME IInv, IInv', TwoInv, [MutexNext]_mutexVars PROVE TwoInv'
    OBVIOUS
  <2>1. MutexTypeOK /\ MutexTypeOK'
    BY DEF IInv
  <2>2. CASE crashes' = crashes
    BY <2>1, <2>2, TwoNext
  <2>3. CASE crashes' # crashes
    <3>1. PICK p \in Procs : Kill(p)
      BY <2>3 DEF MutexNext, CallStep, Begin, Create, Stat, Rename, Check, Link, Bury,
         Retry, Leave, Compare, Unlink, MutexTick, mutexVars
    <3>2. crashes = 0
      BY <2>1, <3>1, Times DEF Kill, MutexTypeOK
    <3>. QED BY <2>1, <3>1, <3>2, TwoKill DEF IInv
  <2>. QED BY <2>2, <2>3
<1>3. TwoInv => MutualExclusion
  BY HeldExcludes DEF MutualExclusion
<1>. QED BY <1>1, <1>2, <1>3, Inductive, PTL DEF MutexSpec

-----------------------------------------------------------------------------
(* The lock file *)

(* The process has decided on the file as it still is. *)
Decided(p) ==
  /\ step[p] = "create" => job[p] = "elect" /\ lock \in {None, Torn}
  /\ step[p] = "fill" => job[p] = "elect" /\ lock = Torn
  /\ step[p] = "write" =>
       /\ job[p] = "elect" /\ lock \in LockFile
       /\ lock.age = TTL \/ Holder(p)
  /\ step[p] = "remove" => job[p] = "release" /\ Holder(p)
  /\ step[p] = "done" /\ job[p] = "elect" /\ result[p] =>
       Holder(p) /\ lock.age <= age[p]

JobInv(p) ==
  /\ pc[p] \notin Inside \cup {"out"} => step[p] = "read"
  /\ pc[p] \in {"compare", "unlink"} => step[p] = "done"
  /\ pc[p] # "out" /\ job[p] = "elect" /\ step[p] # "done" => ~result[p]
  /\ pc[p] \in Inside => Hold - clock[p] <= age[p] /\ Decided(p)

LockInv == LeaderNamedInLock /\ \A p \in Procs : JobInv(p)

-----------------------------------------------------------------------------
(* The mutex's steps *)

(* A process that is inside and reads, writes or removes the lock file     *)
(* leaves the mutex alone.                                                 *)
FileCall(p) ==
  \/ ReadLock(p) \/ CreateLock(p) \/ FillLock(p) \/ WriteLock(p) \/ RemoveLock(p)

LEMMA FileCallFacts ==
  ASSUME NEW p \in Procs, FileCall(p)
  PROVE  /\ pc[p] = "in" /\ step[p] # "done"
         /\ UNCHANGED <<mutexVars, job, age, validFor>>
BY DEF FileCall, ReadLock, CreateLock, FillLock, WriteLock, RemoveLock, Call

LEMMA WorkCases ==
  ASSUME NEW p \in Procs
  PROVE  Work(p) <=> FileCall(p) \/ LeaveSection(p) \/ MutexCall(p)
BY DEF Work, FileCall

LEMMA MutexTakesStep ==
  ASSUME [Next]_vars PROVE [MutexNext]_mutexVars
<1>1. ASSUME NEW p \in Procs, StartElection(p) \/ StartRelease(p) PROVE MutexNext
  BY <1>1 DEF StartElection, StartRelease, MutexNext
<1>2. ASSUME NEW p \in Procs, Work(p) PROVE MutexNext \/ UNCHANGED mutexVars
  BY <1>2, WorkCases, FileCallFacts DEF LeaveSection, MutexCall, MutexNext
<1>3. ASSUME NEW p \in Procs, Killed(p) PROVE MutexNext
  BY <1>3 DEF Killed, MutexNext
<1>4. CASE Tick
  BY <1>4 DEF Tick, MutexNext
<1>5. CASE UNCHANGED vars
  BY <1>5 DEF vars
<1>. QED BY <1>1, <1>2, <1>3, <1>4, <1>5 DEF Next

-----------------------------------------------------------------------------
(* Types *)

(* What an election writes is a lock file in the process's name.           *)
LEMMA NamedIsLockFile ==
  ASSUME MutexTypeOK, NEW p \in Procs, NEW l \in Named(p)
  PROVE  /\ l \in LockFile /\ l \notin {None, Torn}
         /\ l.by = p /\ l.age \in Nat /\ l.age <= Hold - clock[p]
<1>1. clock[p] \in Nat /\ Hold \in Nat /\ TTL \in Nat /\ Hold <= TTL
  BY Times, LeaseTimes DEF MutexTypeOK
<1>2. PICK t \in 0..(Hold - clock[p]) : l = [by |-> p, age |-> t]
  BY DEF Named
<1>3. t \in 0..TTL
  BY <1>1, <1>2
<1>4. l \in LockFile
  BY <1>2, <1>3 DEF LockFile
<1>5. l.by = p /\ l.age \in Nat /\ l.age <= Hold - clock[p]
  BY <1>1, <1>2
<1>. QED BY <1>4, <1>5, NoLockFile

LEMMA LeaseBound ==
  ASSUME TypeOK, NEW p \in Procs
  PROVE  /\ Lease(p) \in 0..(TTL - Safety)
         /\ Lease(p) > 0 => age[p] + Lease(p) + Safety = TTL
<1>1. age[p] \in 0..TTL
  BY DEF TypeOK
<1>. QED BY <1>1, LeaseTimes DEF Lease

LEMMA TypeStep ==
  ASSUME TypeOK, [Next]_vars PROVE TypeOK'
<1>1. MutexTypeOK'
  BY MutexTakesStep, NextType DEF TypeOK
<1>2. 0 \in 0..(TTL - Safety) /\ 0 \in 0..TTL
  BY LeaseTimes
<1>3. ASSUME NEW p \in Procs, StartElection(p) \/ StartRelease(p) PROVE TypeOK'
  <2>1. CASE StartElection(p)
    BY <1>1, <1>2, <2>1 DEF StartElection, TypeOK
  <2>2. CASE StartRelease(p)
    BY <1>1, <1>2, <2>2 DEF StartRelease, TypeOK
  <2>. QED BY <1>3, <2>1, <2>2
<1>4. ASSUME NEW p \in Procs, FileCall(p) PROVE TypeOK'
  <2>1. lock' \in LockFile \cup {None, Torn}
    BY <1>4, NamedIsLockFile
    DEF FileCall, ReadLock, CreateLock, FillLock, WriteLock, RemoveLock, Call, TypeOK
  <2>2. step' \in [Procs -> {"read", "create", "fill", "write", "remove", "done"}]
    BY <1>4 DEF FileCall, ReadLock, CreateLock, FillLock, WriteLock, RemoveLock,
                Call, Decision, TypeOK
  <2>3. result' \in [Procs -> BOOLEAN]
    BY <1>4 DEF FileCall, ReadLock, CreateLock, FillLock, WriteLock, RemoveLock, TypeOK
  <2>. QED BY <1>1, <1>4, <2>1, <2>2, <2>3, FileCallFacts DEF TypeOK
<1>5. ASSUME NEW p \in Procs, LeaveSection(p) PROVE TypeOK'
  BY <1>1, <1>5 DEF LeaveSection, lockVars, TypeOK
<1>6. ASSUME NEW p \in Procs, MutexCall(p) PROVE TypeOK'
  <2>1. validFor' \in [Procs -> 0..(TTL - Safety)]
    BY <1>2, <1>6, LeaseBound DEF MutexCall, EndJob, TypeOK
  <2>. QED BY <1>1, <1>2, <1>6, <2>1 DEF MutexCall, EndJob, TypeOK
<1>7. ASSUME NEW p \in Procs, Killed(p) PROVE TypeOK'
  BY <1>1, <1>2, <1>7 DEF Killed, TypeOK
<1>8. CASE Tick
  <2>1. lock' \in LockFile \cup {None, Torn}
    BY <1>8, LeaseTimes DEF Tick, TypeOK, LockFile
  <2>2. age' \in [Procs -> 0..TTL] /\ validFor' \in [Procs -> 0..(TTL - Safety)]
    BY <1>8, LeaseTimes DEF Tick, TypeOK
  <2>. QED BY <1>1, <1>8, <2>1, <2>2 DEF Tick, TypeOK
<1>9. CASE UNCHANGED vars
  BY <1>1, <1>9 DEF vars, lockVars, TypeOK
<1>. QED
  BY <1>3, <1>4, <1>5, <1>6, <1>7, <1>8, <1>9, WorkCases DEF Next

-----------------------------------------------------------------------------
(* What processes know of the lock file *)

(* A leader has not waited out the file's TTL. *)
LEMMA LeaderFacts ==
  ASSUME TypeOK, LeaderNamedInLock, NEW p \in Procs, IsLeader(p)
  PROVE  /\ pc[p] = "out" /\ Holder(p) /\ lock \in LockFile
         /\ lock.age < TTL /\ lock.age + validFor[p] + Safety <= TTL
<1>1. /\ validFor[p] \in Nat /\ validFor[p] > 0 /\ pc[p] = "out"
      /\ Holder(p) /\ lock.age + validFor[p] + Safety <= TTL
  BY LeaseTimes DEF IsLeader, LeaderNamedInLock, TypeOK
<1>2. lock \in LockFile
  BY <1>1 DEF Holder, TypeOK
<1>3. lock.age \in Nat
  BY <1>2, LeaseTimes DEF LockFile
<1>. QED BY <1>1, <1>2, <1>3, LeaseTimes

(* Its own job is all that a process's knowledge rests on, and the file.   *)
LEMMA JobUnmoved ==
  ASSUME NEW q \in Procs, JobInv(q), lock' = lock,
         pc'[q] = pc[q], clock'[q] = clock[q], step'[q] = step[q],
         job'[q] = job[q], result'[q] = result[q], age'[q] = age[q]
  PROVE  JobInv(q)'
BY DEF JobInv, Decided, Holder

LEMMA JobOutside ==
  ASSUME NEW q \in Procs, JobInv(q), pc[q] \notin Inside,
         pc'[q] = pc[q], step'[q] = step[q], job'[q] = job[q], result'[q] = result[q]
  PROVE  JobInv(q)'
BY DEF JobInv, Inside

(* A leader's lease does not grow by itself. *)
LEMMA LeadersUnmoved ==
  ASSUME LeaderNamedInLock, lock' = lock,
         \A q \in Procs : IsLeader(q)' => IsLeader(q) /\ validFor'[q] = validFor[q]
  PROVE  LeaderNamedInLock'
BY DEF LeaderNamedInLock, Holder

(* A call inside the critical section: what was decided on the file still  *)
(* stands, so no leader loses it.                                          *)
LEMMA FileCallPreserves ==
  ASSUME TypeOK, TypeOK', LockInv, MutualExclusion, NEW p \in Procs, FileCall(p)
  PROVE  LockInv'
<1>1. /\ pc[p] = "in" /\ pc[p] \in Inside
      /\ UNCHANGED <<mutex, grave, pc, clock, crashes, job, age, validFor>>
      /\ JobInv(p) /\ LeaderNamedInLock
  BY FileCallFacts DEF Inside, mutexVars, LockInv
<1>2. \A q \in Procs \ {p} : pc[q] \notin Inside
  BY <1>1 DEF MutualExclusion
<1>3. \A q \in Procs \ {p} : step'[q] = step[q] /\ result'[q] = result[q]
  BY DEF FileCall, ReadLock, CreateLock, FillLock, WriteLock, RemoveLock, Call, TypeOK
<1>4. \A q \in Procs \ {p} : JobInv(q)'
  BY <1>1, <1>2, <1>3, JobOutside DEF LockInv
<1>5. Decided(p) /\ Hold - clock[p] <= age[p]
  BY <1>1 DEF JobInv
<1>6. age[p] \in 0..TTL /\ clock[p] \in Nat
  BY Times DEF TypeOK, MutexTypeOK
<1>7. \A q \in Procs : IsLeader(q)' <=> IsLeader(q)
  BY <1>1 DEF IsLeader
<1>8. ASSUME NEW l \in Named(p), lock' = l, step'[p] = "done", result'[p] = TRUE,
             \A q \in Procs \ {p} : ~IsLeader(q)
      PROVE  LockInv'
  <2>1. l \in LockFile /\ l \notin {None, Torn} /\ l.by = p /\ l.age <= Hold - clock[p]
        /\ l.age \in Nat
    BY <1>8, NamedIsLockFile DEF TypeOK
  <2>2. Holder(p)' /\ lock'.age <= age[p]
    BY <1>5, <1>6, <1>8, <2>1, Times DEF Holder
  <2>3. JobInv(p)'
    BY <1>1, <1>5, <1>8, <2>2 DEF JobInv, Decided, Inside
  <2>4. ~IsLeader(p)
    BY <1>1 DEF IsLeader
  <2>. QED BY <1>4, <1>7, <1>8, <2>3, <2>4 DEF LockInv, LeaderNamedInLock
<1>9. CASE ReadLock(p)
  <2>1. /\ lock' = lock /\ step'[p] = Decision(p) /\ step[p] = "read"
        /\ result' = result
    BY <1>9 DEF ReadLock, Call, TypeOK
  <2>2. LeaderNamedInLock'
    BY <1>1, <1>7, <2>1, LeadersUnmoved
  <2>3. job[p] = "elect" => ~result[p]
    BY <1>1, <2>1 DEF JobInv
  <2>4. Decided(p)'
    <3>1. lock \in LockFile => lock.age \in 0..TTL
      BY DEF LockFile
    <3>2. job[p] \in {"elect", "release"} /\ (lock \in LockFile \/ lock \in {None, Torn})
      BY DEF TypeOK
    <3>3. CASE job[p] = "release"
      BY <1>1, <2>1, <3>3 DEF Decision, Decided, Holder
    <3>4. CASE job[p] = "elect" /\ lock \in {None, Torn}
      BY <1>1, <2>1, <3>4 DEF Decision, Decided, Holder
    <3>5. CASE job[p] = "elect" /\ lock \notin {None, Torn}
      <4>1. lock \in LockFile /\ lock.age \in 0..TTL
        BY <3>1, <3>2, <3>5
      <4>2. CASE lock.age < TTL /\ ~Holder(p)
        BY <1>1, <2>1, <2>3, <3>5, <4>2 DEF Decision, Decided, Holder
      <4>3. CASE ~(lock.age < TTL /\ ~Holder(p))
        <5>1. step'[p] = "write"
          BY <2>1, <3>5, <4>3 DEF Decision
        <5>2. lock.age = TTL \/ Holder(p)
          BY <4>1, <4>3, LeaseTimes
        <5>. QED BY <1>1, <2>1, <3>5, <4>1, <5>1, <5>2 DEF Decided, Holder
      <4>. QED BY <4>2, <4>3
    <3>. QED BY <3>2, <3>3, <3>4, <3>5
  <2>5. JobInv(p)'
    BY <1>1, <1>5, <2>1, <2>3, <2>4 DEF JobInv, Inside
  <2>. QED BY <1>4, <2>2, <2>5 DEF LockInv
<1>10. CASE CreateLock(p)
  <2>1. /\ step[p] = "create" /\ result' = result
        /\ \/ lock = None /\ lock' = Torn /\ step'[p] = "fill"
           \/ lock' = lock /\ step'[p] = "done"
    BY <1>10 DEF CreateLock, Call, TypeOK
  <2>2. job[p] = "elect" /\ lock \in {None, Torn} /\ ~result[p]
    BY <1>1, <1>5, <2>1 DEF Decided, JobInv
  <2>3. \A q \in Procs : ~IsLeader(q)
    BY <1>1, <2>2 DEF LeaderNamedInLock, Holder
  <2>4. JobInv(p)'
    BY <1>1, <1>5, <2>1, <2>2 DEF JobInv, Decided, Inside
  <2>. QED BY <1>4, <1>7, <2>3, <2>4 DEF LockInv, LeaderNamedInLock
<1>11. CASE FillLock(p)
  <2>1. /\ step[p] = "fill" /\ result'[p] = TRUE /\ step'[p] = "done"
        /\ \E l \in Named(p) : lock' = l
    BY <1>11 DEF FillLock, Call, TypeOK
  <2>2. \A q \in Procs : ~IsLeader(q)
    BY <1>1, <1>5, <2>1 DEF Decided, LeaderNamedInLock, Holder
  <2>. QED BY <1>8, <2>1, <2>2
<1>12. CASE WriteLock(p)
  <2>1. /\ step[p] = "write" /\ result'[p] = TRUE /\ step'[p] = "done"
        /\ \E l \in Named(p) : lock' = l
    BY <1>12 DEF WriteLock, Call, TypeOK
  <2>2. lock.age = TTL \/ Holder(p)
    BY <1>5, <2>1 DEF Decided
  <2>3. ASSUME NEW q \in Procs \ {p}, IsLeader(q) PROVE FALSE
    <3>1. Holder(q) /\ lock.age < TTL
      BY <1>1, <2>3, LeaderFacts
    <3>. QED BY <2>2, <3>1, LeaseTimes DEF Holder
  <2>. QED BY <1>8, <2>1, <2>3
<1>13. CASE RemoveLock(p)
  <2>1. step[p] = "remove" /\ step'[p] = "done" /\ lock' = None
    BY <1>13 DEF RemoveLock, Call, TypeOK
  <2>2. Holder(p) /\ job[p] = "release"
    BY <1>5, <2>1 DEF Decided
  <2>3. \A q \in Procs : ~IsLeader(q)
    BY <1>1, <2>2 DEF LeaderNamedInLock, Holder, IsLeader
  <2>4. JobInv(p)'
    BY <1>1, <1>5, <2>1, <2>2 DEF JobInv, Decided, Inside
  <2>. QED BY <1>4, <1>7, <2>3, <2>4 DEF LockInv, LeaderNamedInLock
<1>. QED BY <1>9, <1>10, <1>11, <1>12, <1>13 DEF FileCall

-----------------------------------------------------------------------------
(* Entering and leaving the critical section *)

LEMMA CallStepFacts ==
  ASSUME MutexTypeOK, NEW p \in Procs, CallStep(p)
  PROVE  /\ \A q \in Procs \ {p} : pc'[q] = pc[q] /\ clock'[q] = clock[q]
         /\ \/ pc[p] = "create" /\ pc'[p] = "in" /\ clock'[p] = Hold
            \/ /\ pc[p] \notin Inside \cup {"out"} /\ pc'[p] \notin Inside
               /\ clock'[p] = clock[p]
            \/ /\ pc[p] \in {"compare", "unlink"} /\ pc'[p] \in {"unlink", "out"}
               /\ clock'[p] = clock[p]
<1>1. CASE Create(p)
  BY <1>1 DEF Create, Goto, MutexTypeOK, Inside
<1>2. CASE Stat(p) \/ Rename(p) \/ Check(p) \/ Link(p) \/ Bury(p) \/ Retry(p)
  BY <1>2 DEF Stat, Rename, Check, Link, Bury, Retry, Goto, MutexTypeOK, Inside
<1>3. CASE Compare(p) \/ Unlink(p)
  BY <1>3 DEF Compare, Unlink, EndCall, Goto, MutexTypeOK
<1>. QED BY <1>1, <1>2, <1>3 DEF CallStep

(* An election that ends with a lease has written the file it relies on.   *)
LEMMA MutexCallPreserves ==
  ASSUME TypeOK, LockInv, NEW p \in Procs, MutexCall(p)
  PROVE  LockInv'
<1>1. /\ JobInv(p) /\ LeaderNamedInLock /\ UNCHANGED <<lock, job, step, result>>
      /\ MutexTypeOK /\ CallStep(p)
  BY DEF MutexCall, EndJob, LockInv, TypeOK
<1>2. /\ \A q \in Procs \ {p} :
           /\ pc'[q] = pc[q] /\ clock'[q] = clock[q]
           /\ age'[q] = age[q] /\ validFor'[q] = validFor[q]
      /\ pc'[p] = "out" =>
           validFor'[p] = IF job[p] = "elect" /\ result[p] THEN Lease(p) ELSE 0
      /\ pc'[p] # "out" => age'[p] = age[p]
  BY <1>1, CallStepFacts DEF MutexCall, EndJob, TypeOK
<1>3. \A q \in Procs \ {p} : JobInv(q)'
  BY <1>1, <1>2, JobUnmoved DEF LockInv
<1>4. age[p] \in Nat /\ Hold \in Nat
  BY Times, LeaseTimes DEF TypeOK
<1>5. JobInv(p)'
  <2>1. CASE pc[p] = "create" /\ pc'[p] = "in" /\ clock'[p] = Hold
    BY <1>1, <1>2, <1>4, <2>1 DEF JobInv, Decided, Inside
  <2>2. CASE pc[p] \notin Inside \cup {"out"} /\ pc'[p] \notin Inside
    BY <1>1, <1>2, <2>2 DEF JobInv, Inside
  <2>3. CASE /\ pc[p] \in {"compare", "unlink"} /\ pc'[p] \in {"unlink", "out"}
             /\ clock'[p] = clock[p]
    BY <1>1, <1>2, <2>3 DEF JobInv, Decided, Holder, Inside
  <2>. QED BY <1>1, <2>1, <2>2, <2>3, CallStepFacts
<1>6. IsLeader(p)' => Holder(p)' /\ lock'.age + validFor'[p] + Safety <= TTL
  <2> SUFFICES ASSUME pc'[p] = "out", validFor'[p] > 0
               PROVE  Holder(p) /\ lock.age + validFor'[p] + Safety <= TTL
    BY <1>1 DEF IsLeader, Holder
  <2>1. job[p] = "elect" /\ result[p] /\ validFor'[p] = Lease(p)
    BY <1>2
  <2>2. pc[p] # "out" /\ pc'[p] \notin Inside
    BY <1>1, CallStepFacts DEF Inside
  <2>3. step[p] = "done" /\ pc[p] \in Inside
    BY <1>1, <2>1, <2>2, CallStepFacts DEF JobInv, Inside
  <2>4. Holder(p) /\ lock.age <= age[p]
    BY <1>1, <2>1, <2>3 DEF JobInv, Decided
  <2>5. lock.age \in Nat /\ Lease(p) \in Nat /\ age[p] + Lease(p) + Safety = TTL
    <3>1. lock \in LockFile
      BY <2>4 DEF Holder, TypeOK
    <3>. QED BY <2>1, <3>1, LeaseBound, LeaseTimes DEF LockFile
  <2>. QED BY <1>4, <2>1, <2>4, <2>5, LeaseTimes
<1>7. \A q \in Procs \ {p} :
        IsLeader(q)' => Holder(q)' /\ lock'.age + validFor'[q] + Safety <= TTL
  BY <1>1, <1>2 DEF IsLeader, LeaderNamedInLock, Holder
<1>. QED BY <1>3, <1>5, <1>6, <1>7 DEF LockInv, LeaderNamedInLock

(* A new job knows nothing yet. *)
LEMMA StartPreserves ==
  ASSUME TypeOK, LockInv, NEW p \in Procs, StartElection(p) \/ StartRelease(p)
  PROVE  LockInv'
<1>1. /\ Begin(p) /\ lock' = lock /\ LeaderNamedInLock /\ step'[p] = "read"
      /\ job'[p] = "elect" => ~result'[p]
      /\ \A q \in Procs \ {p} :
           /\ job'[q] = job[q] /\ step'[q] = step[q] /\ result'[q] = result[q]
           /\ age'[q] = age[q] /\ validFor'[q] = validFor[q]
  BY DEF StartElection, StartRelease, LockInv, TypeOK
<1>2. /\ pc'[p] = "create"
      /\ \A q \in Procs \ {p} : pc'[q] = pc[q] /\ clock'[q] = clock[q]
  BY <1>1 DEF Begin, Goto, TypeOK, MutexTypeOK
<1>3. \A q \in Procs \ {p} : JobInv(q)'
  BY <1>1, <1>2, JobUnmoved DEF LockInv
<1>4. JobInv(p)'
  BY <1>1, <1>2 DEF JobInv, Inside
<1>5. LeaderNamedInLock'
  BY <1>1, <1>2, LeadersUnmoved DEF IsLeader
<1>. QED BY <1>3, <1>4, <1>5 DEF LockInv

LEMMA LeavePreserves ==
  ASSUME TypeOK, LockInv, NEW p \in Procs, LeaveSection(p)
  PROVE  LockInv'
<1>1. /\ pc[p] = "in" /\ pc'[p] = "compare" /\ step[p] = "done"
      /\ UNCHANGED <<clock, lock, job, step, result, age, validFor>>
      /\ \A q \in Procs \ {p} : pc'[q] = pc[q]
      /\ LeaderNamedInLock /\ JobInv(p)
  BY DEF LeaveSection, Leave, Goto, lockVars, LockInv, TypeOK, MutexTypeOK
<1>2. \A q \in Procs \ {p} : JobInv(q)'
  BY <1>1, JobUnmoved DEF LockInv
<1>3. JobInv(p)'
  BY <1>1 DEF JobInv, Decided, Holder, Inside
<1>4. LeaderNamedInLock'
  BY <1>1, LeadersUnmoved DEF IsLeader
<1>. QED BY <1>2, <1>3, <1>4 DEF LockInv

LEMMA KilledPreserves ==
  ASSUME TypeOK, LockInv, NEW p \in Procs, Killed(p)
  PROVE  LockInv'
<1>1. /\ pc'[p] = "out" /\ validFor'[p] = 0
      /\ UNCHANGED <<clock, lock, job, step, result>>
      /\ \A q \in Procs \ {p} :
           pc'[q] = pc[q] /\ age'[q] = age[q] /\ validFor'[q] = validFor[q]
      /\ LeaderNamedInLock
  BY DEF Killed, Kill, EndCall, Goto, LockInv, TypeOK, MutexTypeOK
<1>2. \A q \in Procs \ {p} : JobInv(q)'
  BY <1>1, JobUnmoved DEF LockInv
<1>3. JobInv(p)'
  BY <1>1 DEF JobInv, Inside
<1>4. LeaderNamedInLock'
  BY <1>1, LeadersUnmoved DEF IsLeader
<1>. QED BY <1>2, <1>3, <1>4 DEF LockInv

(* The file ages no faster than the leases, and than the elections that    *)
(* are under way.                                                          *)
LEMMA TickPreserves ==
  ASSUME TypeOK, LockInv, Tick
  PROVE  LockInv'
<1>1. /\ UNCHANGED <<pc, job, step, result>>
      /\ \A p \in Procs : pc[p] \in Inside => clock[p] > 0
      /\ lock' = IF lock \notin {None, Torn} /\ lock.age < TTL
                 THEN [lock EXCEPT !.age = @ + 1] ELSE lock
      /\ \A p \in Procs :
           /\ clock'[p] = IF clock[p] > 0 THEN clock[p] - 1 ELSE 0
           /\ age'[p] = IF pc[p] # "out" /\ age[p] < TTL THEN age[p] + 1 ELSE age[p]
           /\ validFor'[p] = IF validFor[p] > 0 THEN validFor[p] - 1 ELSE 0
      /\ LeaderNamedInLock
  BY DEF Tick, MutexTick, LockInv
<1>2. \A p \in Procs :
        clock[p] \in Nat /\ age[p] \in 0..TTL /\ validFor[p] \in Nat
  BY Times, LeaseTimes DEF TypeOK, MutexTypeOK
<1>3. /\ lock \in {None, Torn} => lock' = lock
      /\ lock \in LockFile =>
           /\ lock' \in LockFile /\ lock'.by = lock.by /\ lock.age \in 0..TTL
           /\ lock'.age = IF lock.age < TTL THEN lock.age + 1 ELSE TTL
  BY <1>1, NoLockFile, LeaseTimes DEF LockFile
<1>4. lock \in LockFile \/ lock \in {None, Torn}
  BY DEF TypeOK
<1>5. \A p \in Procs : Holder(p) => Holder(p)' /\ lock \in LockFile
  BY <1>3, <1>4, NoLockFile DEF Holder
<1>6. LeaderNamedInLock'
  <2> SUFFICES ASSUME NEW p \in Procs, pc[p] = "out", validFor'[p] > 0
               PROVE  Holder(p)' /\ lock'.age + validFor'[p] + Safety <= TTL
    BY <1>1 DEF LeaderNamedInLock, IsLeader
  <2>1. validFor'[p] = validFor[p] - 1 /\ validFor[p] > 0
    BY <1>1, <1>2
  <2>2. Holder(p) /\ lock.age + validFor[p] + Safety <= TTL
    BY <1>1, <2>1 DEF LeaderNamedInLock, IsLeader
  <2>. QED BY <1>2, <1>3, <1>5, <2>1, <2>2, LeaseTimes
<1>7. ASSUME NEW p \in Procs PROVE JobInv(p)'
  <2>1. JobInv(p)
    BY DEF LockInv
  <2>2. ASSUME pc[p] \in Inside PROVE Hold - clock'[p] <= age'[p]
    <3>1. Hold - clock[p] <= age[p] /\ clock'[p] = clock[p] - 1 /\ pc[p] # "out"
      BY <1>1, <1>2, <2>1, <2>2 DEF JobInv, Inside
    <3>. QED BY <1>1, <1>2, <3>1, Times, LeaseTimes
  <2>3. ASSUME pc[p] \in Inside PROVE Decided(p)'
    <3>1. Decided(p) /\ pc[p] # "out"
      BY <2>1, <2>3 DEF JobInv, Inside
    <3>2. Holder(p) /\ lock.age <= age[p] => Holder(p)' /\ lock'.age <= age'[p]
      BY <1>1, <1>2, <1>3, <1>5, <3>1, LeaseTimes
    <3>3. lock \in LockFile /\ lock.age = TTL => lock' \in LockFile /\ lock'.age = TTL
      BY <1>3, LeaseTimes
    <3>. QED BY <1>1, <1>3, <1>5, <3>1, <3>2, <3>3 DEF Decided
  <2>. QED BY <1>1, <2>1, <2>2, <2>3 DEF JobInv
<1>. QED BY <1>6, <1>7 DEF LockInv

-----------------------------------------------------------------------------
(* Theorems *)

LEMMA LockInitInv ==
  ASSUME Init PROVE TypeOK /\ IInv /\ LockInv
<1>1. IInv /\ MutexTypeOK
  BY InitInv DEF Init, IInv
<1>2. TypeOK
  BY <1>1, LeaseTimes DEF Init, TypeOK
<1>3. LockInv
  BY DEF Init, MutexInit, LockInv, LeaderNamedInLock, IsLeader, JobInv, Inside
<1>. QED BY <1>1, <1>2, <1>3

(* One step, while the mutex excludes. *)
LEMMA LockNextPreserves ==
  ASSUME TypeOK, LockInv, MutualExclusion, [Next]_vars PROVE LockInv'
<1>1. TypeOK'
  BY TypeStep
<1>2. ASSUME NEW p \in Procs, Work(p) PROVE LockInv'
  BY <1>1, <1>2, WorkCases, FileCallPreserves, LeavePreserves, MutexCallPreserves
<1>3. CASE UNCHANGED vars
  <2>1. /\ lock' = lock /\ pc' = pc /\ clock' = clock /\ job' = job /\ step' = step
        /\ result' = result /\ age' = age /\ validFor' = validFor
    BY <1>3 DEF vars, mutexVars, lockVars
  <2>2. \A p \in Procs : JobInv(p)'
    BY <2>1, JobUnmoved DEF LockInv
  <2>3. LeaderNamedInLock'
    BY <2>1, LeadersUnmoved DEF LockInv, IsLeader
  <2>. QED BY <2>2, <2>3 DEF LockInv
<1>. QED
  BY <1>2, <1>3, StartPreserves, KilledPreserves, TickPreserves DEF Next

(* The lock file's protocol moves the mutex as FileMutex says.             *)
THEOREM FileLockUsesMutex == Spec => MutexSpec
<1>1. Init => MutexInit
  BY DEF Init
<1>2. [Next]_vars => [MutexNext]_mutexVars
  BY MutexTakesStep
<1>. QED BY <1>1, <1>2, PTL DEF Spec, MutexSpec

(* The lock file, jobs, ages and leases are well typed, whoever is killed. *)
THEOREM FileLockTypeCorrect == Spec => []TypeOK
<1>1. Init => TypeOK
  BY LockInitInv
<1>2. TypeOK /\ [Next]_vars => TypeOK'
  BY TypeStep
<1>. QED BY <1>1, <1>2, PTL DEF Spec

(* An acting leader is named in the lock file in every execution in which  *)
(* the mutex excludes: nothing else of the protocol depends on timing, and *)
(* kills inside an election or a release do it no harm.                    *)
THEOREM LeaderNamedWhileExclusive ==
  Spec /\ []MutualExclusion => []LeaderNamedInLock
<1>1. Init => LockInv
  BY LockInitInv
<1>2. TypeOK /\ LockInv /\ MutualExclusion /\ [Next]_vars => LockInv'
  BY LockNextPreserves
<1>3. LockInv => LeaderNamedInLock
  BY DEF LockInv
<1>. QED BY <1>1, <1>2, <1>3, FileLockTypeCorrect, PTL DEF Spec

(* Until a process is killed inside a call the mutex does exclude, so the  *)
(* acting leader is named, for any number of processes.                    *)
NamedUntilKill == crashes = 0 => LeaderNamedInLock

THEOREM LeaderNamedUntilKill == Spec => []NamedUntilKill
<1> DEFINE Inv == crashes = 0 => LockInv
<1>1. Init => Inv
  BY LockInitInv
<1>2. TypeOK /\ IInv /\ Inv /\ [Next]_vars => Inv'
  <2> SUFFICES ASSUME TypeOK, IInv, Inv, [Next]_vars, crashes' = 0 PROVE LockInv'
    OBVIOUS
  <2>1. crashes = 0
    BY MutexTakesStep, CrashesGrow DEF TypeOK
  <2>2. MutualExclusion
    BY <2>1 DEF IInv, Undisturbed, HolderHasFile, MutualExclusion
  <2>. QED BY <2>1, <2>2, LockNextPreserves
<1>3. Inv => NamedUntilKill
  BY DEF LockInv, NamedUntilKill
<1> HIDE DEF Inv
<1>. QED
  BY <1>1, <1>2, <1>3, FileLockTypeCorrect, FileLockUsesMutex, Inductive, PTL DEF Spec

(* And with a primary and one backup it is, even when a process is killed  *)
(* inside a call.                                                          *)
THEOREM LeaderNamedByTwo ==
  ASSUME AtMostTwo, MaxCrashes <= 1
  PROVE  Spec => []LeaderNamedInLock
<1>1. Spec => []MutualExclusion
  BY FileLockUsesMutex, TwoExclude, PTL
<1>. QED BY <1>1, LeaderNamedWhileExclusive, PTL
=============================================================================
