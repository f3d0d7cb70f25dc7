--------------------------- MODULE Listener_proofs ---------------------------
(***************************************************************************)
(* A worker: first its handler (Fulfiller), for requests that come in any  *)
(* order and any number of times, then the listener that hands them to it  *)
(* (Listener), whose steps are steps of Fulfiller, so that all that is     *)
(* proved of the handler holds of the worker.                              *)
(*                                                                         *)
(* The send allowance holds for any number of requests, retries, passes    *)
(* and setbacks.  SendCap is not inductive: what a request has used up is  *)
(* cleared when it is seen settled, and a send is reserved before it is    *)
(* made.  Capped says that the table is ahead of the sends, a reserved one *)
(* included, unless the request is settled and can no longer reach a send. *)
(***************************************************************************)
EXTENDS Listener, TLAPS, FiniteSetTheorems

Owed(id) == IF task.id = id /\ task.at = "send" THEN 1 ELSE 0

Settled(id) == status[id] \in {"fulfilled", "refunded"}

Capped(id) ==
  \/ sent[id] + Owed(id) <= Count(id)
  \/ Settled(id) /\ sent[id] <= MaxSends /\ Owed(id) = 0

AllCapped == \A id \in Ids : Capped(id)

Typed(table) ==
  DOMAIN table \in SUBSET Ids /\ \A id \in DOMAIN table : table[id] \in 1..MaxSends

-----------------------------------------------------------------------------
(* The table *)

LEMMA WithTyped ==
  ASSUME FulfillerTypeOK, NEW id \in Ids, NEW n \in 1..MaxSends
  PROVE  Typed(With(id, n))
BY DEF FulfillerTypeOK, Typed, With

LEMMA EvictedTyped ==
  ASSUME NEW table, Typed(table), NEW id, NEW t \in Evicted(table, id)
  PROVE  Typed(t)
<1>1. CASE t = table
  BY <1>1
<1>2. CASE \E oldest \in DOMAIN table \ {id} :
             t = [i \in DOMAIN table \ {oldest} |-> table[i]]
  BY <1>2 DEF Typed
<1>3. QED
  BY <1>1, <1>2 DEF Evicted

LEMMA CountTyped ==
  ASSUME FulfillerTypeOK, NEW id \in Ids
  PROVE  Count(id) \in 0..MaxSends
<1>1. MaxSends \in Nat /\ MaxSends >= 1
  BY FulfillerConstants
<1>2. CASE id \in DOMAIN sends
  BY <1>1, <1>2 DEF Count, FulfillerTypeOK
<1>3. CASE id \notin DOMAIN sends
  BY <1>1, <1>3 DEF Count
<1>4. QED
  BY <1>2, <1>3

LEMMA ReserveTyped ==
  ASSUME FulfillerTypeOK, NEW id \in Ids, ~Exhausted(id), Reserve(id)
  PROVE  Typed(sends)'
<1>1. MaxSends \in Nat
  BY FulfillerConstants
<1>2. Count(id) + 1 \in 1..MaxSends
  BY CountTyped, <1>1 DEF Exhausted
<1>3. QED
  BY <1>2, WithTyped, EvictedTyped DEF Reserve, Typed

LEMMA ParkTyped ==
  ASSUME FulfillerTypeOK, NEW id \in Ids, Park(id)
  PROVE  Typed(sends)'
<1>1. MaxSends \in 1..MaxSends
  BY FulfillerConstants
<1>2. QED
  BY <1>1, WithTyped, EvictedTyped DEF Park, Typed

LEMMA ClearTyped ==
  ASSUME FulfillerTypeOK, NEW id, Clear(id)
  PROVE  Typed(sends)'
BY DEF FulfillerTypeOK, Clear, Typed

-----------------------------------------------------------------------------
(* Type correctness *)

TaskTyped(t) == t \in [id : Ids, at : Steps, attempt : 1..MaxAttempts] \cup {Idle}

LEMMA Suspended ==
  ASSUME FulfillerTypeOK, task.at # "idle"
  PROVE  task \in [id : Ids, at : Steps, attempt : 1..MaxAttempts] /\ task.id \in Ids
BY DEF FulfillerTypeOK, Idle

LEMMA GotoTyped ==
  ASSUME FulfillerTypeOK, task.at # "idle", NEW step \in Steps, Goto(step)
  PROVE  TaskTyped(task)' /\ task'.id = task.id /\ task'.at = step
BY Suspended DEF Goto, TaskTyped

LEMMA RetryTyped ==
  ASSUME FulfillerTypeOK, task.at # "idle", Retry
  PROVE  /\ TaskTyped(task)' /\ task'.at # "send"
<1>1. MaxAttempts \in Nat
  BY FulfillerConstants
<1>2. CASE task.attempt < MaxAttempts
  <2>1. task' = [task EXCEPT !.at = "submit", !.attempt = @ + 1]
    BY <1>2 DEF Retry
  <2>2. task.attempt + 1 \in 1..MaxAttempts
    BY <1>1, <1>2, Suspended
  <2>3. "submit" \in Steps
    BY DEF Steps
  <2>4. QED
    BY <2>1, <2>2, <2>3, Suspended DEF TaskTyped
<1>3. CASE ~(task.attempt < MaxAttempts)
  BY <1>3 DEF Retry, Done, TaskTyped, Idle
<1>4. QED
  BY <1>2, <1>3

LEMMA DoneTyped ==
  ASSUME Done
  PROVE  TaskTyped(task)' /\ task'.at # "send"
BY DEF Done, TaskTyped, Idle

LEMMA SetbackTyped ==
  ASSUME FulfillerTypeOK, Setback \/ UNCHANGED setbacks
  PROVE  setbacks' \in 0..MaxSetbacks
<1>1. MaxSetbacks \in Nat
  BY FulfillerConstants
<1>2. QED
  BY <1>1 DEF FulfillerTypeOK, Setback

LEMMA HandleTyped ==
  ASSUME FulfillerTypeOK, NEW id \in Ids, Handle(id)
  PROVE  FulfillerTypeOK'
<1>1. CASE Skip(id)
  BY <1>1 DEF Skip, fulfillerVars, chainVars, FulfillerTypeOK
<1>2. CASE SkipFulfilled(id)
  BY <1>2, ClearTyped DEF SkipFulfilled, chainVars, FulfillerTypeOK, Typed
<1>3. CASE Defer(id)
  BY <1>3, SetbackTyped DEF Defer, chainVars, FulfillerTypeOK
<1>4. CASE Begin(id)
  <2>1. setbacks' \in 0..MaxSetbacks
    BY <1>4, SetbackTyped DEF Begin, SeenUnfulfilled
  <2>2. "beacon" \in Steps /\ 1 \in 1..MaxAttempts
    BY FulfillerConstants DEF Steps
  <2>3. TaskTyped(task)'
    BY <1>4, <2>2 DEF Begin, TaskTyped
  <2>4. QED
    BY <1>4, <2>1, <2>3 DEF Begin, chainVars, FulfillerTypeOK, TaskTyped
<1>5. QED
  BY <1>1, <1>2, <1>3, <1>4 DEF Handle

(* A failure of a request not seen to be settled is terminal or retried.   *)
LEMMA FailsHow ==
  ASSUME NEW class, class # "settled", FailsAs(class)
  PROVE  Fail \/ (Retry /\ UNCHANGED sends)
BY DEF FailsAs

LEMMA NotSettled ==
  ASSUME ~At("submit"), NEW class \in Classes
  PROVE  class # "settled"
BY DEF Classes

LEMMA HandlerTyped ==
  ASSUME FulfillerTypeOK, HandlerStep
  PROVE  FulfillerTypeOK'
<1>a. {"beacon", "context", "submit", "send", "confirm"} \subseteq Steps
  BY DEF Steps
<1>1. CASE FetchBeacon
  <2>1. setbacks' \in 0..MaxSetbacks
    BY <1>1, SetbackTyped DEF FetchBeacon, BeaconRefused
  <2>2. TaskTyped(task)'
    BY <1>1, <1>a, GotoTyped, DoneTyped DEF FetchBeacon, BeaconRefused, At
  <2>3. QED
    BY <1>1, <2>1, <2>2 DEF FetchBeacon, BeaconRefused, chainVars, FulfillerTypeOK, TaskTyped
<1>2. CASE FetchContext
  <2>1. setbacks' \in 0..MaxSetbacks
    BY <1>2, SetbackTyped DEF FetchContext
  <2>2. TaskTyped(task)'
    BY <1>2, <1>a, GotoTyped, DoneTyped DEF FetchContext, At
  <2>3. QED
    BY <1>2, <2>1, <2>2 DEF FetchContext, chainVars, FulfillerTypeOK, TaskTyped
<1>3. CASE Abort
  BY <1>3, DoneTyped DEF Abort, chainVars, FulfillerTypeOK, TaskTyped
<1>4. CASE SimulatedSettled
  BY <1>4, DoneTyped, ClearTyped DEF SimulatedSettled, FailsAs, chainVars, FulfillerTypeOK, TaskTyped, Typed
<1>5. CASE SimulationFails
  <2>1. setbacks' \in 0..MaxSetbacks
    BY <1>5, SetbackTyped DEF SimulationFails
  <2>2. task.id \in Ids /\ task.at # "idle"
    BY <1>5, Suspended DEF SimulationFails, At
  <2>3. TaskTyped(task)' /\ Typed(sends)'
    <3>1. CASE Fail
      BY <3>1, <2>2, ParkTyped, DoneTyped DEF Fail
    <3>2. CASE Retry /\ UNCHANGED sends
      BY <3>2, <2>2, RetryTyped DEF FulfillerTypeOK, Typed
    <3>3. QED
      BY <3>1, <3>2, <1>5, FailsHow DEF SimulationFails
  <2>4. QED
    BY <1>5, <2>1, <2>3 DEF SimulationFails, chainVars, FulfillerTypeOK, TaskTyped, Typed
<1>6. CASE ResourceBoundExceeded
  <2>1. setbacks' \in 0..MaxSetbacks
    BY <1>6, SetbackTyped DEF ResourceBoundExceeded
  <2>2. task.id \in Ids /\ task.at # "idle"
    BY <1>6, Suspended DEF ResourceBoundExceeded, At
  <2>3. TaskTyped(task)' /\ Typed(sends)'
    <3>1. CASE Fail
      BY <3>1, <2>2, ParkTyped, DoneTyped DEF Fail
    <3>2. CASE Retry /\ UNCHANGED sends
      BY <3>2, <2>2, RetryTyped DEF FulfillerTypeOK, Typed
    <3>3. QED
      BY <3>1, <3>2, <1>6, FailsHow DEF ResourceBoundExceeded
  <2>4. QED
    BY <1>6, <2>1, <2>3 DEF ResourceBoundExceeded, chainVars, FulfillerTypeOK, TaskTyped, Typed
<1>7. CASE GateOpens
  <2>1. task.id \in Ids /\ task.at # "idle"
    BY <1>7, Suspended DEF GateOpens, At
  <2>2. TaskTyped(task)' /\ Typed(sends)'
    BY <1>7, <1>a, <2>1, GotoTyped, ReserveTyped DEF GateOpens
  <2>3. QED
    BY <1>7, <2>2 DEF GateOpens, chainVars, FulfillerTypeOK, TaskTyped, Typed
<1>8. CASE GateRefuses
  <2>1. setbacks' \in 0..MaxSetbacks
    BY <1>8, SetbackTyped DEF GateRefuses
  <2>2. QED
    BY <1>8, <2>1, DoneTyped DEF GateRefuses, chainVars, FulfillerTypeOK, TaskTyped
<1>9. CASE Send
  <2>1. task.id \in Ids /\ TaskTyped(task)'
    BY <1>9, <1>a, Suspended, GotoTyped DEF Send, At
  <2>2. sent' \in [Ids -> Nat]
    BY <1>9, <2>1 DEF Send, FulfillerTypeOK
  <2>3. QED
    BY <1>9, <2>1, <2>2 DEF Send, chainVars, FulfillerTypeOK, TaskTyped
<1>10. CASE SendFails
  <2>1. setbacks' \in 0..MaxSetbacks
    BY <1>10, SetbackTyped DEF SendFails
  <2>2. task.id \in Ids /\ task.at # "idle"
    BY <1>10, Suspended DEF SendFails, At
  <2>3. TaskTyped(task)' /\ Typed(sends)' /\ loose' \in SUBSET Ids
    <3>1. CASE Fail /\ (UNCHANGED loose \/ loose' = loose \cup {task.id})
      BY <3>1, <2>2, ParkTyped, DoneTyped DEF Fail, FulfillerTypeOK
    <3>2. CASE Retry /\ UNCHANGED sends /\ (UNCHANGED loose \/ loose' = loose \cup {task.id})
      BY <3>2, <2>2, RetryTyped DEF FulfillerTypeOK, Typed
    <3>3. QED
      BY <3>1, <3>2, <1>10, FailsHow, NotSettled DEF SendFails, At
  <2>4. sent' \in [Ids -> Nat]
    BY <1>10, <2>2 DEF SendFails, FulfillerTypeOK
  <2>5. QED
    BY <1>10, <2>1, <2>3, <2>4 DEF SendFails, FulfillerTypeOK, TaskTyped, Typed
<1>11. CASE Confirmed
  <2>1. task.id \in Ids
    BY <1>11, Suspended DEF Confirmed, At
  <2>2. TaskTyped(task)' /\ Typed(sends)'
    BY <1>11, DoneTyped, ClearTyped DEF Confirmed
  <2>3. QED
    BY <1>11, <2>1, <2>2 DEF Confirmed, FulfillerTypeOK, TaskTyped, Typed
<1>12. CASE AppliedAndFailed
  <2>1. setbacks' \in 0..MaxSetbacks
    BY <1>12, SetbackTyped DEF AppliedAndFailed
  <2>2. task.id \in Ids /\ task.at # "idle"
    BY <1>12, Suspended DEF AppliedAndFailed, At
  <2>3. TaskTyped(task)' /\ Typed(sends)'
    <3>1. CASE Fail
      BY <3>1, <2>2, ParkTyped, DoneTyped DEF Fail
    <3>2. CASE Retry /\ UNCHANGED sends
      BY <3>2, <2>2, RetryTyped DEF FulfillerTypeOK, Typed
    <3>3. QED
      BY <3>1, <3>2, <1>12, FailsHow, NotSettled DEF AppliedAndFailed, At
  <2>4. QED
    BY <1>12, <2>1, <2>3 DEF AppliedAndFailed, chainVars, FulfillerTypeOK, TaskTyped, Typed
<1>13. CASE Unconfirmed
  <2>1. setbacks' \in 0..MaxSetbacks
    BY <1>13, SetbackTyped DEF Unconfirmed
  <2>2. task.id \in Ids /\ TaskTyped(task)'
    BY <1>13, Suspended, RetryTyped DEF Unconfirmed, At
  <2>3. QED
    BY <1>13, <2>1, <2>2 DEF Unconfirmed, FulfillerTypeOK, TaskTyped
<1>14. QED
  BY <1>1, <1>2, <1>3, <1>4, <1>5, <1>6, <1>7, <1>8, <1>9, <1>10, <1>11, <1>12, <1>13 DEF HandlerStep

(* The rest of the world leaves task and sends alone, or resets both.      *)
LEMMA OutsideTyped ==
  ASSUME FulfillerTypeOK,
         ListenerSetback \/ ChainStep \/ LoseLease \/ GainLease \/ Reboot
  PROVE  FulfillerTypeOK'
<1>1. CASE NewRequest
  BY <1>1 DEF NewRequest, FulfillerTypeOK
<1>2. CASE SettledElsewhere
  <2>1. setbacks' \in 0..MaxSetbacks
    BY <1>2, SetbackTyped DEF SettledElsewhere
  <2>2. QED
    BY <1>2, <2>1 DEF SettledElsewhere, FulfillerTypeOK
<1>3. CASE LooseLands
  BY <1>3 DEF LooseLands, FulfillerTypeOK
<1>4. CASE LoseLease
  BY <1>4, SetbackTyped DEF LoseLease, chainVars, FulfillerTypeOK
<1>5. CASE GainLease
  BY <1>5 DEF GainLease, chainVars, FulfillerTypeOK
<1>6. CASE Reboot
  <2>1. setbacks' \in 0..MaxSetbacks
    BY <1>6, SetbackTyped DEF Reboot
  <2>2. At("confirm") => task.id \in Ids
    BY Suspended DEF At
  <2>3. loose' \in SUBSET Ids
    BY <1>6, <2>2 DEF Reboot, FulfillerTypeOK
  <2>4. sends' = [id \in {} |-> 0]
    BY <1>6 DEF Reboot
  <2>5. DOMAIN sends' = {}
    BY <2>4
  <2>6. QED
    BY <1>6, <2>1, <2>3, <2>5 DEF Reboot, FulfillerTypeOK
<1>7. CASE ListenerSetback
  BY <1>7, SetbackTyped DEF ListenerSetback, chainVars, FulfillerTypeOK
<1>8. QED
  BY <1>1, <1>2, <1>3, <1>4, <1>5, <1>6, <1>7 DEF ChainStep

LEMMA TypeInductive ==
  ASSUME FulfillerTypeOK, [FulfillerNext]_fulfillerVars
  PROVE  FulfillerTypeOK'
<1>1. CASE \E id \in Issued : Handle(id)
  BY <1>1, HandleTyped DEF Issued
<1>2. CASE UNCHANGED fulfillerVars
  BY <1>2 DEF fulfillerVars, chainVars, FulfillerTypeOK
<1>3. QED
  BY <1>1, <1>2, HandlerTyped, OutsideTyped DEF FulfillerNext

LEMMA TypeInitial ==
  ASSUME FulfillerInit
  PROVE  FulfillerTypeOK
<1>1. sends = [id \in {} |-> 0]
  BY DEF FulfillerInit
<1>2. DOMAIN sends = {}
  BY <1>1
<1>3. setbacks \in 0..MaxSetbacks
  BY FulfillerConstants DEF FulfillerInit
<1>4. QED
  BY <1>2, <1>3 DEF FulfillerInit, FulfillerTypeOK

(* Type correctness of the worker's serving of requests, index.ts 122-311. *)
THEOREM FulfillerTypeCorrect == FulfillerSpec => []FulfillerTypeOK
<1>1. FulfillerInit => FulfillerTypeOK
  BY TypeInitial
<1>2. FulfillerTypeOK /\ [FulfillerNext]_fulfillerVars => FulfillerTypeOK'
  BY TypeInductive
<1>3. QED
  BY <1>1, <1>2, PTL DEF FulfillerSpec

-----------------------------------------------------------------------------
(* The allowance.  With room for every request nothing is evicted.         *)

LEMMA NothingEvicted ==
  ASSUME MaxId <= MaxTracked, NEW table, DOMAIN table \in SUBSET Ids,
         NEW id, NEW t \in Evicted(table, id)
  PROVE  t = table
<1>1. MaxId \in Nat /\ MaxTracked \in Nat
  BY FulfillerConstants
<1>2. IsFiniteSet(Ids) /\ Cardinality(Ids) = MaxId
  BY <1>1, FS_Interval DEF Ids
<1>3. Cardinality(DOMAIN table) \in Nat /\ Cardinality(DOMAIN table) <= MaxId
  BY <1>2, FS_Subset, FS_CardinalityType
<1>4. Cardinality(DOMAIN table) <= MaxTracked
  BY <1>1, <1>3
<1>5. QED
  BY <1>4 DEF Evicted

LEMMA CountWith ==
  ASSUME FulfillerTypeOK, NEW id \in Ids, NEW n, sends' = With(id, n), NEW i \in Ids
  PROVE  Count(i)' = IF i = id THEN n ELSE Count(i)
BY DEF Count, With

LEMMA CountReserve ==
  ASSUME FulfillerTypeOK, MaxId <= MaxTracked, NEW id \in Ids, Reserve(id), NEW i \in Ids
  PROVE  Count(i)' = IF i = id THEN Count(id) + 1 ELSE Count(i)
<1>1. DOMAIN With(id, Count(id) + 1) \in SUBSET Ids
  BY DEF With, FulfillerTypeOK
<1>2. sends' = With(id, Count(id) + 1)
  BY <1>1, NothingEvicted DEF Reserve
<1>3. QED
  BY <1>2, CountWith

LEMMA CountPark ==
  ASSUME FulfillerTypeOK, MaxId <= MaxTracked, NEW id \in Ids, Park(id), NEW i \in Ids
  PROVE  Count(i)' = IF i = id THEN MaxSends ELSE Count(i)
<1>1. DOMAIN With(id, MaxSends) \in SUBSET Ids
  BY DEF With, FulfillerTypeOK
<1>2. sends' = With(id, MaxSends)
  BY <1>1, NothingEvicted DEF Park
<1>3. QED
  BY <1>2, CountWith

LEMMA CountClear ==
  ASSUME NEW id, Clear(id), NEW i \in Ids
  PROVE  Count(i)' = IF i = id THEN 0 ELSE Count(i)
BY DEF Clear, Count

LEMMA NotOwed ==
  ASSUME NEW i, task.at # "send"
  PROVE  Owed(i) = 0
BY DEF Owed

(* A capped request was not sent too often. *)
LEMMA CappedImpliesCap ==
  ASSUME FulfillerTypeOK, NEW i \in Ids, Capped(i)
  PROVE  sent[i] <= MaxSends /\ sent[i] \in Nat /\ Owed(i) \in {0, 1}
<1>1. MaxSends \in Nat /\ sent[i] \in Nat /\ Owed(i) \in {0, 1}
  BY FulfillerConstants DEF FulfillerTypeOK, Owed
<1>2. Count(i) \in 0..MaxSends
  BY CountTyped
<1>3. QED
  BY <1>1, <1>2 DEF Capped

(* Steps after which no request has less in the table, more sends or less  *)
(* of an outcome, and nothing is owed that was not.                        *)
LEMMA CappedKept ==
  ASSUME FulfillerTypeOK, FulfillerTypeOK', NEW i \in Ids, Capped(i),
         sent'[i] = sent[i],
         Owed(i)' = Owed(i) \/ Owed(i)' = 0,
         Count(i)' >= Count(i),
         Settled(i) => Settled(i)'
  PROVE  Capped(i)'
<1>1. sent[i] \in Nat /\ Owed(i) \in {0, 1}
  BY CappedImpliesCap
<1>2. Count(i) \in 0..MaxSends
  BY CountTyped
<1>3. MaxSends \in Nat
  BY FulfillerConstants
<1>4. Count(i)' \in 0..MaxSends
  <2>1. CASE i \in DOMAIN sends'
    BY <1>3, <2>1 DEF Count, FulfillerTypeOK
  <2>2. CASE i \notin DOMAIN sends'
    BY <1>3, <2>2 DEF Count
  <2>3. QED
    BY <2>1, <2>2
<1>5. CASE sent[i] + Owed(i) <= Count(i)
  BY <1>1, <1>2, <1>3, <1>5, <1>4 DEF Capped
<1>6. CASE Settled(i) /\ sent[i] <= MaxSends /\ Owed(i) = 0
  BY <1>6 DEF Capped
<1>7. QED
  BY <1>5, <1>6 DEF Capped

(* sends[id] is cleared, of a request with an outcome and nothing owed.    *)
LEMMA CappedCleared ==
  ASSUME FulfillerTypeOK, AllCapped, NEW id \in Ids, Clear(id),
         FulfillerTypeOK', UNCHANGED sent, status'[id] \in {"fulfilled", "refunded"},
         task.at # "send", task'.at # "send",
         \A i \in Ids : Settled(i) => Settled(i)'
  PROVE  AllCapped'
<1> SUFFICES ASSUME NEW i \in Ids PROVE Capped(i)'
  BY DEF AllCapped
<1>1. Owed(i)' = 0
  BY DEF Owed
<1>2. CASE i = id
  <2>1. sent[i] <= MaxSends
    BY CappedImpliesCap DEF AllCapped
  <2>2. QED
    BY <1>1, <1>2, <2>1 DEF Capped, Settled
<1>3. CASE i # id
  <2>1. Count(i)' = Count(i) /\ Count(i) \in Int
    BY <1>3, CountClear, CountTyped, FulfillerConstants
  <2>2. QED
    BY <1>1, <2>1, CappedKept DEF AllCapped
<1>4. QED
  BY <1>2, <1>3

(* The allowance of id is used up, of which at most one send was owed.     *)
LEMMA CappedParked ==
  ASSUME FulfillerTypeOK, AllCapped, NEW id \in Ids, MaxId <= MaxTracked, Park(id),
         FulfillerTypeOK', task'.at # "send", UNCHANGED status,
         \A i \in Ids : sent'[i] \in Nat /\ (i # id => sent'[i] = sent[i]),
         sent'[id] <= sent[id] + Owed(id)
  PROVE  AllCapped'
<1> SUFFICES ASSUME NEW i \in Ids PROVE Capped(i)'
  BY DEF AllCapped
<1>1. Owed(i)' = 0
  BY DEF Owed
<1>2. Count(i)' = IF i = id THEN MaxSends ELSE Count(i)
  BY CountPark
<1>3. MaxSends \in Nat
  BY FulfillerConstants
<1>4. CASE i = id
  <2>1. sent[i] \in Nat /\ Owed(i) \in {0, 1} /\ sent[i] <= MaxSends
    BY CappedImpliesCap DEF AllCapped
  <2>2. Count(i) \in 0..MaxSends
    BY CountTyped
  <2>3. sent[i] + Owed(i) <= MaxSends
    BY <1>3, <2>1, <2>2 DEF AllCapped, Capped
  <2>4. sent'[i] + 0 <= Count(i)'
    BY <1>2, <1>3, <1>4, <2>1, <2>3
  <2>5. QED
    BY <1>1, <2>4 DEF Capped
<1>5. CASE i # id
  <2>1. Count(i)' = Count(i) /\ Count(i) \in Int
    BY <1>2, <1>5, CountTyped, FulfillerConstants
  <2>2. QED
    BY <1>1, <1>5, <2>1, CappedKept DEF AllCapped, Settled
<1>6. QED
  BY <1>4, <1>5

(* Neither the table, the sends nor the outcomes go back. *)
LEMMA CappedUndisturbed ==
  ASSUME FulfillerTypeOK, AllCapped, FulfillerTypeOK', UNCHANGED <<sends, sent>>,
         task'.at # "send" \/ UNCHANGED task,
         \A i \in Ids : Settled(i) => Settled(i)'
  PROVE  AllCapped'
<1> SUFFICES ASSUME NEW i \in Ids PROVE Capped(i)'
  BY DEF AllCapped
<1>1. Owed(i)' = Owed(i) \/ Owed(i)' = 0
  BY DEF Owed
<1>2. Count(i)' = Count(i) /\ Count(i) \in Int
  BY CountTyped, FulfillerConstants DEF Count
<1>3. QED
  BY <1>1, <1>2, CappedKept DEF AllCapped

LEMMA HandleCapped ==
  ASSUME FulfillerTypeOK, AllCapped, NEW id \in Ids, Handle(id), FulfillerTypeOK'
  PROVE  AllCapped'
<1>1. CASE Skip(id)
  BY <1>1, CappedUndisturbed DEF Skip, fulfillerVars, chainVars, Settled
<1>2. CASE SkipFulfilled(id)
  <2>1. status'[id] \in {"fulfilled", "refunded"} /\ task.at # "send" /\ task'.at # "send"
    BY <1>2 DEF SkipFulfilled, Settled, chainVars, Idle
  <2>2. QED
    BY <1>2, <2>1, CappedCleared DEF SkipFulfilled, Settled, chainVars
<1>3. CASE Defer(id)
  BY <1>3, CappedUndisturbed DEF Defer, chainVars, Settled
<1>4. CASE Begin(id)
  BY <1>4, CappedUndisturbed DEF Begin, chainVars, Settled
<1>5. QED
  BY <1>1, <1>2, <1>3, <1>4 DEF Handle

LEMMA HandlerCapped ==
  ASSUME FulfillerTypeOK, AllCapped, MaxId <= MaxTracked, HandlerStep, FulfillerTypeOK'
  PROVE  AllCapped'
<1>a. Goto("context") \/ Goto("submit") \/ Goto("confirm") \/ Done =>
        (task.at # "idle" => task'.at # "send")
  BY DoneTyped, GotoTyped DEF Steps
<1>b. \A i \in Ids : sent[i] \in Nat /\ Owed(i) \in {0, 1}
  BY CappedImpliesCap DEF AllCapped
<1>1. CASE FetchBeacon
  BY <1>1, <1>a, CappedUndisturbed DEF FetchBeacon, BeaconRefused, At, chainVars, Settled
<1>2. CASE FetchContext
  BY <1>2, <1>a, CappedUndisturbed DEF FetchContext, At, chainVars, Settled
<1>3. CASE Abort
  BY <1>3, DoneTyped, CappedUndisturbed DEF Abort, chainVars, Settled
<1>4. CASE SimulatedSettled
  <2>1. task.id \in Ids /\ task.at # "send" /\ task'.at # "send"
    BY <1>4, Suspended, DoneTyped DEF SimulatedSettled, FailsAs, At
  <2>2. QED
    BY <1>4, <2>1, CappedCleared DEF SimulatedSettled, Classes, FailsAs, chainVars, Settled
<1>5. CASE SimulationFails
  <2>1. task.id \in Ids /\ task.at # "idle"
    BY <1>5, Suspended DEF SimulationFails, At
  <2>2. CASE Fail
    <3>1. task'.at # "send"
      BY <2>2, DoneTyped DEF Fail
    <3>2. \A i \in Ids : sent'[i] \in Nat /\ (i # task.id => sent'[i] = sent[i])
      BY <1>5, <1>b DEF SimulationFails
    <3>3. sent'[task.id] <= sent[task.id] + Owed(task.id)
      BY <1>5, <1>b, <2>1 DEF SimulationFails
    <3>4. QED
      BY <1>5, <2>1, <2>2, <3>1, <3>2, <3>3, CappedParked DEF Fail, SimulationFails, chainVars
  <2>3. CASE Retry /\ UNCHANGED sends
    BY <1>5, <2>1, <2>3, RetryTyped, CappedUndisturbed DEF SimulationFails, chainVars, Settled
  <2>4. QED
    BY <1>5, <2>2, <2>3, FailsHow DEF SimulationFails
<1>6. CASE ResourceBoundExceeded
  <2>1. task.id \in Ids /\ task.at # "idle"
    BY <1>6, Suspended DEF ResourceBoundExceeded, At
  <2>2. CASE Fail
    <3>1. task'.at # "send"
      BY <2>2, DoneTyped DEF Fail
    <3>2. \A i \in Ids : sent'[i] \in Nat /\ (i # task.id => sent'[i] = sent[i])
      BY <1>6, <1>b DEF ResourceBoundExceeded
    <3>3. sent'[task.id] <= sent[task.id] + Owed(task.id)
      BY <1>6, <1>b, <2>1 DEF ResourceBoundExceeded
    <3>4. QED
      BY <1>6, <2>1, <2>2, <3>1, <3>2, <3>3, CappedParked DEF Fail, ResourceBoundExceeded, chainVars
  <2>3. CASE Retry /\ UNCHANGED sends
    BY <1>6, <2>1, <2>3, RetryTyped, CappedUndisturbed DEF ResourceBoundExceeded, chainVars, Settled
  <2>4. QED
    BY <1>6, <2>2, <2>3, FailsHow DEF ResourceBoundExceeded
<1>7. CASE GateOpens
  <2>1. task.id \in Ids /\ task.at # "send"
    BY <1>7, Suspended DEF GateOpens, At
  <2>2. task'.id = task.id /\ task'.at = "send"
    BY <1>7, GotoTyped DEF GateOpens, At, Steps
  <2> SUFFICES ASSUME NEW i \in Ids PROVE Capped(i)'
    BY DEF AllCapped
  <2>3. Owed(i) = 0 /\ Owed(i)' = IF i = task.id THEN 1 ELSE 0
    BY <2>1, <2>2 DEF Owed
  <2>4. Count(i)' = IF i = task.id THEN Count(task.id) + 1 ELSE Count(i)
    BY <1>7, <2>1, CountReserve DEF GateOpens
  <2>5. Count(i) \in 0..MaxSends /\ MaxSends \in Nat
    BY CountTyped, FulfillerConstants
  <2>6. CASE i = task.id
    <3>1. ~Settled(i) /\ sent'[i] = sent[i]
      BY <1>7, <2>6 DEF GateOpens, Settled
    <3>2. sent[i] <= Count(i)
      BY <2>3, <3>1, <1>b DEF AllCapped, Capped
    <3>3. sent'[i] + Owed(i)' <= Count(i)'
      BY <1>b, <2>3, <2>4, <2>5, <2>6, <3>1, <3>2
    <3>4. QED
      BY <3>3 DEF Capped
  <2>7. CASE i # task.id
    BY <1>7, <2>3, <2>4, <2>5, <2>7, CappedKept DEF GateOpens, AllCapped, Settled, chainVars
  <2>8. QED
    BY <2>6, <2>7
<1>8. CASE GateRefuses
  BY <1>8, DoneTyped, CappedUndisturbed DEF GateRefuses, chainVars, Settled
<1>9. CASE Send
  <2>1. task.id \in Ids /\ task'.at # "send" /\ task.at = "send"
    BY <1>9, <1>a, Suspended DEF Send, At
  <2>2. sent' = [sent EXCEPT ![task.id] = @ + 1]
    BY <1>9 DEF Send
  <2> SUFFICES ASSUME NEW i \in Ids PROVE Capped(i)'
    BY DEF AllCapped
  <2>3. Owed(i)' = 0 /\ Owed(i) = IF i = task.id THEN 1 ELSE 0
    BY <2>1 DEF Owed
  <2>4. Count(i)' = Count(i) /\ Count(i) \in 0..MaxSends /\ MaxSends \in Nat
    BY <1>9, CountTyped, FulfillerConstants DEF Send, Count
  <2>5. CASE i = task.id
    <3>1. sent'[i] = sent[i] + 1 /\ sent[i] + 1 <= Count(i)
      BY <1>b, <2>1, <2>2, <2>3, <2>5 DEF AllCapped, Capped, FulfillerTypeOK
    <3>2. QED
      BY <1>b, <2>3, <2>4, <3>1 DEF Capped
  <2>6. CASE i # task.id
    <3>1. sent'[i] = sent[i]
      BY <2>1, <2>2, <2>6 DEF FulfillerTypeOK
    <3>2. QED
      BY <1>9, <2>3, <2>4, <3>1, CappedKept DEF Send, AllCapped, Settled, chainVars
  <2>7. QED
    BY <2>5, <2>6
<1>10. CASE SendFails
  <2>1. task.id \in Ids /\ task.at = "send" /\ Owed(task.id) = 1
    BY <1>10, Suspended DEF SendFails, At, Owed
  <2>2. \A i \in Ids : sent'[i] = IF i = task.id THEN sent[i] + 1 ELSE sent[i]
    BY <1>10, <2>1 DEF SendFails, FulfillerTypeOK
  <2>3. CASE Fail
    <3>1. task'.at # "send"
      BY <2>3, DoneTyped DEF Fail
    <3>2. \A i \in Ids : sent'[i] \in Nat /\ (i # task.id => sent'[i] = sent[i])
      BY <1>b, <2>2
    <3>3. sent'[task.id] <= sent[task.id] + Owed(task.id)
      BY <1>b, <2>1, <2>2
    <3>4. QED
      BY <1>10, <2>1, <2>3, <3>1, <3>2, <3>3, CappedParked DEF Fail, SendFails
  <2>4. CASE Retry /\ UNCHANGED sends
    <3>1. task'.at # "send"
      BY <2>1, <2>4, RetryTyped
    <3> SUFFICES ASSUME NEW i \in Ids PROVE Capped(i)'
      BY DEF AllCapped
    <3>2. Owed(i)' = 0 /\ Owed(i) = IF i = task.id THEN 1 ELSE 0
      BY <2>1, <3>1 DEF Owed
    <3>3. Count(i)' = Count(i) /\ Count(i) \in 0..MaxSends /\ MaxSends \in Nat
      BY <2>4, CountTyped, FulfillerConstants DEF Count
    <3>4. CASE i = task.id
      <4>1. sent'[i] = sent[i] + 1 /\ sent[i] + 1 <= Count(i)
        BY <1>b, <2>2, <3>2, <3>4 DEF AllCapped, Capped
      <4>2. QED
        BY <1>b, <3>2, <3>3, <4>1 DEF Capped
    <3>5. CASE i # task.id
      BY <1>10, <2>2, <3>2, <3>3, <3>5, CappedKept DEF SendFails, AllCapped, Settled
    <3>6. QED
      BY <3>4, <3>5
  <2>5. QED
    BY <1>10, <2>3, <2>4, FailsHow, NotSettled DEF SendFails, At
<1>11. CASE Confirmed
  <2>1. task.id \in Ids /\ task.at # "send" /\ task'.at # "send"
    BY <1>11, Suspended, DoneTyped DEF Confirmed, At
  <2>2. /\ status'[task.id] \in {"fulfilled", "refunded"}
        /\ \A i \in Ids : Settled(i) => Settled(i)'
    BY <1>11, <2>1 DEF Confirmed, Settled, FulfillerTypeOK
  <2>3. QED
    BY <1>11, <2>1, <2>2, CappedCleared DEF Confirmed
<1>12. CASE AppliedAndFailed
  <2>1. task.id \in Ids /\ task.at # "idle"
    BY <1>12, Suspended DEF AppliedAndFailed, At
  <2>2. CASE Fail
    <3>1. task'.at # "send"
      BY <2>2, DoneTyped DEF Fail
    <3>2. \A i \in Ids : sent'[i] \in Nat /\ (i # task.id => sent'[i] = sent[i])
      BY <1>12, <1>b DEF AppliedAndFailed
    <3>3. sent'[task.id] <= sent[task.id] + Owed(task.id)
      BY <1>12, <1>b, <2>1 DEF AppliedAndFailed
    <3>4. QED
      BY <1>12, <2>1, <2>2, <3>1, <3>2, <3>3, CappedParked DEF Fail, AppliedAndFailed, chainVars
  <2>3. CASE Retry /\ UNCHANGED sends
    BY <1>12, <2>1, <2>3, RetryTyped, CappedUndisturbed DEF AppliedAndFailed, chainVars, Settled
  <2>4. QED
    BY <1>12, <2>2, <2>3, FailsHow, NotSettled DEF AppliedAndFailed, At
<1>13. CASE Unconfirmed
  BY <1>13, RetryTyped, CappedUndisturbed DEF Unconfirmed, At, Settled
<1>14. QED
  BY <1>1, <1>2, <1>3, <1>4, <1>5, <1>6, <1>7, <1>8, <1>9, <1>10, <1>11, <1>12, <1>13 DEF HandlerStep

(* An outcome is never taken back, and a new request was not sent before.  *)
LEMMA OutcomesStay ==
  ASSUME FulfillerTypeOK, ChainStep, NEW i \in Ids, Settled(i)
  PROVE  Settled(i)'
<1>1. CASE NewRequest
  <2>1. PICK id \in Ids : Issued = 1..(id - 1) /\ status' = [status EXCEPT ![id] = "pending"]
    BY <1>1 DEF NewRequest
  <2>2. i \in Issued
    BY DEF Issued, Settled
  <2>3. i # id
    BY <2>1, <2>2, FulfillerConstants DEF Ids
  <2>4. QED
    BY <2>1, <2>3 DEF Settled, FulfillerTypeOK
<1>2. CASE SettledElsewhere
  BY <1>2 DEF SettledElsewhere, Settled, FulfillerTypeOK
<1>3. CASE LooseLands
  BY <1>3 DEF LooseLands, Settled, FulfillerTypeOK
<1>4. QED
  BY <1>1, <1>2, <1>3 DEF ChainStep

LEMMA OutsideCapped ==
  ASSUME FulfillerTypeOK, AllCapped, FulfillerTypeOK',
         ListenerSetback \/ ChainStep \/ LoseLease \/ GainLease \/ Reboot
  PROVE  AllCapped'
<1>1. CASE ChainStep
  <2>1. UNCHANGED <<sends, sent, task>>
    BY <1>1 DEF ChainStep, NewRequest, SettledElsewhere, LooseLands
  <2>2. QED
    BY <1>1, <2>1, OutcomesStay, CappedUndisturbed
<1>2. CASE LoseLease
  BY <1>2, CappedUndisturbed DEF LoseLease, chainVars, Settled
<1>3. CASE GainLease
  BY <1>3, CappedUndisturbed DEF GainLease, chainVars, Settled
<1>4. CASE Reboot
  <2> SUFFICES ASSUME NEW i \in Ids PROVE Capped(i)'
    BY DEF AllCapped
  <2>1. sent'[i] = 0 /\ task'.at # "send"
    BY <1>4 DEF Reboot, Idle
  <2>2. sends' = [id \in {} |-> 0]
    BY <1>4 DEF Reboot
  <2>3. Count(i)' = 0
    BY <2>2 DEF Count
  <2>4. Owed(i)' = 0
    BY <2>1 DEF Owed
  <2>5. QED
    BY <2>1, <2>3, <2>4 DEF Capped
<1>5. CASE ListenerSetback
  BY <1>5, CappedUndisturbed DEF ListenerSetback, chainVars, Settled
<1>6. QED
  BY <1>1, <1>2, <1>3, <1>4, <1>5

-----------------------------------------------------------------------------
(* "hard cap on fulfill() sendTransaction() calls per request"             *)
(* (sendAttempts.ts:2): as long as the table has room for every request, a *)
(* process sends at most MaxSends transactions for any of them.            *)
THEOREM SendsCapped ==
  ASSUME MaxId <= MaxTracked
  PROVE  FulfillerSpec => []SendCap
<1> DEFINE Inv == FulfillerTypeOK /\ AllCapped
<1>1. FulfillerInit => Inv
  <2> SUFFICES ASSUME FulfillerInit PROVE Inv
    OBVIOUS
  <2>1. sends = [id \in {} |-> 0]
    BY DEF FulfillerInit
  <2>2. \A i \in Ids : Count(i) = 0
    BY <2>1 DEF Count
  <2>3. \A i \in Ids : Owed(i) = 0 /\ sent[i] = 0
    BY DEF FulfillerInit, Idle, Owed
  <2>4. QED
    BY <2>2, <2>3, TypeInitial DEF AllCapped, Capped
<1>2. Inv /\ [FulfillerNext]_fulfillerVars => Inv'
  <2> SUFFICES ASSUME Inv, [FulfillerNext]_fulfillerVars PROVE AllCapped'
    BY TypeInductive
  <2>1. FulfillerTypeOK'
    BY TypeInductive
  <2>2. CASE \E id \in Issued : Handle(id)
    BY <2>1, <2>2, HandleCapped DEF Issued
  <2>3. CASE UNCHANGED fulfillerVars
    BY <2>1, <2>3, CappedUndisturbed DEF fulfillerVars, chainVars, Settled
  <2>4. QED
    BY <2>1, <2>2, <2>3, HandlerCapped, OutsideCapped DEF FulfillerNext
<1>3. Inv => SendCap
  BY CappedImpliesCap DEF AllCapped, SendCap
<1>4. QED
  BY <1>1, <1>2, <1>3, PTL DEF FulfillerSpec

-----------------------------------------------------------------------------
(* The listener *)

(* What it will hand to the handler are requests of the contract, whose    *)
(* ids have no gaps, and a loop that goes on has failures left.            *)
Polling == {"poll", "events", "periodic", "reconciling"}

Gapless == \E n \in 0..MaxId : Issued = 1..n

WorkerInv ==
  /\ TypeOK
  /\ queue \subseteq Issued
  /\ Gapless
  /\ phase \in Polling => failures < MaxPollFailures

LEMMA CounterFacts ==
  ASSUME Gapless
  PROVE  Counter \in 0..MaxId /\ Issued = 1..Counter
<1>1. PICK n \in 0..MaxId : Issued = 1..n
  BY DEF Gapless
<1>2. n \in Nat
  BY <1>1, FulfillerConstants
<1>3. Cardinality(1..n) = IF 1 > n THEN 0 ELSE n - 1 + 1
  BY <1>2, FS_Interval
<1>4. Counter = n
  BY <1>1, <1>2, <1>3 DEF Counter
<1>. QED BY <1>1, <1>4

(* The window, the sweep over older ids and where it goes on. *)
LEMMA ScanFacts ==
  ASSUME WorkerInv
  PROVE  Found \subseteq Issued /\ SweepAfter \in Ids \cup {None}
<1> DEFINE n == Counter
<1>1. n \in 0..MaxId /\ n \in Int /\ Issued = 1..n /\ MaxId \in Nat
  BY CounterFacts, FulfillerConstants DEF WorkerInv
<1>2. MaxScan \in Nat \ {0}
  BY ListenerConstants
<1>3. sweep \in Ids \cup {None}
  BY DEF WorkerInv, TypeOK
<1>4. Floor = IF n - MaxScan + 1 >= 1 THEN n - MaxScan + 1 ELSE 1
  BY DEF Floor, AtLeastOne
<1> HIDE DEF n
<1>5. Floor \in Nat \ {0} /\ (Floor > 1 => Floor <= n)
  BY <1>1, <1>2, <1>4
<1>6. Floor > 1 => OlderTop \in 1..n
  BY <1>1, <1>3, <1>5 DEF OlderTop, Ids
<1>7. Floor > 1 => OlderBottom \in 1..n
  BY <1>1, <1>2, <1>6 DEF OlderBottom, AtLeastOne
<1>8. \A id \in Scanned : id \in 1..n
  BY <1>1, <1>5, <1>6, <1>7 DEF Scanned, n
<1>9. SweepAfter \in Ids \cup {None}
  BY <1>1, <1>7 DEF SweepAfter, Ids
<1>. QED BY <1>1, <1>8, <1>9 DEF Found

LEMMA ClampTyped ==
  ASSUME WorkerInv, NEW ledger \in Int
  PROVE  Clamp(ledger) \in 0..MaxId
<1> DEFINE n == Counter
<1>1. n \in 0..MaxId /\ MaxId \in Nat
  BY CounterFacts, FulfillerConstants DEF WorkerInv
<1>2. Retention \in Nat
  BY ListenerConstants
<1>3. Oldest = IF n - Retention + 1 >= 1 THEN n - Retention + 1 ELSE 1
  BY DEF Oldest, AtLeastOne
<1>4. Clamp(ledger) = LET kept == IF ledger < Oldest + 1 THEN Oldest + 1 ELSE ledger IN
                      IF kept > n THEN n ELSE kept
  BY DEF Clamp
<1> HIDE DEF n
<1>. QED BY <1>1, <1>2, <1>3, <1>4

(* A page holds requests of the contract, and ends with one. *)
LEMMA PageFacts ==
  ASSUME WorkerInv
  PROVE  Page \subseteq Issued /\ Start \in Int /\ PageEnd \in 0..MaxId
         /\ (lastCursor = None => Start \in 0..MaxId)
<1> DEFINE n == Counter
<1>1. n \in 0..MaxId /\ MaxId \in Nat /\ Issued = 1..n
  BY CounterFacts, FulfillerConstants DEF WorkerInv
<1>2. /\ lastCursor \in 0..MaxId \cup {None}
      /\ lastLedger \in 0..MaxId \cup {None}
  BY DEF WorkerInv, TypeOK
<1>3. lastLedger # None => Clamp(lastLedger) \in 0..MaxId
  BY <1>1, <1>2, ClampTyped
<1>4. Start = IF lastCursor # None THEN lastCursor + 1
              ELSE IF lastLedger # None THEN Clamp(lastLedger) ELSE n
  BY DEF Start
<1>5. PageEnd = IF Start + PageLimit - 1 < n THEN Start + PageLimit - 1 ELSE n
  BY DEF PageEnd
<1>6. Page \subseteq 1..n
  BY DEF Page
<1>7. PageLimit \in Nat \ {0}
  BY ListenerConstants
<1> HIDE DEF n
<1>8. Start \in Nat /\ (lastCursor = None => Start \in 0..MaxId)
  BY <1>1, <1>2, <1>3, <1>4
<1>9. PageEnd \in 0..MaxId
  BY <1>1, <1>5, <1>7, <1>8
<1>. QED BY <1>1, <1>6, <1>8, <1>9

-----------------------------------------------------------------------------
(* Requests are never taken back. *)

LEMMA IssuedKept ==
  ASSUME FulfillerTypeOK, Gapless, [FulfillerNext]_fulfillerVars
  PROVE  Issued \subseteq Issued' /\ Gapless'
<1>1. CASE NewRequest
  <2>1. PICK id \in Ids : Issued = 1..(id - 1) /\ status' = [status EXCEPT ![id] = "pending"]
    BY <1>1 DEF NewRequest
  <2>2. Issued' = Issued \cup {id}
    BY <2>1 DEF Issued, FulfillerTypeOK
  <2>3. id \in 1..MaxId /\ MaxId \in Nat
    BY FulfillerConstants DEF Ids
  <2>4. 1..(id - 1) \cup {id} = 1..id /\ id \in 0..MaxId
    BY <2>3
  <2>. QED BY <2>1, <2>2, <2>4 DEF Gapless
<1>2. CASE ~NewRequest
  <2>1. \A i \in Ids : status'[i] # status[i] => status[i] # "none" /\ status'[i] # "none"
    <3>1. CASE Confirmed
      BY <3>1 DEF Confirmed, FulfillerTypeOK
    <3>2. CASE SettledElsewhere
      BY <3>2 DEF SettledElsewhere, FulfillerTypeOK
    <3>3. CASE LooseLands
      BY <3>3 DEF LooseLands, FulfillerTypeOK
    <3>4. CASE UNCHANGED status
      BY <3>4
    <3>5. CASE HandlerStep /\ ~Confirmed
      BY <3>4, <3>5 DEF HandlerStep, FetchBeacon, FetchContext, Abort, SimulatedSettled,
        SimulationFails, ResourceBoundExceeded, GateOpens, GateRefuses, Send, SendFails,
        AppliedAndFailed, Unconfirmed, chainVars
    <3>6. CASE \E id \in Issued : Handle(id)
      BY <3>4, <3>6 DEF Handle, Skip, SkipFulfilled, Defer, Begin, fulfillerVars, chainVars
    <3>7. CASE ListenerSetback \/ LoseLease \/ GainLease \/ Reboot \/ UNCHANGED fulfillerVars
      BY <3>4, <3>7 DEF ListenerSetback, LoseLease, GainLease, Reboot, fulfillerVars, chainVars
    <3>. QED
      BY <1>2, <3>1, <3>2, <3>3, <3>5, <3>6, <3>7 DEF FulfillerNext, ChainStep
  <2>2. Issued' = Issued
    BY <2>1 DEF Issued
  <2>. QED BY <2>2 DEF Gapless
<1>. QED BY <1>1, <1>2

-----------------------------------------------------------------------------
(* The listener's steps are steps of the handler or none of its business.  *)

LEMMA ReconcileSteps ==
  ASSUME NEW next, NEW failed, Reconcile(next, failed),
         UNCHANGED <<chainVars, leader, task, sends, sent>>
  PROVE  ListenerSetback \/ UNCHANGED fulfillerVars
BY DEF Reconcile, ListenerSetback, fulfillerVars, chainVars

LEMMA WorkerSteps ==
  ASSUME WorkerInv, [Next]_vars
  PROVE  [FulfillerNext]_fulfillerVars
<1>1. CASE SessionStep
  <2>1. CASE StartSession
    BY <2>1, ReconcileSteps DEF StartSession, FulfillerNext
  <2>2. CASE HandNext
    BY <2>2 DEF HandNext, WorkerInv, FulfillerNext
  <2>3. CASE HandingEnds \/ SessionCrashes
    BY <2>3 DEF HandingEnds, SessionCrashes, fulfillerVars
  <2>4. CASE InitListener
    BY <2>4 DEF InitListener, ListenerSetback, FulfillerNext, fulfillerVars, chainVars
  <2>5. CASE Poll
    BY <2>5 DEF Poll, PollSucceeds, PollFails, ListenerSetback, FulfillerNext, fulfillerVars,
      chainVars
  <2>6. CASE Periodic
    BY <2>6, ReconcileSteps DEF Periodic, FulfillerNext
  <2>. QED BY <1>1, <2>1, <2>2, <2>3, <2>4, <2>5, <2>6 DEF SessionStep
<1>2. CASE PeriodicNotDue
  BY <1>2 DEF PeriodicNotDue
<1>3. CASE Serving \/ ChainStep \/ BecomeLeader \/ LoseLeadership \/ Restart
  BY <1>3 DEF Serving, BecomeLeader, LoseLeadership, Restart, FulfillerNext
<1>4. CASE UNCHANGED vars
  BY <1>4 DEF vars
<1>. QED BY <1>1, <1>2, <1>3, <1>4 DEF Next

LEMMA WorkerInitial ==
  ASSUME Init
  PROVE  WorkerInv
<1>1. FulfillerTypeOK
  BY TypeInitial DEF Init
<1>2. Issued = 1..0 /\ 0 \in 0..MaxId
  BY FulfillerConstants DEF Init, FulfillerInit, Issued
<1>3. 0 \in 0..MaxPollFailures
  BY ListenerConstants
<1>4. "off" \in Phases /\ "off" \notin Polling
  BY DEF Phases, Polling
<1>. QED BY <1>1, <1>2, <1>3, <1>4 DEF Init, WorkerInv, TypeOK, Gapless

(* Where the session may go on from, and what it goes through then. *)
Sessions ==
  /\ phase \in Phases
  /\ current \in BOOLEAN
  /\ queue \subseteq Issued
  /\ lastCursor \in 0..MaxId \cup {None}
  /\ lastLedger \in 0..MaxId \cup {None}
  /\ sweep \in Ids \cup {None}
  /\ failures \in 0..MaxPollFailures
  /\ phase \in Polling => failures < MaxPollFailures

LEMMA ReconcileKeeps ==
  ASSUME WorkerInv, NEW next, NEW failed, Reconcile(next, failed)
  PROVE  /\ queue' \subseteq Issued /\ sweep' \in Ids \cup {None}
         /\ phase' \in {next, failed}
BY ScanFacts DEF Reconcile, WorkerInv, TypeOK

LEMMA SessionKeeps ==
  ASSUME WorkerInv, Issued \subseteq Issued', SessionStep
  PROVE  Sessions'
<1> USE DEF WorkerInv, TypeOK, Sessions, positionVars
<1>a. /\ MaxPollFailures \in Nat \ {0}
      /\ leader \in BOOLEAN
  BY ListenerConstants DEF FulfillerTypeOK
<1>b. /\ Handing \cup {"off", "start", "init", "poll", "periodic", "crashed"} \subseteq Phases
      /\ {"recovering", "init", "start", "off", "crashed"} \cap Polling = {}
      /\ Polling \subseteq Phases
  BY DEF Phases, Handing, Polling
<1>1. CASE StartSession
  <2>1. UNCHANGED <<lastCursor, lastLedger, failures, current>> /\ Reconcile("recovering", "recovering")
    BY <1>1 DEF StartSession
  <2>2. queue' \subseteq Issued /\ sweep' \in Ids \cup {None} /\ phase' = "recovering"
    BY <2>1, ReconcileKeeps
  <2>3. "recovering" \in Phases /\ "recovering" \notin Polling
    BY DEF Phases, Handing, Polling
  <2>. QED BY <2>1, <2>2, <2>3
<1>2. CASE HandNext
  BY <1>2 DEF HandNext
<1>3. CASE HandingEnds
  <2>1. /\ queue' = {} /\ phase \in Handing
        /\ UNCHANGED <<lastCursor, lastLedger, failures, sweep>>
    BY <1>3 DEF HandingEnds
  <2>2. CASE SessionOver
    BY <1>a, <1>b, <2>1, <2>2 DEF SessionOver
  <2>3. CASE phase' = NextAfter[phase] /\ UNCHANGED current
    BY <1>b, <2>1, <2>3 DEF NextAfter, Handing, Polling
  <2>. QED BY <1>3, <2>2, <2>3 DEF HandingEnds
<1>4. CASE InitListener
  <2>1. UNCHANGED <<queue, sweep>>
    BY <1>4 DEF InitListener
  <2>2. CASE SessionOver /\ UNCHANGED positionVars
    BY <1>a, <1>b, <2>1, <2>2 DEF SessionOver
  <2>3. CASE /\ lastLedger' = Clamp(Counter - StartupLookback) /\ lastCursor' = None
             /\ failures' = 0 /\ phase' = "poll" /\ UNCHANGED current
    <3>1. Counter - StartupLookback \in Int
      BY CounterFacts, FulfillerConstants, ListenerConstants
    <3>2. lastLedger' \in 0..MaxId
      BY <2>3, <3>1, ClampTyped
    <3>. QED BY <1>a, <1>b, <2>1, <2>3, <3>2 DEF Polling
  <2>. QED BY <1>4, <2>2, <2>3 DEF InitListener
<1>5. CASE Poll
  <2>1. UNCHANGED sweep /\ phase = "poll" /\ failures < MaxPollFailures
    BY <1>5 DEF Poll, Polling
  <2>2. CASE SessionOver /\ UNCHANGED <<positionVars, queue>>
    BY <1>a, <1>b, <2>1, <2>2 DEF SessionOver
  <2>3. CASE PollSucceeds /\ UNCHANGED current
    <3>1. /\ queue' = Page /\ lastCursor' = PageEnd
          /\ lastLedger' = IF Page # {} THEN PageEnd
                           ELSE IF lastCursor = None THEN Start ELSE lastLedger
          /\ failures' = 0 /\ phase' = "events"
      BY <2>3 DEF PollSucceeds
    <3>2. lastLedger' \in 0..MaxId \cup {None} /\ lastCursor' \in 0..MaxId
      BY <3>1, PageFacts
    <3>3. queue' \subseteq Issued
      BY <3>1, PageFacts
    <3>. QED BY <1>a, <1>b, <2>1, <2>3, <3>1, <3>2, <3>3 DEF Polling
  <2>4. CASE PollFails /\ UNCHANGED current
    <3>1. /\ failures' = failures + 1 /\ queue' = {}
          /\ phase' = IF failures' >= MaxPollFailures THEN "crashed" ELSE "events"
          /\ Resync \/ UNCHANGED <<lastCursor, lastLedger>>
      BY <2>4 DEF PollFails
    <3>2. Counter - ResyncLookback \in Int
      BY CounterFacts, FulfillerConstants, ListenerConstants
    <3>3. /\ lastLedger' \in 0..MaxId \cup {None}
          /\ lastCursor' \in 0..MaxId \cup {None}
      BY <3>1, <3>2, ClampTyped DEF Resync
    <3>4. /\ failures' \in 0..MaxPollFailures
          /\ phase' \in Polling => failures' < MaxPollFailures
      BY <1>a, <2>1, <3>1 DEF Polling
    <3>5. phase' \in Phases
      BY <1>b, <3>1 DEF Polling
    <3>. QED BY <2>1, <2>4, <3>1, <3>3, <3>4, <3>5
  <2>. QED BY <1>5, <2>2, <2>3, <2>4 DEF Poll
<1>6. CASE SessionCrashes
  BY <1>6, <1>a, <1>b DEF SessionCrashes, SessionOver
<1>7. CASE Periodic
  <2>1. /\ UNCHANGED <<lastCursor, lastLedger, failures, current>> /\ phase = "periodic"
        /\ Reconcile("reconciling", "poll")
    BY <1>7 DEF Periodic
  <2>2. queue' \subseteq Issued /\ sweep' \in Ids \cup {None} /\ phase' \in {"reconciling", "poll"}
    BY <2>1, ReconcileKeeps
  <2>3. {"reconciling", "poll", "periodic"} \subseteq Polling /\ Polling \subseteq Phases
    BY DEF Phases, Handing, Polling
  <2>4. failures' < MaxPollFailures
    BY <2>1, <2>3
  <2>. QED BY <2>1, <2>2, <2>3, <2>4
<1>. QED
  BY <1>1, <1>2, <1>3, <1>4, <1>5, <1>6, <1>7 DEF SessionStep

LEMMA WorkerKeeps ==
  ASSUME WorkerInv, [Next]_vars
  PROVE  WorkerInv'
<1>1. FulfillerTypeOK' /\ Issued \subseteq Issued' /\ Gapless'
  BY WorkerSteps, TypeInductive, IssuedKept DEF WorkerInv, TypeOK
<1>2. Sessions'
  <2> USE DEF WorkerInv, TypeOK, Sessions
  <2>1. CASE SessionStep
    BY <1>1, <2>1, SessionKeeps
  <2>2. CASE PeriodicNotDue
    BY <1>1, <2>2 DEF PeriodicNotDue, positionVars, Phases, Handing, Polling
  <2>3. CASE \/ (Serving \/ ChainStep) /\ UNCHANGED <<positionVars, sessionVars>>
             \/ UNCHANGED vars
    BY <1>1, <2>3 DEF vars, positionVars, sessionVars
  <2>4. CASE BecomeLeader \/ LoseLeadership
    BY <1>1, <2>4 DEF BecomeLeader, LoseLeadership, positionVars, Phases, Handing, Polling
  <2>5. CASE Restart
    <3>1. /\ phase' = "off" /\ current' = FALSE /\ queue' = {} /\ failures' = 0
          /\ lastCursor' = None /\ lastLedger' = None /\ sweep' = None
      BY <2>5 DEF Restart
    <3>2. "off" \in Phases /\ "off" \notin Polling /\ 0 \in 0..MaxPollFailures
      BY ListenerConstants DEF Phases, Polling
    <3>. QED BY <3>1, <3>2
  <2>. QED BY <2>1, <2>2, <2>3, <2>4, <2>5 DEF Next, Serving
<1>3. queue' \subseteq Ids
  BY <1>2 DEF Sessions, Issued, Ids
<1>. QED BY <1>1, <1>2, <1>3 DEF WorkerInv, TypeOK, Sessions

LEMMA WorkerInvariant == Spec => []WorkerInv
<1>1. Init => WorkerInv
  BY WorkerInitial
<1>2. WorkerInv /\ [Next]_vars => WorkerInv'
  BY WorkerKeeps
<1>. QED BY <1>1, <1>2, PTL DEF Spec

(* Type correctness of the worker with its listener, listener.ts 64-623.   *)
THEOREM WorkerTypeCorrect == Spec => []TypeOK
<1>1. WorkerInv => TypeOK
  BY DEF WorkerInv
<1>. QED BY <1>1, WorkerInvariant, PTL

(* Whatever pages, resyncs, reconciliations and restarted sessions do, the *)
(* listener hands its handler only requests the contract issued, one at a  *)
(* time: the worker implements Fulfiller.                                  *)
THEOREM WorkerIsFulfiller == Spec => FulfillerSpec
<1>1. Init => FulfillerInit
  BY DEF Init
<1>2. WorkerInv /\ [Next]_vars => [FulfillerNext]_fulfillerVars
  BY WorkerSteps
<1>. QED BY <1>1, <1>2, WorkerInvariant, PTL DEF Spec, FulfillerSpec

(* The hard cap on sends per request holds for the worker with all its     *)
(* ways of coming back to a request.                                       *)
THEOREM WorkerSendsCapped ==
  ASSUME MaxId <= MaxTracked
  PROVE  Spec => []SendCap
BY WorkerIsFulfiller, SendsCapped, PTL
=============================================================================
