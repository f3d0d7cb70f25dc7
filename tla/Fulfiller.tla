----------------------------- MODULE Fulfiller -----------------------------
(***************************************************************************)
(* One worker serving requests (oracle-worker/src): handleRequest() of     *)
(* index.ts, submitFulfillment() of fulfiller.ts with its two nested retry *)
(* loops, the error classes of fulfillErrors.ts and the per-request send   *)
(* allowance of sendAttempts.ts.  Requests come to it one at a time, in    *)
(* any order and any number of times; Listener.tla says which.             *)
(*                                                                         *)
(* Whatever goes wrong - an RPC error, a refused or lost transaction, a    *)
(* trapping callback, a fee guard that says no, another node or a refund   *)
(* that settles the request first, a lost lease, a restart - is a setback, *)
(* and MaxSetbacks bounds how often that happens.                          *)
(***************************************************************************)
EXTENDS Integers, FiniteSets

CONSTANTS
  MaxId,       \* requests the contract issues
  MaxSends,    \* maxSendsPerRequest
  MaxTracked,  \* maxTrackedRequests
  MaxAttempts, \* MAX_RETRIES of withFulfillRetry times those of submitFulfillment
  MaxSetbacks, \* bound: setbacks
  None

ASSUME FulfillerConstants ==
  /\ MaxId \in Nat /\ MaxSends \in Nat \ {0} /\ MaxTracked \in Nat \ {0}
  /\ MaxAttempts \in Nat \ {0} /\ MaxSetbacks \in Nat

VARIABLES
  status,   \* what the contract says of each request
  loose,    \* requests with a transaction whose outcome the worker never learned
  leader,   \* isLeader()
  task,     \* the request in handleRequest(), where it is suspended, its attempt
  sends,    \* SendAttemptTracker.sends: what each tracked request has used up
  sent,     \* sendTransaction() calls of this process, which no code keeps
  setbacks

chainVars == <<status, loose>>
fulfillerVars == <<chainVars, leader, task, sends, sent, setbacks>>

Ids == 1..MaxId
Steps == {"beacon", "context", "submit", "send", "confirm"}
Idle == [id |-> None, at |-> "idle", attempt |-> 0]

Setback == setbacks < MaxSetbacks /\ setbacks' = setbacks + 1

-----------------------------------------------------------------------------
(* sendAttempts.ts *)

Count(id) == IF id \in DOMAIN sends THEN sends[id] ELSE 0

Exhausted(id) == Count(id) >= MaxSends

(* The entry of id was just written, so it is not the oldest; which of the *)
(* others is, is left open.                                                *)
Evicted(table, id) ==
  IF Cardinality(DOMAIN table) <= MaxTracked THEN {table}
  ELSE {[i \in DOMAIN table \ {oldest} |-> table[i]] : oldest \in DOMAIN table \ {id}}

With(id, n) == [i \in DOMAIN sends \cup {id} |-> IF i = id THEN n ELSE sends[i]]

Reserve(id) == sends' \in Evicted(With(id, Count(id) + 1), id)

Park(id) == sends' \in Evicted(With(id, MaxSends), id)

Clear(id) == sends' = [i \in DOMAIN sends \ {id} |-> sends[i]]

-----------------------------------------------------------------------------
(* handleRequest() *)

Done == task' = Idle
Goto(step) == task' = [task EXCEPT !.at = step]
At(step) == task.at = step

(* isRequestFulfilled() answers false when it cannot be read. *)
SeenUnfulfilled(id) ==
  \/ status[id] # "fulfilled" /\ UNCHANGED setbacks
  \/ status[id] = "fulfilled" /\ Setback

Skip(id) ==
  /\ task = Idle
  /\ ~leader \/ (status[id] # "fulfilled" /\ Exhausted(id))
  /\ UNCHANGED fulfillerVars

SkipFulfilled(id) ==
  /\ task = Idle /\ leader /\ status[id] = "fulfilled"
  /\ Clear(id)
  /\ UNCHANGED <<chainVars, leader, task, sent, setbacks>>

(* The fee guard's check(). *)
Defer(id) ==
  /\ task = Idle /\ leader /\ status[id] # "fulfilled" /\ ~Exhausted(id)
  /\ Setback
  /\ UNCHANGED <<chainVars, leader, task, sends, sent>>

Begin(id) ==
  /\ task = Idle /\ leader /\ ~Exhausted(id)
  /\ SeenUnfulfilled(id)
  /\ task' = [id |-> id, at |-> "beacon", attempt |-> 1]
  /\ UNCHANGED <<chainVars, leader, sends, sent>>

Handle(id) == Skip(id) \/ SkipFulfilled(id) \/ Defer(id) \/ Begin(id)

(* A beacon of another round, or that the group key did not sign, is as    *)
(* good as none; when every relay asked gave such answers the handler ends. *)
BeaconRefused == Done /\ Setback

(* waitAndFetchBeacon(), retried. *)
FetchBeacon ==
  /\ At("beacon")
  /\ \/ Goto("context") /\ UNCHANGED setbacks
     \/ BeaconRefused
  /\ UNCHANGED <<chainVars, leader, sends, sent>>

(* A refund removes the context (lib.rs 436-475). *)
FetchContext ==
  /\ At("context")
  /\ \/ /\ status[task.id] # "refunded" /\ leader
        /\ Goto("submit") /\ UNCHANGED setbacks
     \/ /\ status[task.id] = "refunded" \/ ~leader
        /\ Done /\ UNCHANGED setbacks
     \/ Done /\ Setback
  /\ UNCHANGED <<chainVars, leader, sends, sent>>

(* A failure that is neither terminal nor deliberate: the inner and outer  *)
(* loops try again, and the last attempt's error ends the handler.         *)
Retry ==
  IF task.attempt < MaxAttempts
  THEN task' = [task EXCEPT !.at = "submit", !.attempt = @ + 1]
  ELSE Done

(* Mutant: the allowance is given back instead of used up. *)
FailClears == Clear(task.id) /\ Done

(* A terminal failure of a request that is not settled. *)
Fail == Park(task.id) /\ Done

(* What the text of a failure says of it.  That a request is settled shows *)
(* in a simulation, unless the RPC fails first; an applied transaction     *)
(* just says that it trapped.                                              *)
Classes ==
  IF At("submit") /\ status[task.id] \in {"fulfilled", "refunded"}
  THEN {"settled", "retryable"} ELSE {"terminal", "retryable"}

FailsAs(class) ==
  \/ class = "settled" /\ Clear(task.id) /\ Done
  \/ class = "terminal" /\ Fail
  \/ class = "retryable" /\ Retry /\ UNCHANGED sends

-----------------------------------------------------------------------------
(* submitFulfillment(): one attempt. *)

(* canSubmit() is false. *)
Abort ==
  /\ task.at \in {"submit", "send"} /\ ~leader
  /\ Done
  /\ UNCHANGED <<chainVars, leader, sends, sent, setbacks>>

SimulatedSettled ==
  /\ At("submit") /\ leader /\ "settled" \in Classes
  /\ FailsAs("settled")
  /\ UNCHANGED <<chainVars, leader, sent, setbacks>>

(* Any other error, an archived entry being a terminal one. *)
SimulationFails ==
  /\ At("submit") /\ leader
  /\ Setback
  /\ \E class \in Classes \ {"settled"} : FailsAs(class)
  /\ UNCHANGED <<chainVars, leader, sent>>

(* The simulation succeeds and is too expensive, or says nothing of its    *)
(* cost, which is an error like any other.                                 *)
ResourceBoundExceeded ==
  /\ At("submit") /\ leader /\ status[task.id] = "pending"
  /\ Setback
  /\ FailsAs("terminal") \/ FailsAs("retryable")
  /\ UNCHANGED <<chainVars, leader, sent>>

(* Mutant: the cap is not looked at. *)
GateOpensAnyway ==
  /\ At("submit") /\ leader /\ status[task.id] = "pending"
  /\ Reserve(task.id)
  /\ Goto("send")
  /\ UNCHANGED <<chainVars, leader, sent, setbacks>>

(* beforeSend() *)
GateOpens ==
  /\ At("submit") /\ leader /\ status[task.id] = "pending"
  /\ ~Exhausted(task.id)
  /\ Reserve(task.id)
  /\ Goto("send")
  /\ UNCHANGED <<chainVars, leader, sent, setbacks>>

GateRefuses ==
  /\ At("submit") /\ leader /\ status[task.id] = "pending"
  /\ IF Exhausted(task.id) THEN UNCHANGED setbacks ELSE Setback
  /\ Done
  /\ UNCHANGED <<chainVars, leader, sends, sent>>

Send ==
  /\ At("send") /\ leader
  /\ sent' = [sent EXCEPT ![task.id] = @ + 1]
  /\ Goto("confirm")
  /\ UNCHANGED <<chainVars, leader, sends, setbacks>>

(* No answer, TRY_AGAIN_LATER or an ERROR, retryable or terminal. *)
SendFails ==
  /\ At("send") /\ leader
  /\ Setback
  /\ sent' = [sent EXCEPT ![task.id] = @ + 1]
  /\ \/ FailsAs("retryable") /\ loose' = loose \cup {task.id}
     \/ (\E class \in Classes : FailsAs(class)) /\ UNCHANGED loose
  /\ UNCHANGED <<status, leader>>

(* pollTransaction(): SUCCESS *)
Confirmed ==
  /\ At("confirm") /\ status[task.id] = "pending"
  /\ status' = [status EXCEPT ![task.id] = "fulfilled"]
  /\ Clear(task.id) /\ Done
  /\ UNCHANGED <<loose, leader, sent, setbacks>>

(* FAILED: fulfill() trapped, which is taken for a fault of the request    *)
(* even if it was settled meanwhile; or a result code to be retried.       *)
AppliedAndFailed ==
  /\ At("confirm")
  /\ \/ status[task.id] # "pending" /\ FailsAs("terminal") /\ UNCHANGED setbacks
     \/ Setback /\ \E class \in Classes : FailsAs(class)
  /\ UNCHANGED <<chainVars, leader, sent>>

(* No answer in time. *)
Unconfirmed ==
  /\ At("confirm")
  /\ Setback /\ Retry
  /\ loose' = loose \cup {task.id}
  /\ UNCHANGED <<status, leader, sends, sent>>

HandlerStep ==
  \/ FetchBeacon \/ FetchContext \/ Abort
  \/ SimulatedSettled \/ SimulationFails \/ ResourceBoundExceeded \/ GateOpens \/ GateRefuses
  \/ Send \/ SendFails \/ Confirmed \/ AppliedAndFailed \/ Unconfirmed

-----------------------------------------------------------------------------
(* The chain, the other nodes, the election and the host. *)

Issued == {id \in Ids : status[id] # "none"}

NewRequest ==
  \E id \in Ids :
    /\ Issued = 1..(id - 1)
    /\ status' = [status EXCEPT ![id] = "pending"]
    /\ UNCHANGED <<loose, leader, task, sends, sent, setbacks>>

SettledElsewhere ==
  /\ Setback
  /\ \E id \in Ids, outcome \in {"fulfilled", "refunded"} :
       /\ status[id] = "pending"
       /\ status' = [status EXCEPT ![id] = outcome]
  /\ UNCHANGED <<loose, leader, task, sends, sent>>

LooseLands ==
  \E id \in loose :
    /\ loose' = loose \ {id}
    /\ \/ UNCHANGED status
       \/ /\ status[id] = "pending"
          /\ status' = [status EXCEPT ![id] = "fulfilled"]
    /\ UNCHANGED <<leader, task, sends, sent, setbacks>>

ChainStep == NewRequest \/ SettledElsewhere \/ LooseLands

LoseLease ==
  /\ leader /\ Setback
  /\ leader' = FALSE
  /\ UNCHANGED <<chainVars, task, sends, sent>>

GainLease ==
  /\ ~leader /\ leader' = TRUE
  /\ UNCHANGED <<chainVars, task, sends, sent, setbacks>>

(* The worker's listener meets an RPC error. *)
ListenerSetback ==
  /\ Setback
  /\ UNCHANGED <<chainVars, leader, task, sends, sent>>

(* The process dies and starts again: the allowance is kept in memory.     *)
Reboot ==
  /\ Setback
  /\ loose' = loose \cup (IF At("confirm") THEN {task.id} ELSE {})
  /\ leader' = FALSE
  /\ task' = Idle
  /\ sends' = [id \in {} |-> 0]
  /\ sent' = [id \in Ids |-> 0]
  /\ UNCHANGED status

FulfillerInit ==
  /\ status = [id \in Ids |-> "none"]
  /\ loose = {}
  /\ leader = FALSE
  /\ task = Idle
  /\ sends = [id \in {} |-> 0]
  /\ sent = [id \in Ids |-> 0]
  /\ setbacks = 0

FulfillerNext ==
  \/ \E id \in Issued : Handle(id)
  \/ HandlerStep \/ ListenerSetback
  \/ ChainStep \/ LoseLease \/ GainLease \/ Reboot

FulfillerSpec == FulfillerInit /\ [][FulfillerNext]_fulfillerVars

-----------------------------------------------------------------------------
(* Properties *)

FulfillerTypeOK ==
  /\ status \in [Ids -> {"none", "pending", "fulfilled", "refunded"}]
  /\ loose \in SUBSET Ids
  /\ leader \in BOOLEAN
  /\ task \in [id : Ids, at : Steps, attempt : 1..MaxAttempts] \cup {Idle}
  /\ DOMAIN sends \in SUBSET Ids
  /\ \A id \in DOMAIN sends : sends[id] \in 1..MaxSends
  /\ sent \in [Ids -> Nat]
  /\ setbacks \in 0..MaxSetbacks

(* "hard cap on fulfill() sendTransaction() calls per request"             *)
(* (sendAttempts.ts:2): however many retries, passes and redeliveries, and *)
(* although the entry is cleared and is_fulfilled() may lie, one process   *)
(* sends at most MaxSends transactions for a request, as long as it has    *)
(* room to track every request.                                            *)
SendCap == \A id \in Ids : sent[id] <= MaxSends
=============================================================================
