------------------------------- MODULE Client -------------------------------
(***************************************************************************)
(* A program that uses VrfClient (src/sdk/js/src/index.ts), alone with its *)
(* account: it calls request() until a call returns an id, waits for that  *)
(* request with waitForFulfillment(), and derives numbers from the result, *)
(* on chain or off chain.                                                  *)
(*                                                                         *)
(* A tick is a polling interval.  Nothing is assumed about how the 120     *)
(* seconds of a transaction's time bounds and the 60 polls compare, since  *)
(* maxTime comes from the program's clock and is compared with the         *)
(* network's, and what the RPC server answers is the chain as it was when  *)
(* it last ingested a ledger, however long ago.                            *)
(***************************************************************************)
EXTENDS Derivation, Sequences

CONSTANTS
  MaxCalls,  \* bound: calls of request()
  Lifetimes, \* setTimeout(120), in polling intervals, by the network's clock
  Polls,     \* the 60 polls of submitTx()
  Patience,  \* timeoutMs / intervalMs of waitForFulfillment()
  MaxFaults  \* bound: RPC errors

ASSUME ClientConstants ==
  /\ {MaxCalls, Polls, Patience} \subseteq Nat \ {0}
  /\ Lifetimes \subseteq Nat /\ MaxFaults \in Nat

VARIABLES
  sequence, \* sequence number of the account
  pool,     \* transactions that may still be included
  requests, \* the contract's requests by this account
  failed,   \* calls whose transaction was included and failed
  rpc,      \* what the RPC server has ingested of the above
  at,       \* the method the program is suspended in, and where
  tx,       \* the transaction of the call: its number, sequence number, time left
  waited,   \* ticks since the send, or since waitForFulfillment() was called
  request,  \* the id that request() returned, or 0
  draw,     \* the range of the number derived
  faults

chainVars == <<sequence, pool, requests, failed>>
vars == <<chainVars, rpc, at, tx, waited, request, draw, faults>>

Chain == [sequence |-> sequence, requests |-> requests, failed |-> failed]

NoTx == [call |-> 0, seq |-> 0, left |-> 0]
NoDraw == [min |-> 0, max |-> 0]

Fault == faults < MaxFaults /\ faults' = faults + 1

(* simulate(): getAccount() or simulateTransaction() throws, or the        *)
(* simulation has an error.                                                *)
SimulationFails == Fault

-----------------------------------------------------------------------------
(* request() and submitTx() *)

(* Mutant: the account's sequence number is counted instead of asked for. *)
BuildCounting ==
  /\ at = "idle" /\ request = 0 /\ tx.call < MaxCalls
  /\ \E lifetime \in Lifetimes :
       tx' = [call |-> tx.call + 1, seq |-> tx.seq + 1, left |-> lifetime]
  /\ at' = "send"
  /\ UNCHANGED <<chainVars, rpc, waited, request, draw, faults>>

(* getAccount() answers the sequence number that the RPC has ingested. *)
Build ==
  /\ at = "idle" /\ request = 0 /\ tx.call < MaxCalls
  /\ \E lifetime \in Lifetimes :
       tx' = [call |-> tx.call + 1, seq |-> rpc.sequence + 1, left |-> lifetime]
  /\ at' = "send"
  /\ UNCHANGED <<chainVars, rpc, waited, request, draw, faults>>

(* Every answer but ERROR is taken for sent, TRY_AGAIN_LATER too. *)
SendTransaction ==
  /\ at = "send"
  /\ \/ at' = "poll" /\ waited' = 0 /\ UNCHANGED faults
     \/ at' = "idle" /\ Fault /\ UNCHANGED waited
  /\ pool' \in {pool, pool \cup {tx}}
  /\ UNCHANGED <<sequence, requests, failed, rpc, tx, request, draw>>

Made(call) == {id \in DOMAIN rpc.requests : rpc.requests[id].call = call}

Returns ==
  /\ at = "poll" /\ waited > 0
  /\ request' \in Made(tx.call)
  /\ at' = "idle"
  /\ UNCHANGED <<chainVars, rpc, tx, waited, draw, faults>>

FoundFailed ==
  /\ at = "poll" /\ waited > 0 /\ tx.call \in rpc.failed
  /\ at' = "idle"
  /\ UNCHANGED <<chainVars, rpc, tx, waited, request, draw, faults>>

(* The last poll finds nothing: the transaction may have expired, may be   *)
(* in a ledger that the RPC has not ingested, or may yet be included.      *)
TimesOut ==
  /\ at = "poll" /\ waited >= Polls
  /\ Made(tx.call) = {} /\ tx.call \notin rpc.failed
  /\ at' = "idle"
  /\ UNCHANGED <<chainVars, rpc, tx, waited, request, draw, faults>>

PollFails ==
  /\ at = "poll" /\ waited > 0 /\ Fault
  /\ at' = "idle"
  /\ UNCHANGED <<chainVars, rpc, tx, waited, request, draw>>

-----------------------------------------------------------------------------
(* waitForFulfillment() *)

Wait ==
  /\ at = "idle" /\ request # 0
  /\ at' = "wait" /\ waited' = 0
  /\ UNCHANGED <<chainVars, rpc, tx, request, draw, faults>>

IsFulfilled == rpc.requests[request].status = "fulfilled"

(* Mutant: the loop has no deadline. *)
WaitNeverEnds ==
  /\ at = "wait" /\ IsFulfilled
  /\ at' = "proof"
  /\ UNCHANGED <<chainVars, rpc, tx, waited, request, draw, faults>>

(* A refunded request is waited for like any other. *)
WaitEnds ==
  /\ at = "wait"
  /\ \/ IsFulfilled /\ at' = "proof" /\ UNCHANGED faults
     \/ waited >= Patience /\ at' = "failed" /\ UNCHANGED faults
     \/ at' = "failed" /\ SimulationFails
  /\ UNCHANGED <<chainVars, rpc, tx, waited, request, draw>>

(* getProof() answers null to any error; get_beta() is then asked.         *)
Proof ==
  /\ at = "proof"
  /\ \/ ~rpc.requests[request].cleaned /\ at' = "proven" /\ UNCHANGED faults
     \/ rpc.requests[request].cleaned /\ at' = "beta" /\ UNCHANGED faults
     \/ SimulationFails /\ at' = "beta"
  /\ UNCHANGED <<chainVars, rpc, tx, waited, request, draw>>

Beta ==
  /\ at = "beta"
  /\ \/ at' = "proven" /\ UNCHANGED faults
     \/ SimulationFails /\ at' = "failed"
  /\ UNCHANGED <<chainVars, rpc, tx, waited, request, draw>>

(* The program may call it again. *)
WaitAgain ==
  /\ at = "failed"
  /\ at' = "idle"
  /\ UNCHANGED <<chainVars, rpc, tx, waited, request, draw, faults>>

(* deriveRandomInRange() for a range of its choice, which the SDK accepts. *)
Derive ==
  /\ at = "proven"
  /\ \E min, max \in 0..U64Max : SpanOK(min, max) /\ draw' = [min |-> min, max |-> max]
  /\ at' = "done"
  /\ UNCHANGED <<chainVars, rpc, tx, waited, request, faults>>

-----------------------------------------------------------------------------
(* The network: a transaction is included while its time bounds and its    *)
(* sequence number allow it.  `built' is history: the calls begun by then. *)

Include ==
  \E t \in pool :
    /\ at # "done"
    /\ t.left > 0 /\ t.seq = sequence + 1
    /\ sequence' = t.seq
    /\ pool' = pool \ {t}
    /\ \/ /\ requests' = Append(requests, [call |-> t.call, built |-> tx.call,
                                             status |-> "pending", cleaned |-> FALSE])
          /\ UNCHANGED failed
       \/ failed' = failed \cup {t.call} /\ UNCHANGED requests
    /\ UNCHANGED <<rpc, at, tx, waited, request, draw, faults>>

Settle ==
  \E id \in DOMAIN requests :
    /\ at # "done"
    /\ \/ /\ requests[id].status = "pending"
          /\ \E s \in {"fulfilled", "refunded"} :
               requests' = [requests EXCEPT ![id].status = s]
       \/ /\ requests[id].status = "fulfilled" /\ ~requests[id].cleaned
          /\ requests' = [requests EXCEPT ![id].cleaned = TRUE]
    /\ UNCHANGED <<sequence, pool, failed, rpc, at, tx, waited, request, draw, faults>>

(* The RPC catches up. *)
Ingest ==
  /\ at # "done"
  /\ rpc' = Chain
  /\ UNCHANGED <<chainVars, at, tx, waited, request, draw, faults>>

Tick ==
  /\ \/ at = "poll" /\ waited < Polls
     \/ at = "wait" /\ waited < Patience
     \/ at \in {"idle", "send"} /\ UNCHANGED waited
  /\ at \in {"poll", "wait"} => waited' = waited + 1
  /\ pool' = {[t EXCEPT !.left = @ - 1] : t \in {u \in pool : u.left > 1}}
  /\ tx' = [tx EXCEPT !.left = IF @ > 0 THEN @ - 1 ELSE 0]
  /\ UNCHANGED <<sequence, requests, failed, rpc, at, request, draw, faults>>

Init ==
  /\ sequence = 0 /\ pool = {} /\ requests = <<>> /\ failed = {}
  /\ at = "idle" /\ tx = NoTx /\ waited = 0
  /\ rpc = Chain
  /\ request = 0 /\ draw = NoDraw /\ faults = 0

ClientStep ==
  \/ Build \/ SendTransaction \/ Returns \/ FoundFailed \/ TimesOut \/ PollFails
  \/ Wait \/ WaitEnds \/ Proof \/ Beta \/ WaitAgain \/ Derive

Next == ClientStep \/ Include \/ Settle \/ Ingest \/ Tick

Spec == Init /\ [][Next]_vars

(* Time passes and the program runs; nothing is ever included or settled   *)
(* unless somebody wants it.                                               *)
FairSpec == Spec /\ WF_vars(ClientStep) /\ WF_vars(Tick)

-----------------------------------------------------------------------------
(* Properties *)

(* A program that calls request() again, because a call timed out or an    *)
(* error cut it off while its transaction could still be included, does    *)
(* not pay for both: calls whose transactions were open together make one  *)
(* request at most, and once a call has returned an id, none that was      *)
(* given up before can make another.  (What a call that was given up made  *)
(* before the next one began stays unknown to the program.)                *)
PaysOnce ==
  /\ \A i, j \in DOMAIN requests : i < j => requests[i].built < requests[j].call
  /\ request # 0 => \A t \in pool : t.seq <= sequence

(* Whatever the hash, deriveRandomInRange() returns a number of the range  *)
(* that was asked for, and it is the one the SDK computes off chain.       *)
DrawsAgree ==
  at = "done" =>
    /\ Span(draw.min, draw.max) \in SameMaxes
    /\ \A n \in 0..(Span(draw.min, draw.max) - 1) : draw.min + n \in draw.min..draw.max

(* "An exactly uniform value" (lib.rs:870), on chain and off chain, for    *)
(* the range that was drawn.                                               *)
DrawsUniform == at = "done" => Span(draw.min, draw.max) \in UniformMaxes

(* waitForFulfillment() comes to an end, whatever became of the request.   *)
WaitTerminates == at = "wait" ~> at # "wait"
=============================================================================
