----------------------------- MODULE VRFOracle -----------------------------
(***************************************************************************)
(* The Soroban VRF oracle contract (soroban-contract/src/lib.rs): its      *)
(* storage, the fee token's balances, the ledger clock, and every entry    *)
(* point that changes them.                                                *)
(*                                                                         *)
(* A contract call is a function of the ledger: CanX(s, ...) says when the *)
(* entry point X does not panic on ledger s, AfterX(s, ...) is the ledger  *)
(* it leaves.  All calls are atomic except fulfill(), which hands control  *)
(* to the consumer's on_vrf() callback between its effects and its return, *)
(* under a savepoint the host rolls back to when the callback fails.       *)
(***************************************************************************)
EXTENDS Integers, Sequences, FiniteSets

CONSTANTS
  Addresses,          \* accounts and contracts other than this contract
  Self,               \* this contract's own address (it holds the escrow)
  G2Keys,             \* 192-byte values offered as BLS12-381 G2 public keys
  UnusableG2Keys,     \* infinity, the generator, points outside the subgroup
  BeaconKeys,         \* keys of the real drand group: signed by drand only
  Ed25519Keys,        \* 32-byte values offered as oracle signing keys
  ZeroEd25519,        \* the all-zero key
  Contexts,           \* request contexts
  OversizedContexts,  \* those longer than MAX_CONTEXT_LEN
  FeeAmount,          \* fee_amount of the constructor
  DrandGenesis,       \* drand_genesis_time
  DrandPeriod,        \* drand_period
  RoundOffset,        \* round_offset
  TimeoutRounds,      \* TIMEOUT_ROUNDS, 20 in the code
  MaxRequestId,       \* largest u64 the counter can hold
  MaxTime,            \* bound on the ledger clock
  InitialBalance,     \* fee tokens each address starts with
  InitOraclePK, InitOracleAddr, InitOracleEd25519, InitDrandPK,
  ReentryAllowed,     \* would the host let a callback call this contract?
  None

ASSUME ConstructorAccepts ==
  /\ DrandPeriod \in Nat \ {0}
  /\ RoundOffset \in Nat /\ RoundOffset >= 2
  /\ FeeAmount \in Nat
  /\ InitOraclePK \in G2Keys \ UnusableG2Keys
  /\ InitDrandPK \in G2Keys \ UnusableG2Keys
  /\ InitOraclePK # InitDrandPK
  /\ InitOracleEd25519 \in Ed25519Keys \ {ZeroEd25519}
  /\ InitOracleAddr \in Addresses

ASSUME Environment ==
  /\ DrandGenesis \in Nat /\ TimeoutRounds \in Nat
  /\ MaxRequestId \in Nat /\ MaxTime \in Nat /\ InitialBalance \in Nat
  /\ Self \notin Addresses
  /\ None \notin Addresses /\ None \notin Contexts
  /\ BeaconKeys \subseteq G2Keys
  /\ ReentryAllowed \in BOOLEAN

VARIABLES
  ledger,     \* the ledger as the running transaction sees it
  committed,  \* the ledger after the last completed transaction
  frames,     \* fulfill() calls waiting for their callback, innermost last
  now         \* ledger timestamp

vars == <<ledger, committed, frames, now>>

Ids == 1..MaxRequestId
Accounts == Addresses \cup {Self}

-----------------------------------------------------------------------------
(* Drand rounds and the cryptography.  Signatures, the VRF and the hashes  *)
(* are injective constructors: a value is exactly what it was made from.   *)

(* Mutant: rounds counted from 0, as the code once did. *)
CurrentRoundFromZero(t) ==
  IF t < DrandGenesis THEN 0 ELSE (t - DrandGenesis) \div DrandPeriod

CurrentRound(t) ==
  IF t < DrandGenesis THEN 0 ELSE (t - DrandGenesis) \div DrandPeriod + 1

RequiredRound(t) == CurrentRound(t) + RoundOffset

(* drand emits round r at genesis + (r - 1) * period. *)
BeaconPublished(r, t) == r >= 1 /\ t >= DrandGenesis + (r - 1) * DrandPeriod

DrandSig(key, round) == [key |-> key, round |-> round]

AlphaSeed(id, context, round, sig) ==
  [id |-> id, context |-> context, round |-> round, sig |-> sig]

GammaPoint(pk, alpha) == [pk |-> pk, alpha |-> alpha]

BetaOutput(gamma) == [gamma |-> gamma]

(* What a prover holding the secret of pk builds for a request. *)
MakeProof(pk, dk, round, id, context) ==
  LET sig   == DrandSig(dk, round)
      alpha == AlphaSeed(id, context, round, sig)
      gamma == GammaPoint(pk, alpha)
  IN [public_key |-> pk, drand_round |-> round, drand_signature |-> sig,
      alpha_seed |-> alpha, gamma_point |-> gamma,
      beta_output |-> BetaOutput(gamma)]

ProofRounds == 1..RequiredRound(MaxTime)

(* Drand's own signature on a round exists once the beacon is out; a key   *)
(* that is not drand's can sign any round at any time.                     *)
SigsAt(t) ==
  {kr \in G2Keys \X ProofRounds :
     kr[1] \in BeaconKeys => BeaconPublished(kr[2], t)}

ProofsAt(t) ==
  {MakeProof(pk, kr[1], kr[2], id, c) :
     pk \in G2Keys, id \in Ids, c \in Contexts, kr \in SigsAt(t)}

-----------------------------------------------------------------------------
(* Storage.  None stands for an absent key; `Context0', `MadeAt' and       *)
(* `Donated' are history: they record what a request was made with and     *)
(* what others sent to the contract, and no entry point reads them.        *)

SigType   == [key : G2Keys, round : Nat]
AlphaType == [id : Ids, context : Contexts, round : Nat, sig : SigType]
GammaType == [pk : G2Keys, alpha : AlphaType]
BetaType  == [gamma : GammaType]
ProofType ==
  [public_key : G2Keys, drand_round : Nat, drand_signature : SigType,
   alpha_seed : AlphaType, gamma_point : GammaType, beta_output : BetaType]

LedgerType ==
  [Counter       : 0..MaxRequestId,
   OraclePK      : G2Keys,
   OracleAddr    : Addresses,
   OracleEd25519 : Ed25519Keys,
   DrandPK       : G2Keys,
   RequestContext : [Ids -> Contexts \cup {None}],
   Requester      : [Ids -> Addresses \cup {None}],
   RequestRound   : [Ids -> Nat],
   Callback       : [Ids -> BOOLEAN],
   Fulfilled      : [Ids -> BOOLEAN],
   Refunded       : [Ids -> BOOLEAN],
   Fulfilling     : [Ids -> BOOLEAN],
   Proof          : [Ids -> ProofType \cup {None}],
   Beta           : [Ids -> BetaType \cup {None}],
   Balance  : [Accounts -> Nat],
   Context0 : [Ids -> Contexts \cup {None}],
   MadeAt   : [Ids -> Nat],
   Donated  : Nat]

ASSUME NoneIsNoOutput == None \notin BetaType

EmptyLedger ==
  [Counter       |-> 0,
   OraclePK      |-> InitOraclePK,
   OracleAddr    |-> InitOracleAddr,
   OracleEd25519 |-> InitOracleEd25519,
   DrandPK       |-> InitDrandPK,
   RequestContext |-> [i \in Ids |-> None],
   Requester      |-> [i \in Ids |-> None],
   RequestRound   |-> [i \in Ids |-> 0],
   Callback       |-> [i \in Ids |-> FALSE],
   Fulfilled      |-> [i \in Ids |-> FALSE],
   Refunded       |-> [i \in Ids |-> FALSE],
   Fulfilling     |-> [i \in Ids |-> FALSE],
   Proof          |-> [i \in Ids |-> None],
   Beta           |-> [i \in Ids |-> None],
   Balance  |-> [a \in Accounts |-> IF a = Self THEN 0 ELSE InitialBalance],
   Context0 |-> [i \in Ids |-> None],
   MadeAt   |-> [i \in Ids |-> 0],
   Donated  |-> 0]

(* The fee token's transfer(): it fails when the payer cannot cover it. *)
CanTransfer(s, from, amount) == s.Balance[from] >= amount
Transfer(balance, from, to, amount) ==
  [balance EXCEPT ![from] = @ - amount, ![to] = @ + amount]

(* Mutant: any 192 bytes make a key. *)
AnyG2PublicKey(key) == key \in G2Keys

ValidG2PublicKey(key) == key \notin UnusableG2Keys

-----------------------------------------------------------------------------
(* request() and request_with_callback(): the fee goes into escrow and the *)
(* request is bound to a round whose beacon does not exist yet.            *)

(* Mutant: a counter that is not checked for overflow. *)
CanRequestUncounted(s, requester, context) ==
  /\ context \notin OversizedContexts
  /\ CanTransfer(s, requester, FeeAmount)

CanRequest(s, requester, context) ==
  /\ context \notin OversizedContexts
  /\ CanTransfer(s, requester, FeeAmount)
  /\ s.Counter < MaxRequestId

(* Mutant: the fee goes to the oracle at once instead of into escrow. *)
AfterRequestPaysOracle(s, requester, context, callback, t) ==
  LET id == s.Counter + 1
  IN [s EXCEPT !.Counter = id,
               !.Balance = Transfer(@, requester, s.OracleAddr, FeeAmount),
               !.RequestContext[id] = context,
               !.Requester[id] = requester,
               !.RequestRound[id] = RequiredRound(t),
               !.Callback[id] = callback,
               !.Context0[id] = context,
               !.MadeAt[id] = t]

AfterRequest(s, requester, context, callback, t) ==
  LET id == s.Counter + 1
  IN [s EXCEPT !.Counter = id,
               !.Balance = Transfer(@, requester, Self, FeeAmount),
               !.RequestContext[id] = context,
               !.Requester[id] = requester,
               !.RequestRound[id] = RequiredRound(t),
               !.Fulfilled[id] = FALSE,
               !.Refunded[id] = FALSE,
               !.Callback[id] = callback,
               !.Context0[id] = context,
               !.MadeAt[id] = t]

(* Mutants: the window one round too short; no look at Fulfilled. *)
CanRefundEarly(s, caller, id, t) ==
  /\ ~s.Refunded[id] /\ ~s.Fulfilled[id]
  /\ s.Requester[id] # None /\ caller = s.Requester[id]
  /\ CurrentRound(t) >= s.RequestRound[id] + TimeoutRounds
  /\ CanTransfer(s, Self, FeeAmount)

CanRefundFulfilled(s, caller, id, t) ==
  /\ ~s.Refunded[id]
  /\ s.Requester[id] # None /\ caller = s.Requester[id]
  /\ CurrentRound(t) > s.RequestRound[id] + TimeoutRounds
  /\ CanTransfer(s, Self, FeeAmount)

(* timeout_refund(): the requester takes the escrowed fee back. *)
CanRefund(s, caller, id, t) ==
  /\ ~s.Refunded[id]
  /\ s.Requester[id] # None
  /\ caller = s.Requester[id]
  /\ ~s.Fulfilled[id]
  /\ CurrentRound(t) > s.RequestRound[id] + TimeoutRounds
  /\ CanTransfer(s, Self, FeeAmount)

AfterRefund(s, id) ==
  [s EXCEPT !.Refunded[id] = TRUE,
            !.RequestContext[id] = None,
            !.Callback[id] = FALSE,
            !.Balance = Transfer(@, Self, s.Requester[id], FeeAmount)]

(* Mutants: no look at Fulfilled; a proof whose alpha is not recomputed. *)
CanFulfillAgain(s, caller, id) ==
  /\ ~s.Refunded[id]
  /\ ~s.Fulfilling[id]
  /\ caller = s.OracleAddr
  /\ s.RequestContext[id] # None
  /\ CanTransfer(s, Self, FeeAmount)

AcceptsProofOfAnyAlpha(s, id, proof, signer) ==
  /\ proof.public_key = s.OraclePK
  /\ proof.drand_round = s.RequestRound[id]
  /\ signer = s.OracleEd25519
  /\ proof.drand_signature = DrandSig(s.DrandPK, proof.drand_round)
  /\ proof.gamma_point = GammaPoint(proof.public_key, proof.alpha_seed)
  /\ proof.beta_output = BetaOutput(proof.gamma_point)

(* fulfill(): the checks on the request, then those on the proof. *)
CanFulfill(s, caller, id) ==
  /\ ~s.Refunded[id]
  /\ ~s.Fulfilling[id]
  /\ caller = s.OracleAddr
  /\ s.RequestContext[id] # None
  /\ ~s.Fulfilled[id]
  /\ CanTransfer(s, Self, FeeAmount)

AcceptsProof(s, id, proof, signer) ==
  /\ proof.public_key = s.OraclePK
  /\ proof.drand_round = s.RequestRound[id]
  /\ signer = s.OracleEd25519
  /\ proof.drand_signature = DrandSig(s.DrandPK, proof.drand_round)
  /\ proof.alpha_seed = AlphaSeed(id, s.RequestContext[id],
                                  proof.drand_round, proof.drand_signature)
  /\ proof.gamma_point = GammaPoint(proof.public_key, proof.alpha_seed)
  /\ proof.beta_output = BetaOutput(proof.gamma_point)

(* The effects and the fee release; the Fulfilling key is set last. *)
AfterFulfill(s, id, proof) ==
  [s EXCEPT !.Proof[id] = proof,
            !.Beta[id] = proof.beta_output,
            !.Fulfilled[id] = TRUE,
            !.Balance = Transfer(@, Self, s.OracleAddr, FeeAmount),
            !.Fulfilling[id] = TRUE]

(* Mutant: the guard key is left behind. *)
LeaveFulfilling(s, id) == s

ClearFulfilling(s, id) == [s EXCEPT !.Fulfilling[id] = FALSE]

(* Mutants: a cleanup of pending requests; one that removes Beta as well. *)
CanCleanupPending(s, caller, id) ==
  /\ s.Requester[id] # None
  /\ caller \in {s.Requester[id], s.OracleAddr}

AfterCleanupOfBeta(s, id) ==
  [s EXCEPT !.Proof[id] = None,
            !.Beta[id] = None,
            !.RequestContext[id] = None,
            !.Callback[id] = FALSE]

(* cleanup_proof(): the requester or the oracle reclaims storage rent. *)
CanCleanup(s, caller, id) ==
  /\ s.Fulfilled[id]
  /\ s.Requester[id] # None
  /\ caller \in {s.Requester[id], s.OracleAddr}

AfterCleanup(s, id) ==
  [s EXCEPT !.Proof[id] = None,
            !.RequestContext[id] = None,
            !.Callback[id] = FALSE]

(* rotate_oracle_keys() and rotate_drand_pk(). *)
CanRotateOracle(s, auth, pk, addr, ed) ==
  /\ {s.OracleAddr, addr} \subseteq auth
  /\ ValidG2PublicKey(pk)
  /\ pk # s.DrandPK
  /\ ed # ZeroEd25519

AfterRotateOracle(s, pk, addr, ed) ==
  [s EXCEPT !.OraclePK = pk, !.OracleAddr = addr, !.OracleEd25519 = ed]

(* Mutant: the new drand key is not compared with the oracle's. *)
CanRotateDrandToAny(s, caller, key) ==
  caller = s.OracleAddr /\ ValidG2PublicKey(key)

CanRotateDrand(s, caller, key) ==
  /\ caller = s.OracleAddr
  /\ ValidG2PublicKey(key)
  /\ key # s.OraclePK

AfterRotateDrand(s, key) == [s EXCEPT !.DrandPK = key]

-----------------------------------------------------------------------------
(* Transactions.  A call made while no fulfill() is waiting is a           *)
(* transaction of its own and commits; a call from inside a callback is    *)
(* part of the outer transaction, and reaches this contract only if the    *)
(* host allows re-entry (Soroban does not).                                *)

CanEnter == frames = <<>> \/ ReentryAllowed

Run(s) ==
  /\ ledger' = s
  /\ committed' = IF frames = <<>> THEN s ELSE committed
  /\ UNCHANGED <<frames, now>>

Request(requester, context) ==
  /\ CanEnter
  /\ CanRequest(ledger, requester, context)
  /\ Run(AfterRequest(ledger, requester, context, FALSE, now))

(* The callback contract is the requester and the function is on_vrf, or   *)
(* the call panics.                                                        *)
RequestWithCallback(requester, context) ==
  /\ CanEnter
  /\ CanRequest(ledger, requester, context)
  /\ Run(AfterRequest(ledger, requester, context, TRUE, now))

TimeoutRefund(caller, id) ==
  /\ CanEnter
  /\ CanRefund(ledger, caller, id, now)
  /\ Run(AfterRefund(ledger, id))

CleanupProof(caller, id) ==
  /\ CanEnter
  /\ CanCleanup(ledger, caller, id)
  /\ Run(AfterCleanup(ledger, id))

RotateOracleKeys(auth, pk, addr, ed) ==
  /\ CanEnter
  /\ CanRotateOracle(ledger, auth, pk, addr, ed)
  /\ Run(AfterRotateOracle(ledger, pk, addr, ed))

RotateDrandPk(caller, key) ==
  /\ CanEnter
  /\ CanRotateDrand(ledger, caller, key)
  /\ Run(AfterRotateDrand(ledger, key))

(* A fulfill() without a callback runs to its end. *)
Fulfill(caller, id) ==
  /\ CanEnter
  /\ CanFulfill(ledger, caller, id)
  /\ ~ledger.Callback[id]
  /\ \E proof \in ProofsAt(now), signer \in Ed25519Keys :
       /\ AcceptsProof(ledger, id, proof, signer)
       /\ Run(ClearFulfilling(AfterFulfill(ledger, id, proof), id))

(* With one it stops at try_invoke_contract, its savepoint taken. *)
FulfillInvokesCallback(caller, id) ==
  /\ CanEnter
  /\ CanFulfill(ledger, caller, id)
  /\ ledger.Callback[id]
  /\ \E proof \in ProofsAt(now), signer \in Ed25519Keys :
       /\ AcceptsProof(ledger, id, proof, signer)
       /\ LET s == AfterFulfill(ledger, id, proof)
          IN /\ ledger' = s
             /\ frames' = Append(frames, [id |-> id, savepoint |-> s])
  /\ UNCHANGED <<committed, now>>

(* fulfill() resumes on ledger s after the innermost callback is over. *)
ResumeOn(s) ==
  LET top == frames[Len(frames)]
      t   == ClearFulfilling(s, top.id)
  IN /\ ledger' = t
     /\ frames' = SubSeq(frames, 1, Len(frames) - 1)
     /\ committed' = IF Len(frames) = 1 THEN t ELSE committed
     /\ UNCHANGED now

CallbackReturns ==
  /\ frames # <<>>
  /\ ResumeOn(ledger)

(* Mutant: invoke_contract() instead of try_invoke_contract(). *)
CallbackPanicPropagates ==
  /\ frames # <<>>
  /\ ledger' = committed
  /\ frames' = <<>>
  /\ UNCHANGED <<committed, now>>

(* The callback panics, traps or is missing: its writes are undone. *)
CallbackFails ==
  /\ frames # <<>>
  /\ ResumeOn(frames[Len(frames)].savepoint)

(* The callback exhausts the transaction-wide budget: nothing commits. *)
BudgetExhausted ==
  /\ frames # <<>>
  /\ ledger' = committed
  /\ frames' = <<>>
  /\ UNCHANGED <<committed, now>>

(* Anyone, a callback included, moves tokens of their own. *)
TokenTransfer(from, to) ==
  /\ from # to
  /\ CanTransfer(ledger, from, 1)
  /\ Run([ledger EXCEPT !.Balance = Transfer(@, from, to, 1),
                        !.Donated = IF to = Self THEN @ + 1 ELSE @])

(* A ledger closes; its timestamp is fixed for all its transactions. *)
Tick ==
  /\ frames = <<>>
  /\ now < MaxTime
  /\ now' = now + 1
  /\ UNCHANGED <<ledger, committed, frames>>

-----------------------------------------------------------------------------
Init ==
  /\ ledger = EmptyLedger
  /\ committed = EmptyLedger
  /\ frames = <<>>
  /\ now = 0

Next ==
  \/ \E a \in Addresses, c \in Contexts :
       Request(a, c) \/ RequestWithCallback(a, c)
  \/ \E a \in Addresses, id \in Ids :
       \/ Fulfill(a, id)
       \/ FulfillInvokesCallback(a, id)
       \/ TimeoutRefund(a, id)
       \/ CleanupProof(a, id)
  \/ \E auth \in SUBSET Addresses, pk \in G2Keys, addr \in Addresses,
        ed \in Ed25519Keys : RotateOracleKeys(auth, pk, addr, ed)
  \/ \E a \in Addresses, key \in G2Keys : RotateDrandPk(a, key)
  \/ CallbackReturns \/ CallbackFails \/ BudgetExhausted
  \/ \E from \in Addresses, to \in Accounts : TokenTransfer(from, to)
  \/ Tick

Spec == Init /\ [][Next]_vars

(* Ledger closes follow one another whatever the transactions do, a        *)
(* callback ends one way or another, and a requester whose window has      *)
(* passed keeps submitting transactions that call timeout_refund().        *)
EndCallback == CallbackReturns \/ CallbackFails \/ BudgetExhausted

FairSpec ==
  /\ Spec
  /\ SF_vars(Tick)
  /\ WF_vars(EndCallback)
  /\ \A id \in Ids : SF_vars(frames = <<>> /\ \E a \in Addresses : TimeoutRefund(a, id))

-----------------------------------------------------------------------------
(* Properties *)

Pending(s, id) == s.Requester[id] # None /\ ~s.Fulfilled[id] /\ ~s.Refunded[id]

PendingIds(s) == {id \in Ids : Pending(s, id)}

(* Every ledger the next commit can fall back to. *)
Ledgers == {ledger, committed} \cup {frames[i].savepoint : i \in DOMAIN frames}

OutputOf(pk, dk, id, context, round) ==
  BetaOutput(GammaPoint(pk, AlphaSeed(id, context, round, DrandSig(dk, round))))

UsableKeyPairs ==
  {p \in (G2Keys \ UnusableG2Keys) \X (G2Keys \ UnusableG2Keys) : p[1] # p[2]}

(* Type invariant: every key of the contract's storage (DataKey) holds a   *)
(* value of its type, in every ledger a transaction can end on.            *)
TypeOK ==
  /\ ledger \in LedgerType /\ committed \in LedgerType
  /\ frames \in Seq([id : Ids, savepoint : LedgerType])
  /\ now \in 0..MaxTime

(* The escrow holds the fee of every pending request and nothing that has  *)
(* been paid out, so neither fulfill() nor timeout_refund() can ever fail  *)
(* for lack of funds, and no fee is paid twice, whatever callbacks do.     *)
EscrowBacked ==
  \A s \in Ledgers :
    s.Balance[Self] = s.Donated + FeeAmount * Cardinality(PendingIds(s))

(* A request ends as fulfilled or as refunded, never both, and has an      *)
(* output exactly when it was fulfilled (cleanup_proof() keeps Beta).      *)
OneOutcome ==
  \A s \in Ledgers : \A id \in Ids :
    /\ ~(s.Fulfilled[id] /\ s.Refunded[id])
    /\ s.Fulfilled[id] <=> s.Beta[id] # None

(* A pending request keeps the context its alpha is derived from: no       *)
(* cleanup, refund or failed callback can leave a request that is neither  *)
(* settled nor fulfillable.                                                *)
PendingIsServiceable ==
  \A s \in Ledgers : \A id \in Ids :
    Pending(s, id) => /\ s.RequestContext[id] = s.Context0[id]
                      /\ s.RequestContext[id] # None

(* The output of a request is the VRF of that request's own id, context    *)
(* and round, under one usable oracle key and another usable drand key, so *)
(* no proof can be replayed from another request, round or key, however    *)
(* the two rotations are interleaved with requests.                        *)
OutputBound ==
  \A s \in Ledgers : \A id \in Ids : s.Fulfilled[id] =>
    \E p \in UsableKeyPairs :
      s.Beta[id] = OutputOf(p[1], p[2], id, s.Context0[id], s.RequestRound[id])

(* An output made from drand's own beacon exists only later than           *)
(* (offset - 1) periods after its request was made: nobody can have known  *)
(* it when the request was committed.                                      *)
LeadTime ==
  \A s \in Ledgers : \A id \in Ids :
    (s.Fulfilled[id] /\ s.Beta[id].gamma.alpha.sig.key \in BeaconKeys)
      => now > s.MadeAt[id] + (RoundOffset - 1) * DrandPeriod

(* A refund comes only after TIMEOUT_ROUNDS further beacons of drand, and  *)
(* one more, followed the one the oracle needed to fulfill.                *)
RefundLeavesWindow ==
  \A s \in Ledgers : \A id \in Ids :
    s.Refunded[id] =>
      BeaconPublished(s.RequestRound[id] + TimeoutRounds + 1, now)

(* The oracle key and the drand key never coincide, although two entry     *)
(* points change them and each checks only its own side.                   *)
KeysSeparate == \A s \in Ledgers : s.OraclePK # s.DrandPK

(* The Fulfilling key is set exactly while that request's callback runs:   *)
(* no failed callback, budget abort or nested call leaks it into the       *)
(* committed ledger, where it would block the request for ever.            *)
GuardMatchesCallback ==
  /\ \A id \in Ids :
       ledger.Fulfilling[id] <=> \E i \in DOMAIN frames : frames[i].id = id
  /\ \A id \in Ids : ~committed.Fulfilling[id]

(* t can follow s: ids are not reused, a request keeps its requester and   *)
(* round, an outcome stays, and an output never changes.                   *)
Evolves(s, t) ==
  /\ s.Counter <= t.Counter
  /\ \A id \in Ids :
       /\ s.Requester[id] # None =>
            /\ t.Requester[id] = s.Requester[id]
            /\ t.RequestRound[id] = s.RequestRound[id]
       /\ s.Fulfilled[id] => t.Fulfilled[id] /\ t.Beta[id] = s.Beta[id]
       /\ s.Refunded[id] => t.Refunded[id]

(* What has been committed is irrevocable: no later call, cleanup, failed  *)
(* callback or aborted transaction reopens a request or changes its        *)
(* output.                                                                 *)
SettlementIrrevocable == [][Evolves(committed, committed')]_vars

(* A callback that panics cannot veto the fulfillment it was called for:   *)
(* fulfill() carries on with the output stored and the oracle paid         *)
(* ("callback-griefing").                                                  *)
CallbackCannotVeto ==
  [][CallbackFails =>
       LET top == frames[Len(frames)]
       IN /\ ledger'.Fulfilled[top.id]
          /\ ledger'.Beta[top.id] # None
          /\ ~ledger'.Fulfilling[top.id]
          /\ ledger'.Balance[ledger'.OracleAddr] >= FeeAmount]_vars

(* Every request whose window ends before the clock bound is settled in    *)
(* the end, even if the oracle never answers or every callback burns the   *)
(* whole budget: the requester's refund cannot be blocked.                 *)
EventuallySettled ==
  \A id \in Ids :
    (/\ Pending(committed, id)
     /\ CurrentRound(MaxTime) > committed.RequestRound[id] + TimeoutRounds)
      ~> (committed.Fulfilled[id] \/ committed.Refunded[id])

-----------------------------------------------------------------------------
(* The contract implements VRFService: the service sees committed ledgers, *)
(* and the escrow without what others sent to the contract unasked.        *)

Status(s, id) ==
  CASE s.Requester[id] = None -> "none"
    [] s.Fulfilled[id] -> "fulfilled"
    [] s.Refunded[id] -> "refunded"
    [] OTHER -> "pending"

Service == INSTANCE VRFService WITH
  Fee <- FeeAmount,
  NoOutput <- None,
  OutputsOf <- [id \in Ids |->
    {OutputOf(p[1], p[2], id, c, r) :
       p \in UsableKeyPairs, c \in Contexts, r \in ProofRounds}],
  status <- [id \in Ids |-> Status(committed, id)],
  output <- committed.Beta,
  escrow <- committed.Balance[Self] - committed.Donated

(* Under the host's rule that a callback cannot call this contract, every  *)
(* transaction is one step of the service or none.                         *)
ImplementsService == Service!Spec
=============================================================================
