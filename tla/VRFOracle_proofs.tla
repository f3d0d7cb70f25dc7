-------------------------- MODULE VRFOracle_proofs --------------------------
(* Machine-checked facts about the contract, for every value of the        *)
(* constants: any number of requests, addresses and keys, any fee, period, *)
(* offset and timeout, and a host that allows re-entry or forbids it.      *)
EXTENDS VRFOracle, FiniteSetTheorems, SequenceTheorems, TLAPS

-----------------------------------------------------------------------------
(* The inductive invariant of one ledger, as named parts. *)

(* Ids up to Counter are taken, the others untouched. *)
Allocated(s) == \A id \in Ids :
  IF id <= s.Counter
  THEN s.Requester[id] # None
  ELSE /\ s.Requester[id] = None /\ ~s.Fulfilled[id] /\ ~s.Refunded[id]
       /\ s.Beta[id] = None /\ s.RequestContext[id] = None

Escrow(s) ==
  s.Balance[Self] = s.Donated + FeeAmount * Cardinality(PendingIds(s))

Outcome(s) == \A id \in Ids :
  /\ ~(s.Fulfilled[id] /\ s.Refunded[id])
  /\ s.Fulfilled[id] <=> s.Beta[id] # None

Serviceable(s) == \A id \in Ids :
  Pending(s, id) => /\ s.RequestContext[id] = s.Context0[id]
                    /\ s.RequestContext[id] # None

UsableKeys(s) ==
  <<s.OraclePK, s.DrandPK>> \in UsableKeyPairs

Bound(s) == \A id \in Ids : s.Fulfilled[id] =>
  \E p \in UsableKeyPairs :
    s.Beta[id] = OutputOf(p[1], p[2], id, s.Context0[id], s.RequestRound[id])

LedgerInv(s) ==
  /\ s \in LedgerType
  /\ Allocated(s) /\ Escrow(s) /\ Outcome(s) /\ Serviceable(s)
  /\ UsableKeys(s) /\ Bound(s)

-----------------------------------------------------------------------------
(* A transfer between different accounts that the payer can cover. *)
LEMMA TransferFacts ==
  ASSUME NEW b \in [Accounts -> Nat], NEW from \in Accounts,
         NEW to \in Accounts, NEW amount \in Nat,
         from # to, b[from] >= amount
  PROVE  /\ Transfer(b, from, to, amount) \in [Accounts -> Nat]
         /\ Transfer(b, from, to, amount)[from] = b[from] - amount
         /\ Transfer(b, from, to, amount)[to] = b[to] + amount
         /\ \A a \in Accounts \ {from, to} :
              Transfer(b, from, to, amount)[a] = b[a]
  BY DEF Transfer

(* The requests pending on a ledger form a finite set. *)
LEMMA PendingFinite ==
  ASSUME NEW s
  PROVE  /\ IsFiniteSet(PendingIds(s))
         /\ Cardinality(PendingIds(s)) \in Nat
<1>1. MaxRequestId \in Int
  BY Environment
<1>2. IsFiniteSet(Ids)
  BY <1>1, FS_Interval DEF Ids
<1>3. PendingIds(s) \subseteq Ids
  BY DEF PendingIds
<1>. QED
  BY <1>2, <1>3, FS_Subset, FS_CardinalityType

LEMMA RoundTyped ==
  ASSUME NEW t \in Nat
  PROVE  CurrentRound(t) \in Nat /\ RequiredRound(t) \in Nat
  BY ConstructorAccepts, Environment DEF RequiredRound, CurrentRound

(* Everything a prover can offer has the type of a proof. *)
LEMMA ProofTyped ==
  ASSUME NEW t \in Nat, NEW p \in ProofsAt(t)
  PROVE  p \in ProofType
<1>1. PICK pk \in G2Keys, id \in Ids, c \in Contexts, kr \in SigsAt(t) :
        p = MakeProof(pk, kr[1], kr[2], id, c)
  BY DEF ProofsAt
<1>2. kr[1] \in G2Keys /\ kr[2] \in Nat
  BY DEF SigsAt, ProofRounds
<1> DEFINE sig == DrandSig(kr[1], kr[2])
           alpha == AlphaSeed(id, c, kr[2], sig)
           gamma == GammaPoint(pk, alpha)
<1>3. sig \in SigType
  BY <1>2 DEF DrandSig, SigType
<1>4. alpha \in AlphaType
  BY <1>2, <1>3 DEF AlphaSeed, AlphaType
<1>5. gamma \in GammaType
  BY <1>4 DEF GammaPoint, GammaType
<1>6. BetaOutput(gamma) \in BetaType
  BY <1>5 DEF BetaOutput, BetaType
<1>7. p = [public_key |-> pk, drand_round |-> kr[2], drand_signature |-> sig,
           alpha_seed |-> alpha, gamma_point |-> gamma,
           beta_output |-> BetaOutput(gamma)]
  BY <1>1 DEF MakeProof
<1> HIDE DEF sig, alpha, gamma
<1>. QED
  BY <1>2, <1>3, <1>4, <1>5, <1>6, <1>7 DEF ProofType

-----------------------------------------------------------------------------
(* What each entry point does to the fields of a well-typed ledger. *)

RequestEffect(s, u, a, c, t) ==
  LET id == s.Counter + 1
  IN
  /\ u \in LedgerType /\ id \in Ids
  /\ u.Counter = id
  /\ u.Balance = Transfer(s.Balance, a, Self, FeeAmount)
  /\ u.Requester = [s.Requester EXCEPT ![id] = a]
  /\ u.RequestContext = [s.RequestContext EXCEPT ![id] = c]
  /\ u.Context0 = [s.Context0 EXCEPT ![id] = c]
  /\ u.RequestRound = [s.RequestRound EXCEPT ![id] = RequiredRound(t)]
  /\ u.MadeAt = [s.MadeAt EXCEPT ![id] = t]
  /\ u.Fulfilled = [s.Fulfilled EXCEPT ![id] = FALSE]
  /\ u.Refunded = [s.Refunded EXCEPT ![id] = FALSE]
  /\ u.Beta = s.Beta /\ u.Donated = s.Donated
  /\ u.OraclePK = s.OraclePK /\ u.DrandPK = s.DrandPK
  /\ u.Fulfilling = s.Fulfilling

LEMMA RequestFields ==
  ASSUME NEW s \in LedgerType, NEW a \in Addresses, NEW c \in Contexts,
         NEW cb \in BOOLEAN, NEW t \in Nat, CanRequest(s, a, c)
  PROVE  RequestEffect(s, AfterRequest(s, a, c, cb, t), a, c, t)
<1> DEFINE u  == AfterRequest(s, a, c, cb, t)
           id == s.Counter + 1
           f1 == [s.RequestContext EXCEPT ![id] = c]
           f2 == [s.Requester EXCEPT ![id] = a]
           f3 == [s.RequestRound EXCEPT ![id] = RequiredRound(t)]
           f4 == [s.Fulfilled EXCEPT ![id] = FALSE]
           f5 == [s.Refunded EXCEPT ![id] = FALSE]
           f6 == [s.Callback EXCEPT ![id] = cb]
           f7 == [s.Context0 EXCEPT ![id] = c]
           f8 == [s.MadeAt EXCEPT ![id] = t]
           f9 == Transfer(s.Balance, a, Self, FeeAmount)
<1>1. f9 \in [Accounts -> Nat]
  BY TransferFacts, ConstructorAccepts, Environment
     DEF LedgerType, CanRequest, CanTransfer, Accounts
<1>2. id \in Ids /\ id \in 0..MaxRequestId
  BY Environment DEF LedgerType, CanRequest, Ids
<1>3. /\ f1 \in [Ids -> Contexts \cup {None}]
      /\ f7 \in [Ids -> Contexts \cup {None}]
  BY DEF LedgerType
<1>4. f2 \in [Ids -> Addresses \cup {None}]
  BY DEF LedgerType
<1>5. f3 \in [Ids -> Nat] /\ f8 \in [Ids -> Nat]
  BY RoundTyped DEF LedgerType
<1>6. /\ f4 \in [Ids -> BOOLEAN]
      /\ f5 \in [Ids -> BOOLEAN]
      /\ f6 \in [Ids -> BOOLEAN]
  BY DEF LedgerType
<1>7. u = [s EXCEPT !.Counter = id, !.Balance = f9, !.RequestContext = f1,
                    !.Requester = f2, !.RequestRound = f3, !.Fulfilled = f4,
                    !.Refunded = f5, !.Callback = f6, !.Context0 = f7,
                    !.MadeAt = f8]
  BY DEF AfterRequest
<1>8. /\ u.Counter = id /\ u.Balance = f9 /\ u.Requester = f2
      /\ u.RequestContext = f1 /\ u.Context0 = f7 /\ u.RequestRound = f3
      /\ u.MadeAt = f8 /\ u.Fulfilled = f4 /\ u.Refunded = f5
      /\ u.Beta = s.Beta /\ u.Donated = s.Donated
      /\ u.OraclePK = s.OraclePK /\ u.DrandPK = s.DrandPK
      /\ u.Fulfilling = s.Fulfilling
  <2> HIDE DEF u, id, f1, f2, f3, f4, f5, f6, f7, f8, f9
  <2>. QED BY <1>7 DEF LedgerType
<1>9. u \in LedgerType
  <2> HIDE DEF u, id, f1, f2, f3, f4, f5, f6, f7, f8, f9
  <2>. QED BY <1>1, <1>2, <1>3, <1>4, <1>5, <1>6, <1>7 DEF LedgerType
<1>. QED
  BY <1>2, <1>8, <1>9 DEF RequestEffect

RefundEffect(s, u, id) ==
  /\ u \in LedgerType /\ s.Requester[id] \in Addresses
  /\ u.Balance = Transfer(s.Balance, Self, s.Requester[id], FeeAmount)
  /\ u.Refunded = [s.Refunded EXCEPT ![id] = TRUE]
  /\ u.RequestContext = [s.RequestContext EXCEPT ![id] = None]
  /\ u.Counter = s.Counter /\ u.Requester = s.Requester
  /\ u.Context0 = s.Context0 /\ u.RequestRound = s.RequestRound
  /\ u.MadeAt = s.MadeAt /\ u.Fulfilled = s.Fulfilled
  /\ u.Beta = s.Beta /\ u.Donated = s.Donated
  /\ u.OraclePK = s.OraclePK /\ u.DrandPK = s.DrandPK
  /\ u.Fulfilling = s.Fulfilling

LEMMA RefundFields ==
  ASSUME NEW s \in LedgerType, NEW a, NEW id \in Ids, NEW t \in Nat,
         CanRefund(s, a, id, t)
  PROVE  RefundEffect(s, AfterRefund(s, id), id)
<1> DEFINE u  == AfterRefund(s, id)
           f1 == [s.RequestContext EXCEPT ![id] = None]
           f2 == [s.Refunded EXCEPT ![id] = TRUE]
           f3 == [s.Callback EXCEPT ![id] = FALSE]
           f4 == Transfer(s.Balance, Self, s.Requester[id], FeeAmount)
<1>1. s.Requester[id] \in Addresses
  BY DEF CanRefund, LedgerType
<1>2. f4 \in [Accounts -> Nat]
  BY <1>1, TransferFacts, ConstructorAccepts, Environment
     DEF LedgerType, CanRefund, CanTransfer, Accounts
<1>3. /\ f1 \in [Ids -> Contexts \cup {None}]
      /\ f2 \in [Ids -> BOOLEAN] /\ f3 \in [Ids -> BOOLEAN]
  BY DEF LedgerType
<1>4. u = [s EXCEPT !.Refunded = f2, !.RequestContext = f1, !.Callback = f3,
                    !.Balance = f4]
  BY DEF AfterRefund, LedgerType
<1> HIDE DEF u, f1, f2, f3, f4
<1>5. u \in LedgerType
  BY <1>2, <1>3, <1>4 DEF LedgerType
<1>6. /\ u.Refunded = f2 /\ u.RequestContext = f1 /\ u.Balance = f4
      /\ u.Counter = s.Counter /\ u.Requester = s.Requester
      /\ u.Context0 = s.Context0 /\ u.RequestRound = s.RequestRound
      /\ u.MadeAt = s.MadeAt /\ u.Fulfilled = s.Fulfilled
      /\ u.Beta = s.Beta /\ u.Donated = s.Donated
      /\ u.OraclePK = s.OraclePK /\ u.DrandPK = s.DrandPK
      /\ u.Fulfilling = s.Fulfilling
  BY <1>4 DEF LedgerType
<1>. QED
  BY <1>1, <1>5, <1>6 DEF RefundEffect, u, f1, f2, f4

FulfillEffect(s, u, id, p) ==
  /\ u \in LedgerType
  /\ u.Balance = Transfer(s.Balance, Self, s.OracleAddr, FeeAmount)
  /\ u.Fulfilled = [s.Fulfilled EXCEPT ![id] = TRUE]
  /\ u.Beta = [s.Beta EXCEPT ![id] = p.beta_output]
  /\ u.Fulfilling = [s.Fulfilling EXCEPT ![id] = TRUE]
  /\ u.RequestContext = s.RequestContext
  /\ u.Counter = s.Counter /\ u.Requester = s.Requester
  /\ u.Context0 = s.Context0 /\ u.RequestRound = s.RequestRound
  /\ u.MadeAt = s.MadeAt /\ u.Refunded = s.Refunded
  /\ u.Donated = s.Donated
  /\ u.OracleAddr = s.OracleAddr /\ u.OraclePK = s.OraclePK /\ u.DrandPK = s.DrandPK

LEMMA FulfillFields ==
  ASSUME NEW s \in LedgerType, NEW a, NEW id \in Ids, NEW p \in ProofType,
         CanFulfill(s, a, id)
  PROVE  FulfillEffect(s, AfterFulfill(s, id, p), id, p)
<1> DEFINE u  == AfterFulfill(s, id, p)
           f1 == [s.Proof EXCEPT ![id] = p]
           f2 == [s.Beta EXCEPT ![id] = p.beta_output]
           f3 == [s.Fulfilled EXCEPT ![id] = TRUE]
           f4 == Transfer(s.Balance, Self, s.OracleAddr, FeeAmount)
           f5 == [s.Fulfilling EXCEPT ![id] = TRUE]
<1>1. f4 \in [Accounts -> Nat]
  BY TransferFacts, ConstructorAccepts, Environment
     DEF LedgerType, CanFulfill, CanTransfer, Accounts
<1>2. p.beta_output \in BetaType
  BY DEF ProofType
<1>3. /\ f1 \in [Ids -> ProofType \cup {None}]
      /\ f2 \in [Ids -> BetaType \cup {None}]
      /\ f3 \in [Ids -> BOOLEAN] /\ f5 \in [Ids -> BOOLEAN]
  BY <1>2 DEF LedgerType
<1>4. u = [s EXCEPT !.Proof = f1, !.Beta = f2, !.Fulfilled = f3,
                    !.Balance = f4, !.Fulfilling = f5]
  BY DEF AfterFulfill, LedgerType
<1> HIDE DEF u, f1, f2, f3, f4, f5
<1>5. u \in LedgerType
  BY <1>1, <1>3, <1>4 DEF LedgerType
<1>6. /\ u.Fulfilled = f3 /\ u.Beta = f2 /\ u.Balance = f4
      /\ u.Fulfilling = f5 /\ u.RequestContext = s.RequestContext
      /\ u.Counter = s.Counter /\ u.Requester = s.Requester
      /\ u.Context0 = s.Context0 /\ u.RequestRound = s.RequestRound
      /\ u.MadeAt = s.MadeAt /\ u.Refunded = s.Refunded
      /\ u.Donated = s.Donated
      /\ u.OracleAddr = s.OracleAddr /\ u.OraclePK = s.OraclePK /\ u.DrandPK = s.DrandPK
  BY <1>4 DEF LedgerType
<1>. QED
  BY <1>5, <1>6 DEF FulfillEffect, u, f2, f3, f4, f5

ClearEffect(s, u, id) ==
  /\ u \in LedgerType
  /\ u.Fulfilling = [s.Fulfilling EXCEPT ![id] = FALSE]
  /\ u.Balance = s.Balance /\ u.RequestContext = s.RequestContext
  /\ u.Counter = s.Counter /\ u.Requester = s.Requester
  /\ u.Context0 = s.Context0 /\ u.RequestRound = s.RequestRound
  /\ u.MadeAt = s.MadeAt /\ u.Refunded = s.Refunded
  /\ u.Fulfilled = s.Fulfilled /\ u.Beta = s.Beta
  /\ u.Donated = s.Donated
  /\ u.OracleAddr = s.OracleAddr /\ u.OraclePK = s.OraclePK /\ u.DrandPK = s.DrandPK

LEMMA ClearFields ==
  ASSUME NEW s \in LedgerType, NEW id \in Ids
  PROVE  ClearEffect(s, ClearFulfilling(s, id), id)
<1> DEFINE u == ClearFulfilling(s, id)
           f == [s.Fulfilling EXCEPT ![id] = FALSE]
<1>1. f \in [Ids -> BOOLEAN]
  BY DEF LedgerType
<1>2. u = [s EXCEPT !.Fulfilling = f]
  BY DEF ClearFulfilling
<1> HIDE DEF u, f
<1>3. u \in LedgerType
  BY <1>1, <1>2 DEF LedgerType
<1>4. /\ u.Fulfilling = f
      /\ u.Balance = s.Balance /\ u.RequestContext = s.RequestContext
      /\ u.Counter = s.Counter /\ u.Requester = s.Requester
      /\ u.Context0 = s.Context0 /\ u.RequestRound = s.RequestRound
      /\ u.MadeAt = s.MadeAt /\ u.Refunded = s.Refunded
      /\ u.Fulfilled = s.Fulfilled /\ u.Beta = s.Beta
      /\ u.Donated = s.Donated
      /\ u.OracleAddr = s.OracleAddr /\ u.OraclePK = s.OraclePK /\ u.DrandPK = s.DrandPK
  BY <1>2 DEF LedgerType
<1>. QED
  BY <1>3, <1>4 DEF ClearEffect, u, f

CleanupEffect(s, u, id) ==
  /\ u \in LedgerType
  /\ u.RequestContext = [s.RequestContext EXCEPT ![id] = None]
  /\ u.Balance = s.Balance /\ u.Fulfilling = s.Fulfilling
  /\ u.Counter = s.Counter /\ u.Requester = s.Requester
  /\ u.Context0 = s.Context0 /\ u.RequestRound = s.RequestRound
  /\ u.MadeAt = s.MadeAt /\ u.Refunded = s.Refunded
  /\ u.Fulfilled = s.Fulfilled /\ u.Beta = s.Beta
  /\ u.Donated = s.Donated
  /\ u.OracleAddr = s.OracleAddr /\ u.OraclePK = s.OraclePK /\ u.DrandPK = s.DrandPK

LEMMA CleanupFields ==
  ASSUME NEW s \in LedgerType, NEW id \in Ids
  PROVE  CleanupEffect(s, AfterCleanup(s, id), id)
<1> DEFINE u  == AfterCleanup(s, id)
           f1 == [s.RequestContext EXCEPT ![id] = None]
           f2 == [s.Proof EXCEPT ![id] = None]
           f3 == [s.Callback EXCEPT ![id] = FALSE]
<1>1. /\ f1 \in [Ids -> Contexts \cup {None}]
      /\ f2 \in [Ids -> ProofType \cup {None}]
      /\ f3 \in [Ids -> BOOLEAN]
  BY DEF LedgerType
<1>2. u = [s EXCEPT !.Proof = f2, !.RequestContext = f1, !.Callback = f3]
  BY DEF AfterCleanup
<1> HIDE DEF u, f1, f2, f3
<1>3. u \in LedgerType
  BY <1>1, <1>2 DEF LedgerType
<1>4. /\ u.RequestContext = f1
      /\ u.Balance = s.Balance /\ u.Fulfilling = s.Fulfilling
      /\ u.Counter = s.Counter /\ u.Requester = s.Requester
      /\ u.Context0 = s.Context0 /\ u.RequestRound = s.RequestRound
      /\ u.MadeAt = s.MadeAt /\ u.Refunded = s.Refunded
      /\ u.Fulfilled = s.Fulfilled /\ u.Beta = s.Beta
      /\ u.Donated = s.Donated
      /\ u.OracleAddr = s.OracleAddr /\ u.OraclePK = s.OraclePK /\ u.DrandPK = s.DrandPK
  BY <1>2 DEF LedgerType
<1>. QED
  BY <1>3, <1>4 DEF CleanupEffect, u, f1

(* The fields the request part of the invariant reads. *)
SameRequests(s, u) ==
  /\ u.Counter = s.Counter /\ u.Requester = s.Requester
  /\ u.RequestContext = s.RequestContext /\ u.Context0 = s.Context0
  /\ u.RequestRound = s.RequestRound /\ u.MadeAt = s.MadeAt
  /\ u.Fulfilled = s.Fulfilled /\ u.Refunded = s.Refunded
  /\ u.Beta = s.Beta

LEMMA RotateOracleFields ==
  ASSUME NEW s \in LedgerType, NEW pk \in G2Keys, NEW addr \in Addresses,
         NEW ed \in Ed25519Keys
  PROVE  LET u == AfterRotateOracle(s, pk, addr, ed)
         IN /\ u \in LedgerType /\ SameRequests(s, u)
            /\ u.Balance = s.Balance /\ u.Donated = s.Donated
            /\ u.OraclePK = pk /\ u.DrandPK = s.DrandPK
            /\ u.Fulfilling = s.Fulfilling
  BY DEF AfterRotateOracle, LedgerType, SameRequests

LEMMA RotateDrandFields ==
  ASSUME NEW s \in LedgerType, NEW key \in G2Keys
  PROVE  LET u == AfterRotateDrand(s, key)
         IN /\ u \in LedgerType /\ SameRequests(s, u)
            /\ u.Balance = s.Balance /\ u.Donated = s.Donated
            /\ u.OraclePK = s.OraclePK /\ u.DrandPK = key
            /\ u.Fulfilling = s.Fulfilling
  BY DEF AfterRotateDrand, LedgerType, SameRequests

AfterTransfer(s, from, to) ==
  [s EXCEPT !.Balance = Transfer(@, from, to, 1),
            !.Donated = IF to = Self THEN @ + 1 ELSE @]

LEMMA TransferFields ==
  ASSUME NEW s \in LedgerType, NEW from \in Addresses, NEW to \in Accounts,
         from # to, CanTransfer(s, from, 1)
  PROVE  LET u == AfterTransfer(s, from, to)
         IN /\ u \in LedgerType /\ SameRequests(s, u)
            /\ u.Balance[Self] - u.Donated = s.Balance[Self] - s.Donated
            /\ u.OraclePK = s.OraclePK /\ u.DrandPK = s.DrandPK
            /\ u.Fulfilling = s.Fulfilling
<1> DEFINE u == AfterTransfer(s, from, to)
           b == Transfer(s.Balance, from, to, 1)
           d == IF to = Self THEN s.Donated + 1 ELSE s.Donated
<1>1. s.Balance \in [Accounts -> Nat] /\ s.Donated \in Nat
  BY DEF LedgerType
<1>2. from \in Accounts /\ Self \in Accounts /\ from # Self
  BY Environment DEF Accounts
<1>3. /\ b \in [Accounts -> Nat]
      /\ b[Self] = IF to = Self THEN s.Balance[Self] + 1 ELSE s.Balance[Self]
  BY <1>1, <1>2, TransferFacts DEF CanTransfer
<1>4. d \in Nat
  BY <1>1
<1>5. u = [s EXCEPT !.Balance = b, !.Donated = d]
  BY DEF AfterTransfer
<1>6. b[Self] - d = s.Balance[Self] - s.Donated
  BY <1>1, <1>2, <1>3
<1> HIDE DEF u, b, d
<1>7. u \in LedgerType
  BY <1>3, <1>4, <1>5 DEF LedgerType
<1>8. /\ SameRequests(s, u) /\ u.Balance = b /\ u.Donated = d
      /\ u.OraclePK = s.OraclePK /\ u.DrandPK = s.DrandPK
      /\ u.Fulfilling = s.Fulfilling
  BY <1>5 DEF LedgerType, SameRequests
<1>. QED
  BY <1>6, <1>7, <1>8 DEF u

-----------------------------------------------------------------------------
(* Every entry point preserves the ledger invariant and only evolves it.   *)

(* A call that leaves the requests alone and neither takes from nor adds   *)
(* to the escrow preserves everything, if its keys are usable.             *)
LEMMA SameRequestsInv ==
  ASSUME NEW s, NEW u, LedgerInv(s), u \in LedgerType, SameRequests(s, u),
         u.Balance[Self] - u.Donated = s.Balance[Self] - s.Donated,
         UsableKeys(u)
  PROVE  LedgerInv(u) /\ Evolves(s, u)
<1>1. s \in LedgerType
  BY DEF LedgerInv
<1>2. PendingIds(u) = PendingIds(s)
  BY DEF PendingIds, Pending, SameRequests
<1>3. Escrow(u)
  <2>1. Self \in Accounts
    BY DEF Accounts
  <2>2. /\ u.Balance[Self] \in Nat /\ s.Balance[Self] \in Nat
        /\ u.Donated \in Nat /\ s.Donated \in Nat
    BY <1>1, <2>1 DEF LedgerType
  <2>3. s.Balance[Self] = s.Donated + FeeAmount * Cardinality(PendingIds(s))
    BY DEF LedgerInv, Escrow
  <2> DEFINE e == FeeAmount * Cardinality(PendingIds(s))
  <2>4. e \in Nat
    BY PendingFinite, ConstructorAccepts
  <2> HIDE DEF e
  <2>5. u.Balance[Self] = u.Donated + e
    BY <2>2, <2>3, <2>4 DEF e
  <2>. QED BY <1>2, <2>5 DEF Escrow, e
<1>4. Allocated(u) /\ Outcome(u) /\ Serviceable(u) /\ Bound(u)
  BY DEF LedgerInv, Allocated, Outcome, Serviceable, Bound, SameRequests,
         Pending
<1>5. Evolves(s, u)
  BY <1>1 DEF Evolves, SameRequests, LedgerType
<1>. QED
  BY <1>3, <1>4, <1>5 DEF LedgerInv

LEMMA RequestInv ==
  ASSUME NEW s, NEW a \in Addresses, NEW c \in Contexts, NEW cb \in BOOLEAN,
         NEW t \in Nat, LedgerInv(s), CanRequest(s, a, c)
  PROVE  LET u == AfterRequest(s, a, c, cb, t)
         IN LedgerInv(u) /\ Evolves(s, u)
<1> DEFINE u == AfterRequest(s, a, c, cb, t)
           new == s.Counter + 1
<1>1. s \in LedgerType
  BY DEF LedgerInv
<1>2. /\ u \in LedgerType /\ new \in Ids
      /\ u.Counter = new
      /\ u.Balance = Transfer(s.Balance, a, Self, FeeAmount)
      /\ u.Requester = [s.Requester EXCEPT ![new] = a]
      /\ u.RequestContext = [s.RequestContext EXCEPT ![new] = c]
      /\ u.Context0 = [s.Context0 EXCEPT ![new] = c]
      /\ u.RequestRound = [s.RequestRound EXCEPT ![new] = RequiredRound(t)]
      /\ u.Fulfilled = [s.Fulfilled EXCEPT ![new] = FALSE]
      /\ u.Refunded = [s.Refunded EXCEPT ![new] = FALSE]
      /\ u.Beta = s.Beta /\ u.Donated = s.Donated
      /\ u.OraclePK = s.OraclePK /\ u.DrandPK = s.DrandPK
  <2>1. RequestEffect(s, u, a, c, t)
    BY <1>1, RequestFields
  <2>. QED BY <2>1 DEF RequestEffect, u, new
<1> HIDE DEF u
<1>3. s.Counter \in Nat /\ new > s.Counter
  BY <1>1 DEF LedgerType
<1>4. /\ s.Requester[new] = None /\ ~s.Fulfilled[new] /\ ~s.Refunded[new]
      /\ s.Beta[new] = None
  BY <1>2, <1>3 DEF LedgerInv, Allocated
<1>5. a # None /\ c # None
  BY Environment
<1>6. \A id \in Ids \ {new} :
        /\ u.Requester[id] = s.Requester[id]
        /\ u.RequestContext[id] = s.RequestContext[id]
        /\ u.Context0[id] = s.Context0[id]
        /\ u.RequestRound[id] = s.RequestRound[id]
        /\ u.Fulfilled[id] = s.Fulfilled[id]
        /\ u.Refunded[id] = s.Refunded[id]
  BY <1>1, <1>2 DEF LedgerType
<1>7. /\ u.Requester[new] = a /\ u.RequestContext[new] = c
      /\ u.Context0[new] = c /\ ~u.Fulfilled[new] /\ ~u.Refunded[new]
  BY <1>1, <1>2 DEF LedgerType
<1> HIDE DEF new
<1>8. Allocated(u)
  <2> SUFFICES ASSUME NEW id \in Ids
               PROVE  IF id <= u.Counter
                      THEN u.Requester[id] # None
                      ELSE /\ u.Requester[id] = None /\ ~u.Fulfilled[id]
                           /\ ~u.Refunded[id] /\ u.Beta[id] = None
                           /\ u.RequestContext[id] = None
    BY DEF Allocated
  <2>1. CASE id = new
    BY <2>1, <1>2, <1>3, <1>5, <1>7 DEF Ids
  <2>2. CASE id # new
    <3>1. (id <= u.Counter) <=> (id <= s.Counter)
      BY <2>2, <1>2, <1>3 DEF Ids, new
    <3>. QED BY <2>2, <3>1, <1>2, <1>6 DEF LedgerInv, Allocated
  <2>. QED BY <2>1, <2>2
<1>9. Escrow(u)
  <2>1. PendingIds(u) = PendingIds(s) \cup {new}
    BY <1>2, <1>5, <1>6, <1>7 DEF PendingIds, Pending
  <2>2. new \notin PendingIds(s)
    BY <1>4 DEF PendingIds, Pending
  <2>3. Cardinality(PendingIds(u)) = Cardinality(PendingIds(s)) + 1
    BY <2>1, <2>2, PendingFinite, FS_AddElement
  <2>4. u.Balance[Self] = s.Balance[Self] + FeeAmount
    <3>1. /\ s.Balance \in [Accounts -> Nat] /\ s.Balance[a] >= FeeAmount
          /\ a \in Accounts /\ Self \in Accounts /\ a # Self /\ FeeAmount \in Nat
      BY <1>1, ConstructorAccepts, Environment
         DEF LedgerType, CanRequest, CanTransfer, Accounts
    <3>. QED BY <1>2, <3>1, TransferFacts
  <2>5. s.Balance[Self] = s.Donated + FeeAmount * Cardinality(PendingIds(s))
    BY DEF LedgerInv, Escrow
  <2>6. FeeAmount \in Nat /\ Cardinality(PendingIds(s)) \in Nat /\ s.Donated \in Nat
    BY <1>1, PendingFinite, ConstructorAccepts DEF LedgerType
  <2>. QED BY <1>2, <2>3, <2>4, <2>5, <2>6 DEF Escrow
<1>10. Outcome(u)
  BY <1>2, <1>4, <1>6, <1>7 DEF LedgerInv, Outcome
<1>11. Serviceable(u)
  BY <1>5, <1>6, <1>7 DEF LedgerInv, Serviceable, Pending
<1>12. Bound(u)
  BY <1>2, <1>6, <1>7 DEF LedgerInv, Bound
<1>13. UsableKeys(u)
  BY <1>2 DEF LedgerInv, UsableKeys
<1>14. Evolves(s, u)
  <2>1. s.Counter <= u.Counter
    BY <1>2, <1>3 DEF new
  <2>2. ASSUME NEW id \in Ids
        PROVE  /\ s.Requester[id] # None =>
                    /\ u.Requester[id] = s.Requester[id]
                    /\ u.RequestRound[id] = s.RequestRound[id]
               /\ s.Fulfilled[id] => u.Fulfilled[id] /\ u.Beta[id] = s.Beta[id]
               /\ s.Refunded[id] => u.Refunded[id]
    BY <1>2, <1>4, <1>6
  <2>. QED BY <2>1, <2>2 DEF Evolves
<1>15. QED
  BY <1>2, <1>8, <1>9, <1>10, <1>11, <1>12, <1>13, <1>14 DEF LedgerInv, u

(* Paying one pending request's fee out of the escrow and closing it. *)
LEMMA SettleEscrow ==
  ASSUME NEW s, NEW u, NEW id \in Ids, NEW to \in Addresses,
         LedgerInv(s), Pending(s, id), CanTransfer(s, Self, FeeAmount),
         PendingIds(u) = PendingIds(s) \ {id}, u.Donated = s.Donated,
         u.Balance = Transfer(s.Balance, Self, to, FeeAmount)
  PROVE  Escrow(u)
<1>1. s \in LedgerType
  BY DEF LedgerInv
<1>2. id \in PendingIds(s)
  BY DEF PendingIds
<1>3. Cardinality(PendingIds(u)) = Cardinality(PendingIds(s)) - 1
  BY <1>2, PendingFinite, FS_RemoveElement
<1>4. u.Balance[Self] = s.Balance[Self] - FeeAmount
  <2>1. /\ s.Balance \in [Accounts -> Nat] /\ s.Balance[Self] >= FeeAmount
        /\ to \in Accounts /\ Self \in Accounts /\ to # Self /\ FeeAmount \in Nat
    BY <1>1, ConstructorAccepts, Environment DEF LedgerType, CanTransfer, Accounts
  <2>. QED BY <2>1, TransferFacts
<1>5. s.Balance[Self] = s.Donated + FeeAmount * Cardinality(PendingIds(s))
  BY DEF LedgerInv, Escrow
<1>6. /\ FeeAmount \in Nat /\ Cardinality(PendingIds(s)) \in Nat
      /\ s.Donated \in Nat
  BY <1>1, PendingFinite, ConstructorAccepts DEF LedgerType
<1>. QED
  BY <1>3, <1>4, <1>5, <1>6 DEF Escrow

LEMMA RefundInv ==
  ASSUME NEW s, NEW a, NEW id \in Ids, NEW t \in Nat, LedgerInv(s),
         CanRefund(s, a, id, t)
  PROVE  LET u == AfterRefund(s, id)
         IN LedgerInv(u) /\ Evolves(s, u)
<1> DEFINE u == AfterRefund(s, id)
<1>1. s \in LedgerType
  BY DEF LedgerInv
<1>2. /\ u \in LedgerType /\ s.Requester[id] \in Addresses
      /\ u.Balance = Transfer(s.Balance, Self, s.Requester[id], FeeAmount)
      /\ u.Refunded = [s.Refunded EXCEPT ![id] = TRUE]
      /\ u.RequestContext = [s.RequestContext EXCEPT ![id] = None]
      /\ u.Counter = s.Counter /\ u.Requester = s.Requester
      /\ u.Context0 = s.Context0 /\ u.RequestRound = s.RequestRound
      /\ u.Fulfilled = s.Fulfilled
      /\ u.Beta = s.Beta /\ u.Donated = s.Donated
      /\ u.OraclePK = s.OraclePK /\ u.DrandPK = s.DrandPK
  <2>1. RefundEffect(s, u, id)
    BY <1>1, RefundFields
  <2>. QED BY <2>1 DEF RefundEffect, u
<1> HIDE DEF u
<1>3. /\ Pending(s, id) /\ ~s.Fulfilled[id]
      /\ CanTransfer(s, Self, FeeAmount)
  BY DEF CanRefund, Pending
<1>4. /\ u.Refunded[id] /\ u.RequestContext[id] = None
      /\ \A j \in Ids \ {id} : /\ u.Refunded[j] = s.Refunded[j]
                               /\ u.RequestContext[j] = s.RequestContext[j]
  BY <1>1, <1>2 DEF LedgerType
<1>5. Escrow(u)
  <2>1. PendingIds(u) = PendingIds(s) \ {id}
    BY <1>2, <1>4 DEF PendingIds, Pending
  <2>. QED BY <1>2, <1>3, <2>1, SettleEscrow
<1>6. Allocated(u)
  BY <1>2, <1>3, <1>4 DEF LedgerInv, Allocated, Pending
<1>7. Outcome(u)
  BY <1>2, <1>3, <1>4 DEF LedgerInv, Outcome
<1>8. Serviceable(u)
  BY <1>2, <1>4 DEF LedgerInv, Serviceable, Pending
<1>9. UsableKeys(u) /\ Bound(u)
  BY <1>2 DEF LedgerInv, UsableKeys, Bound
<1>10. Evolves(s, u)
  BY <1>1, <1>2, <1>4 DEF Evolves, LedgerType
<1>. QED
  BY <1>2, <1>5, <1>6, <1>7, <1>8, <1>9, <1>10 DEF LedgerInv, u

LEMMA FulfillInv ==
  ASSUME NEW s, NEW a, NEW id \in Ids, NEW p \in ProofType, NEW signer,
         LedgerInv(s), CanFulfill(s, a, id), AcceptsProof(s, id, p, signer)
  PROVE  LET u == AfterFulfill(s, id, p)
         IN LedgerInv(u) /\ Evolves(s, u)
<1> DEFINE u == AfterFulfill(s, id, p)
<1>1. s \in LedgerType
  BY DEF LedgerInv
<1>2. /\ u \in LedgerType
      /\ u.Balance = Transfer(s.Balance, Self, s.OracleAddr, FeeAmount)
      /\ u.Fulfilled = [s.Fulfilled EXCEPT ![id] = TRUE]
      /\ u.Beta = [s.Beta EXCEPT ![id] = p.beta_output]
      /\ u.RequestContext = s.RequestContext
      /\ u.Counter = s.Counter /\ u.Requester = s.Requester
      /\ u.Context0 = s.Context0 /\ u.RequestRound = s.RequestRound
      /\ u.Refunded = s.Refunded /\ u.Donated = s.Donated
      /\ u.OraclePK = s.OraclePK /\ u.DrandPK = s.DrandPK
  <2>1. FulfillEffect(s, u, id, p)
    BY <1>1, FulfillFields
  <2>. QED BY <2>1 DEF FulfillEffect, u
<1> HIDE DEF u
<1>3. /\ s.RequestContext[id] # None /\ ~s.Fulfilled[id] /\ ~s.Refunded[id]
      /\ CanTransfer(s, Self, FeeAmount) /\ s.OracleAddr \in Addresses
  BY <1>1 DEF CanFulfill, LedgerType
<1>4. id <= s.Counter /\ Pending(s, id)
  BY <1>3 DEF LedgerInv, Allocated, Pending
<1>5. /\ u.Fulfilled[id] /\ u.Beta[id] = p.beta_output
      /\ \A j \in Ids \ {id} : /\ u.Fulfilled[j] = s.Fulfilled[j]
                               /\ u.Beta[j] = s.Beta[j]
  BY <1>1, <1>2 DEF LedgerType
<1>6. p.beta_output # None
  BY NoneIsNoOutput DEF ProofType
<1>7. Escrow(u)
  <2>1. PendingIds(u) = PendingIds(s) \ {id}
    BY <1>2, <1>5 DEF PendingIds, Pending
  <2>. QED BY <1>2, <1>3, <1>4, <2>1, SettleEscrow
<1>8. Allocated(u)
  BY <1>2, <1>4, <1>5 DEF LedgerInv, Allocated
<1>9. Outcome(u)
  BY <1>2, <1>3, <1>5, <1>6 DEF LedgerInv, Outcome
<1>10. Serviceable(u)
  BY <1>2, <1>5 DEF LedgerInv, Serviceable, Pending
<1>11. UsableKeys(u)
  BY <1>2 DEF LedgerInv, UsableKeys
<1>12. Bound(u)
  <2>1. s.RequestContext[id] = s.Context0[id]
    BY <1>4 DEF LedgerInv, Serviceable
  <2>2. p.beta_output = OutputOf(s.OraclePK, s.DrandPK, id, s.Context0[id],
                                 s.RequestRound[id])
    BY <2>1 DEF AcceptsProof, OutputOf
  <2>3. <<s.OraclePK, s.DrandPK>> \in UsableKeyPairs
    BY DEF LedgerInv, UsableKeys
  <2>4. \E q \in UsableKeyPairs :
          u.Beta[id] = OutputOf(q[1], q[2], id, u.Context0[id], u.RequestRound[id])
    BY <1>2, <1>5, <2>2, <2>3
  <2>. QED BY <1>2, <1>5, <2>4 DEF LedgerInv, Bound
<1>13. Evolves(s, u)
  BY <1>1, <1>2, <1>3, <1>5 DEF Evolves, LedgerType
<1>. QED
  BY <1>2, <1>7, <1>8, <1>9, <1>10, <1>11, <1>12, <1>13 DEF LedgerInv, u

LEMMA CleanupInv ==
  ASSUME NEW s, NEW a, NEW id \in Ids, LedgerInv(s), CanCleanup(s, a, id)
  PROVE  LET u == AfterCleanup(s, id)
         IN LedgerInv(u) /\ Evolves(s, u)
<1> DEFINE u == AfterCleanup(s, id)
<1>1. s \in LedgerType
  BY DEF LedgerInv
<1>2. /\ u \in LedgerType
      /\ u.RequestContext = [s.RequestContext EXCEPT ![id] = None]
      /\ u.Balance = s.Balance /\ u.Donated = s.Donated
      /\ u.Counter = s.Counter /\ u.Requester = s.Requester
      /\ u.Context0 = s.Context0 /\ u.RequestRound = s.RequestRound
      /\ u.Refunded = s.Refunded /\ u.Fulfilled = s.Fulfilled
      /\ u.Beta = s.Beta
      /\ u.OraclePK = s.OraclePK /\ u.DrandPK = s.DrandPK
  <2>1. CleanupEffect(s, u, id)
    BY <1>1, CleanupFields
  <2>. QED BY <2>1 DEF CleanupEffect, u
<1> HIDE DEF u
<1>3. /\ u.RequestContext[id] = None
      /\ \A j \in Ids \ {id} : u.RequestContext[j] = s.RequestContext[j]
  BY <1>1, <1>2 DEF LedgerType
<1>4. s.Fulfilled[id]
  BY DEF CanCleanup
<1>5. Escrow(u)
  BY <1>2 DEF LedgerInv, Escrow, PendingIds, Pending
<1>6. Allocated(u) /\ Outcome(u)
  BY <1>2, <1>3 DEF LedgerInv, Allocated, Outcome
<1>7. Serviceable(u)
  BY <1>2, <1>3, <1>4 DEF LedgerInv, Serviceable, Pending
<1>8. UsableKeys(u) /\ Bound(u)
  BY <1>2 DEF LedgerInv, UsableKeys, Bound
<1>9. Evolves(s, u)
  BY <1>1, <1>2 DEF Evolves, LedgerType
<1>. QED
  BY <1>2, <1>5, <1>6, <1>7, <1>8, <1>9 DEF LedgerInv, u

LEMMA ClearInv ==
  ASSUME NEW s, NEW id \in Ids, LedgerInv(s)
  PROVE  LET u == ClearFulfilling(s, id)
         IN LedgerInv(u) /\ Evolves(s, u)
<1> DEFINE u == ClearFulfilling(s, id)
<1>1. s \in LedgerType
  BY DEF LedgerInv
<1>2. ClearEffect(s, u, id)
  BY <1>1, ClearFields
<1> HIDE DEF u
<1>3. u \in LedgerType /\ SameRequests(s, u) /\ UsableKeys(u)
  BY <1>2 DEF ClearEffect, SameRequests, LedgerInv, UsableKeys
<1>4. u.Balance[Self] - u.Donated = s.Balance[Self] - s.Donated
  BY <1>2 DEF ClearEffect
<1>5. LedgerInv(u) /\ Evolves(s, u)
  BY <1>3, <1>4, SameRequestsInv
<1>. QED
  BY <1>5 DEF u

LEMMA RotateOracleInv ==
  ASSUME NEW s, NEW auth, NEW pk \in G2Keys, NEW addr \in Addresses,
         NEW ed \in Ed25519Keys,
         LedgerInv(s), CanRotateOracle(s, auth, pk, addr, ed)
  PROVE  LET u == AfterRotateOracle(s, pk, addr, ed)
         IN LedgerInv(u) /\ Evolves(s, u) /\ u.Fulfilling = s.Fulfilling
<1> DEFINE u == AfterRotateOracle(s, pk, addr, ed)
<1>1. s \in LedgerType
  BY DEF LedgerInv
<1>2. /\ u \in LedgerType /\ SameRequests(s, u)
      /\ u.Balance = s.Balance /\ u.Donated = s.Donated
      /\ u.OraclePK = pk /\ u.DrandPK = s.DrandPK
      /\ u.Fulfilling = s.Fulfilling
  BY <1>1, RotateOracleFields
<1> HIDE DEF u
<1>3. UsableKeys(u)
  BY <1>2 DEF LedgerInv, UsableKeys, UsableKeyPairs, CanRotateOracle,
              ValidG2PublicKey
<1>4. u.Balance[Self] - u.Donated = s.Balance[Self] - s.Donated
  BY <1>2
<1>. QED
  BY <1>2, <1>3, <1>4, SameRequestsInv DEF u

LEMMA RotateDrandInv ==
  ASSUME NEW s, NEW a, NEW key \in G2Keys, LedgerInv(s),
         CanRotateDrand(s, a, key)
  PROVE  LET u == AfterRotateDrand(s, key)
         IN LedgerInv(u) /\ Evolves(s, u) /\ u.Fulfilling = s.Fulfilling
<1> DEFINE u == AfterRotateDrand(s, key)
<1>1. s \in LedgerType
  BY DEF LedgerInv
<1>2. /\ u \in LedgerType /\ SameRequests(s, u)
      /\ u.Balance = s.Balance /\ u.Donated = s.Donated
      /\ u.OraclePK = s.OraclePK /\ u.DrandPK = key
      /\ u.Fulfilling = s.Fulfilling
  BY <1>1, RotateDrandFields
<1> HIDE DEF u
<1>3. UsableKeys(u)
  BY <1>2 DEF LedgerInv, UsableKeys, UsableKeyPairs, CanRotateDrand,
              ValidG2PublicKey
<1>4. u.Balance[Self] - u.Donated = s.Balance[Self] - s.Donated
  BY <1>2
<1>. QED
  BY <1>2, <1>3, <1>4, SameRequestsInv DEF u

LEMMA TransferInv ==
  ASSUME NEW s, NEW from \in Addresses, NEW to \in Accounts, from # to,
         LedgerInv(s), CanTransfer(s, from, 1)
  PROVE  LET u == AfterTransfer(s, from, to)
         IN LedgerInv(u) /\ Evolves(s, u) /\ u.Fulfilling = s.Fulfilling
<1> DEFINE u == AfterTransfer(s, from, to)
<1>1. s \in LedgerType
  BY DEF LedgerInv
<1>2. /\ u \in LedgerType /\ SameRequests(s, u)
      /\ u.Balance[Self] - u.Donated = s.Balance[Self] - s.Donated
      /\ u.OraclePK = s.OraclePK /\ u.DrandPK = s.DrandPK
      /\ u.Fulfilling = s.Fulfilling
  BY <1>1, TransferFields
<1> HIDE DEF u
<1>3. UsableKeys(u)
  BY <1>2 DEF LedgerInv, UsableKeys
<1>. QED
  BY <1>2, <1>3, SameRequestsInv DEF u

LEMMA EvolvesReflexive ==
  ASSUME NEW s \in LedgerType
  PROVE  Evolves(s, s)
  BY DEF Evolves, LedgerType

LEMMA EvolvesTransitive ==
  ASSUME NEW s \in LedgerType, NEW t \in LedgerType, NEW u \in LedgerType,
         Evolves(s, t), Evolves(t, u)
  PROVE  Evolves(s, u)
<1>1. s.Counter <= u.Counter
  BY DEF Evolves, LedgerType
<1>2. ASSUME NEW id \in Ids
      PROVE  /\ s.Requester[id] # None =>
                  /\ u.Requester[id] = s.Requester[id]
                  /\ u.RequestRound[id] = s.RequestRound[id]
             /\ s.Fulfilled[id] => u.Fulfilled[id] /\ u.Beta[id] = s.Beta[id]
             /\ s.Refunded[id] => u.Refunded[id]
  BY DEF Evolves
<1>. QED
  BY <1>1, <1>2 DEF Evolves

-----------------------------------------------------------------------------
(* The inductive invariant of the specification. *)

(* A waiting fulfill() has already stored its output and paid the oracle.  *)
FrameInv(f) ==
  /\ LedgerInv(f.savepoint)
  /\ Evolves(committed, f.savepoint)
  /\ f.savepoint.Fulfilled[f.id]
  /\ f.savepoint.Balance[f.savepoint.OracleAddr] >= FeeAmount

(* Fulfilling holds exactly the ids of the frames below the running code;  *)
(* a savepoint holds those up to its own frame.                            *)
GuardInv ==
  /\ \A id \in Ids : ~committed.Fulfilling[id]
  /\ \A id \in Ids :
       ledger.Fulfilling[id] <=> \E i \in DOMAIN frames : frames[i].id = id
  /\ \A k \in DOMAIN frames : \A id \in Ids :
       frames[k].savepoint.Fulfilling[id] <=> \E i \in 1..k : frames[i].id = id
  /\ \A i, j \in DOMAIN frames : frames[i].id = frames[j].id => i = j

IInv ==
  /\ TypeOK
  /\ LedgerInv(ledger) /\ LedgerInv(committed) /\ Evolves(committed, ledger)
  /\ \A i \in DOMAIN frames : FrameInv(frames[i])
  /\ frames = <<>> => committed = ledger
  /\ GuardInv

LEMMA InitIInv == Init => IInv
<1> SUFFICES ASSUME Init PROVE IInv
  OBVIOUS
<1>1. EmptyLedger \in LedgerType
  BY ConstructorAccepts, Environment DEF EmptyLedger, LedgerType, Accounts
<1>2. PendingIds(EmptyLedger) = {}
  BY DEF PendingIds, Pending, EmptyLedger
<1>3. Escrow(EmptyLedger)
  <2>1. Cardinality(PendingIds(EmptyLedger)) = 0
    BY <1>2, FS_EmptySet
  <2>2. EmptyLedger.Balance[Self] = 0 /\ EmptyLedger.Donated = 0
    BY DEF EmptyLedger, Accounts
  <2>3. FeeAmount * 0 = 0
    BY ConstructorAccepts
  <2>. QED BY <2>1, <2>2, <2>3 DEF Escrow
<1>4. /\ Allocated(EmptyLedger) /\ Outcome(EmptyLedger)
      /\ Serviceable(EmptyLedger) /\ Bound(EmptyLedger)
  BY Environment
     DEF Allocated, Outcome, Serviceable, Bound, Pending, EmptyLedger, Ids
<1>5. UsableKeys(EmptyLedger)
  BY ConstructorAccepts DEF UsableKeys, UsableKeyPairs, EmptyLedger
<1>6. LedgerInv(EmptyLedger)
  BY <1>1, <1>3, <1>4, <1>5 DEF LedgerInv
<1>7. TypeOK
  BY <1>1, Environment DEF Init, TypeOK
<1>8. GuardInv
  BY DEF Init, GuardInv, EmptyLedger
<1>. QED
  BY <1>1, <1>6, <1>7, <1>8, EvolvesReflexive DEF IInv, Init

(* A call that runs to its end keeps the invariant. *)
LEMMA RunPreserves ==
  ASSUME IInv, NEW s, LedgerInv(s), Evolves(ledger, s),
         s.Fulfilling = ledger.Fulfilling, Run(s)
  PROVE  IInv' /\ Evolves(committed, committed')
<1>1. /\ ledger \in LedgerType /\ committed \in LedgerType /\ s \in LedgerType
  BY DEF IInv, LedgerInv
<1>2. Evolves(committed, s)
  BY <1>1, EvolvesTransitive DEF IInv
<1>3. ledger' = s /\ frames' = frames /\ now' = now
  BY DEF Run
<1>4. /\ committed' \in LedgerType
      /\ LedgerInv(committed') /\ Evolves(committed', s)
      /\ Evolves(committed, committed')
      /\ frames = <<>> => committed' = s
  BY <1>1, <1>2, EvolvesReflexive DEF Run, IInv
<1>5. TypeOK'
  BY <1>1, <1>3, <1>4 DEF IInv, TypeOK
<1>6. \A i \in DOMAIN frames' : FrameInv(frames[i])'
  <2>1. CASE frames = <<>>
    BY <1>3, <2>1
  <2>2. CASE frames # <<>>
    BY <1>3, <2>2 DEF Run, IInv, FrameInv
  <2>. QED BY <2>1, <2>2
<1>7. GuardInv'
  <2>1. \A id \in Ids : ~committed'.Fulfilling[id]
    BY <1>3 DEF Run, IInv, GuardInv
  <2>. QED BY <1>3, <2>1 DEF IInv, GuardInv
<1>. QED
  BY <1>3, <1>4, <1>5, <1>6, <1>7 DEF IInv

LEMMA EntryPointsPreserve ==
  ASSUME IInv, NEW a \in Addresses, NEW id \in Ids,
         TimeoutRefund(a, id) \/ CleanupProof(a, id) \/ Fulfill(a, id)
  PROVE  IInv' /\ Evolves(committed, committed')
<1>1. ledger \in LedgerType /\ LedgerInv(ledger) /\ now \in Nat
  BY DEF IInv, LedgerInv, TypeOK
<1>2. CASE TimeoutRefund(a, id)
  <2> DEFINE u == AfterRefund(ledger, id)
  <2>1. CanRefund(ledger, a, id, now) /\ Run(u)
    BY <1>2 DEF TimeoutRefund
  <2>2. LedgerInv(u) /\ Evolves(ledger, u)
    BY <1>1, <2>1, RefundInv
  <2>3. RefundEffect(ledger, u, id)
    BY <1>1, <2>1, RefundFields
  <2> HIDE DEF u
  <2>4. u.Fulfilling = ledger.Fulfilling
    BY <2>3 DEF RefundEffect
  <2>. QED BY <2>1, <2>2, <2>4, RunPreserves
<1>3. CASE CleanupProof(a, id)
  <2> DEFINE u == AfterCleanup(ledger, id)
  <2>1. CanCleanup(ledger, a, id) /\ Run(u)
    BY <1>3 DEF CleanupProof
  <2>2. LedgerInv(u) /\ Evolves(ledger, u)
    BY <1>1, <2>1, CleanupInv
  <2>3. CleanupEffect(ledger, u, id)
    BY <1>1, <2>1, CleanupFields
  <2> HIDE DEF u
  <2>4. u.Fulfilling = ledger.Fulfilling
    BY <2>3 DEF CleanupEffect
  <2>. QED BY <2>1, <2>2, <2>4, RunPreserves
<1>4. CASE Fulfill(a, id)
  <2>1. PICK p \in ProofsAt(now), signer \in Ed25519Keys :
          /\ AcceptsProof(ledger, id, p, signer)
          /\ Run(ClearFulfilling(AfterFulfill(ledger, id, p), id))
    BY <1>4 DEF Fulfill
  <2>2. p \in ProofType
    BY <1>1, ProofTyped
  <2>3. CanFulfill(ledger, a, id)
    BY <1>4 DEF Fulfill
  <2> DEFINE u == AfterFulfill(ledger, id, p)
             v == ClearFulfilling(u, id)
  <2>4. LedgerInv(u) /\ Evolves(ledger, u)
    BY <2>1, <2>2, <2>3, <1>1, FulfillInv
  <2>5. FulfillEffect(ledger, u, id, p)
    BY <2>2, <2>3, <1>1, FulfillFields
  <2>6. Run(v)
    BY <2>1
  <2> HIDE DEF u
  <2>7. u \in LedgerType
    BY <2>4 DEF LedgerInv
  <2>8. LedgerInv(v) /\ Evolves(u, v)
    BY <2>4, ClearInv
  <2>9. ClearEffect(u, v, id)
    BY <2>7, ClearFields
  <2> HIDE DEF v
  <2>10. v.Fulfilling = ledger.Fulfilling
    <3>1. ledger.Fulfilling \in [Ids -> BOOLEAN] /\ ~ledger.Fulfilling[id]
      BY <1>1, <2>3 DEF LedgerType, CanFulfill
    <3>2. v.Fulfilling = [[ledger.Fulfilling EXCEPT ![id] = TRUE]
                            EXCEPT ![id] = FALSE]
      BY <2>5, <2>9 DEF FulfillEffect, ClearEffect
    <3>. QED BY <3>1, <3>2
  <2>11. Evolves(ledger, v)
    BY <1>1, <2>4, <2>7, <2>8, EvolvesTransitive DEF LedgerInv
  <2>. QED BY <2>6, <2>8, <2>10, <2>11, RunPreserves
<1>. QED
  BY <1>2, <1>3, <1>4

LEMMA RequestPreserves ==
  ASSUME IInv, NEW a \in Addresses, NEW c \in Contexts,
         Request(a, c) \/ RequestWithCallback(a, c)
  PROVE  IInv' /\ Evolves(committed, committed')
<1>1. ledger \in LedgerType /\ LedgerInv(ledger) /\ now \in Nat
  BY DEF IInv, LedgerInv, TypeOK
<1>2. PICK cb \in BOOLEAN :
        /\ CanRequest(ledger, a, c)
        /\ Run(AfterRequest(ledger, a, c, cb, now))
  BY DEF Request, RequestWithCallback
<1> DEFINE u == AfterRequest(ledger, a, c, cb, now)
<1>3. LedgerInv(u) /\ Evolves(ledger, u)
  BY <1>1, <1>2, RequestInv
<1>4. RequestEffect(ledger, u, a, c, now)
  BY <1>1, <1>2, RequestFields
<1>5. Run(u)
  BY <1>2
<1> HIDE DEF u
<1>6. u.Fulfilling = ledger.Fulfilling
  BY <1>4 DEF RequestEffect
<1>. QED BY <1>3, <1>5, <1>6, RunPreserves

LEMMA RotationsPreserve ==
  ASSUME IInv,
         \/ \E auth \in SUBSET Addresses, pk \in G2Keys, addr \in Addresses,
               ed \in Ed25519Keys : RotateOracleKeys(auth, pk, addr, ed)
         \/ \E a \in Addresses, key \in G2Keys : RotateDrandPk(a, key)
  PROVE  IInv' /\ Evolves(committed, committed')
<1>1. LedgerInv(ledger)
  BY DEF IInv
<1>2. ASSUME NEW auth, NEW pk \in G2Keys, NEW addr \in Addresses,
             NEW ed \in Ed25519Keys, RotateOracleKeys(auth, pk, addr, ed)
      PROVE  IInv' /\ Evolves(committed, committed')
  BY <1>1, <1>2, RotateOracleInv, RunPreserves DEF RotateOracleKeys
<1>3. ASSUME NEW a \in Addresses, NEW key \in G2Keys, RotateDrandPk(a, key)
      PROVE  IInv' /\ Evolves(committed, committed')
  BY <1>1, <1>3, RotateDrandInv, RunPreserves DEF RotateDrandPk
<1>. QED
  BY <1>2, <1>3

LEMMA TokenTransferPreserves ==
  ASSUME IInv, NEW from \in Addresses, NEW to \in Accounts,
         TokenTransfer(from, to)
  PROVE  IInv' /\ Evolves(committed, committed')
<1>1. LedgerInv(ledger)
  BY DEF IInv
<1>2. /\ from # to /\ CanTransfer(ledger, from, 1)
      /\ Run(AfterTransfer(ledger, from, to))
  BY DEF TokenTransfer, AfterTransfer
<1>. QED
  BY <1>1, <1>2, TransferInv, RunPreserves

(* fulfill() stops at its callback: a frame is pushed. *)
LEMMA CallPreserves ==
  ASSUME IInv, NEW a \in Addresses, NEW id \in Ids,
         FulfillInvokesCallback(a, id)
  PROVE  IInv' /\ Evolves(committed, committed')
<1>1. /\ ledger \in LedgerType /\ LedgerInv(ledger) /\ now \in Nat
      /\ committed \in LedgerType
      /\ frames \in Seq([id : Ids, savepoint : LedgerType])
  BY DEF IInv, LedgerInv, TypeOK
<1>2. PICK p \in ProofsAt(now), signer \in Ed25519Keys :
        /\ AcceptsProof(ledger, id, p, signer)
        /\ ledger' = AfterFulfill(ledger, id, p)
        /\ frames' = Append(frames, [id |-> id,
                                     savepoint |-> AfterFulfill(ledger, id, p)])
  BY DEF FulfillInvokesCallback
<1>3. CanFulfill(ledger, a, id) /\ committed' = committed /\ now' = now
  BY DEF FulfillInvokesCallback
<1> DEFINE u == AfterFulfill(ledger, id, p)
           f == [id |-> id, savepoint |-> u]
           n == Len(frames) + 1
<1>4. p \in ProofType
  BY <1>1, ProofTyped
<1>5. LedgerInv(u) /\ Evolves(ledger, u)
  BY <1>1, <1>2, <1>3, <1>4, FulfillInv
<1>6. FulfillEffect(ledger, u, id, p)
  BY <1>1, <1>3, <1>4, FulfillFields
<1>7. ledger' = u /\ frames' = Append(frames, f)
  BY <1>2
<1> HIDE DEF u
<1>8. u \in LedgerType
  BY <1>5 DEF LedgerInv
<1>9. Evolves(committed, u)
  BY <1>1, <1>5, <1>8, EvolvesTransitive DEF IInv
<1>10. /\ n \in Nat \ {0} /\ Len(frames) \in Nat
       /\ DOMAIN frames = 1..(n - 1) /\ DOMAIN frames' = 1..n
       /\ frames'[n] = f /\ \A i \in 1..(n - 1) : frames'[i] = frames[i]
       /\ frames' \in Seq([id : Ids, savepoint : LedgerType]) /\ frames' # <<>>
  BY <1>1, <1>7, <1>8
<1>11. /\ u.Fulfilled[id] /\ ~ledger.Fulfilling[id]
       /\ u.Fulfilling = [ledger.Fulfilling EXCEPT ![id] = TRUE]
       /\ u.Balance[u.OracleAddr] >= FeeAmount
  <2>1. u.Fulfilled[id] /\ u.Fulfilling = [ledger.Fulfilling EXCEPT ![id] = TRUE]
    BY <1>1, <1>6 DEF FulfillEffect, LedgerType
  <2>2. /\ ledger.Balance \in [Accounts -> Nat] /\ FeeAmount \in Nat
        /\ ledger.Balance[Self] >= FeeAmount /\ Self # ledger.OracleAddr
        /\ Self \in Accounts /\ ledger.OracleAddr \in Accounts
    BY <1>1, <1>3, ConstructorAccepts, Environment
       DEF LedgerType, CanFulfill, CanTransfer, Accounts
  <2>3. u.Balance[ledger.OracleAddr] = ledger.Balance[ledger.OracleAddr] + FeeAmount
    BY <1>6, <2>2, TransferFacts DEF FulfillEffect
  <2>4. ledger.Balance[ledger.OracleAddr] \in Nat
    BY <2>2
  <2>. QED BY <1>3, <1>6, <2>1, <2>2, <2>3, <2>4 DEF FulfillEffect, CanFulfill
<1>12. TypeOK'
  BY <1>1, <1>3, <1>7, <1>8, <1>10 DEF TypeOK, IInv
<1>13. \A i \in DOMAIN frames' : FrameInv(frames[i])'
  <2> SUFFICES ASSUME NEW i \in 1..n PROVE FrameInv(frames[i])'
    BY <1>10
  <2>1. CASE i = n
    BY <2>1, <1>3, <1>5, <1>9, <1>10, <1>11 DEF FrameInv
  <2>2. CASE i \in 1..(n - 1)
    BY <2>2, <1>3, <1>10 DEF FrameInv, IInv
  <2>. QED BY <2>1, <2>2, <1>10
<1>14. GuardInv'
  <2>1. \A i \in 1..(n - 1) : frames[i].id # id
    BY <1>10, <1>11 DEF IInv, GuardInv
  <2>2. \A j \in Ids :
          u.Fulfilling[j] <=> \E i \in 1..n : frames'[i].id = j
    <3> SUFFICES ASSUME NEW j \in Ids
                 PROVE  u.Fulfilling[j] <=> \E i \in 1..n : frames'[i].id = j
      OBVIOUS
    <3>1. ledger.Fulfilling[j] <=> \E i \in 1..(n - 1) : frames[i].id = j
      BY <1>10 DEF IInv, GuardInv
    <3>2. CASE j = id
      <4>1. u.Fulfilling[j]
        BY <1>1, <1>11, <3>2 DEF LedgerType
      <4>2. frames'[n].id = j /\ n \in 1..n
        BY <1>10, <3>2
      <4>. QED BY <4>1, <4>2
    <3>3. CASE j # id
      <4>1. u.Fulfilling[j] <=> ledger.Fulfilling[j]
        BY <1>1, <1>11, <3>3 DEF LedgerType
      <4>2. frames'[n].id # j
        BY <1>10, <3>3
      <4>3. (\E i \in 1..n : frames'[i].id = j)
              <=> (\E i \in 1..(n - 1) : frames[i].id = j)
        BY <1>10, <4>2
      <4>. QED BY <3>1, <4>1, <4>3
    <3>. QED BY <3>2, <3>3
  <2>3. \A k \in 1..n : \A j \in Ids :
          frames'[k].savepoint.Fulfilling[j] <=> \E i \in 1..k : frames'[i].id = j
    <3> SUFFICES ASSUME NEW k \in 1..n, NEW j \in Ids
                 PROVE  frames'[k].savepoint.Fulfilling[j]
                          <=> \E i \in 1..k : frames'[i].id = j
      OBVIOUS
    <3>1. CASE k = n
      BY <3>1, <2>2, <1>10
    <3>2. CASE k \in 1..(n - 1)
      <4>1. \A i \in 1..k : frames'[i] = frames[i]
        BY <3>2, <1>10
      <4>2. frames[k].savepoint.Fulfilling[j] <=> \E i \in 1..k : frames[i].id = j
        BY <3>2, <1>10 DEF IInv, GuardInv
      <4>3. frames'[k] = frames[k]
        BY <3>2, <1>10
      <4>. QED BY <4>1, <4>2, <4>3
    <3>. QED BY <3>1, <3>2, <1>10
  <2>4. \A i, j \in 1..n : frames'[i].id = frames'[j].id => i = j
    <3>1. \A i, j \in 1..(n - 1) : frames[i].id = frames[j].id => i = j
      BY <1>10 DEF IInv, GuardInv
    <3>2. ASSUME NEW i \in 1..n, NEW j \in 1..n, frames'[i].id = frames'[j].id
          PROVE  i = j
      <4>1. CASE i = n /\ j = n
        BY <4>1
      <4>2. CASE i = n /\ j \in 1..(n - 1)
        BY <4>2, <3>2, <2>1, <1>10
      <4>3. CASE i \in 1..(n - 1) /\ j = n
        BY <4>3, <3>2, <2>1, <1>10
      <4>4. CASE i \in 1..(n - 1) /\ j \in 1..(n - 1)
        BY <4>4, <3>1, <3>2, <1>10
      <4>. QED BY <4>1, <4>2, <4>3, <4>4, <1>10
    <3>. QED BY <3>2
  <2>5. \A j \in Ids : ~committed'.Fulfilling[j]
    BY <1>3 DEF IInv, GuardInv
  <2>6. \A j \in Ids :
          ledger'.Fulfilling[j] <=> \E i \in DOMAIN frames' : frames'[i].id = j
    BY <1>7, <1>10, <2>2
  <2>7. \A k \in DOMAIN frames' : \A j \in Ids :
          frames'[k].savepoint.Fulfilling[j] <=> \E i \in 1..k : frames'[i].id = j
    BY <1>10, <2>3
  <2>8. \A i, j \in DOMAIN frames' : frames'[i].id = frames'[j].id => i = j
    BY <1>10, <2>4
  <2>. QED BY <2>5, <2>6, <2>7, <2>8 DEF GuardInv
<1>15. LedgerInv(ledger)' /\ LedgerInv(committed)' /\ Evolves(committed, ledger)'
  BY <1>3, <1>5, <1>7, <1>9 DEF IInv
<1>. QED
  BY <1>1, <1>3, <1>10, <1>12, <1>13, <1>14, <1>15, EvolvesReflexive DEF IInv

(* fulfill() resumes after its callback: the innermost frame is popped.    *)
LEMMA ResumePreserves ==
  ASSUME IInv, frames # <<>>, NEW s, LedgerInv(s), Evolves(committed, s),
         \A j \in Ids : s.Fulfilling[j] <=>
           \E i \in DOMAIN frames : frames[i].id = j,
         ResumeOn(s)
  PROVE  IInv' /\ Evolves(committed, committed')
<1> DEFINE n   == Len(frames)
           top == frames[n]
           t   == ClearFulfilling(s, top.id)
<1>1. /\ committed \in LedgerType /\ s \in LedgerType /\ now \in 0..MaxTime
      /\ frames \in Seq([id : Ids, savepoint : LedgerType])
  BY DEF IInv, LedgerInv, TypeOK
<1>2. /\ n \in Nat \ {0} /\ DOMAIN frames = 1..n
      /\ \A i \in 1..n : frames[i] \in [id : Ids, savepoint : LedgerType]
      /\ top.id \in Ids
  <2>1. n \in Nat \ {0}
    BY <1>1, EmptySeq
  <2>2. \A i \in 1..n : frames[i] \in [id : Ids, savepoint : LedgerType]
    BY <1>1, ElementOfSeq
  <2>3. n \in 1..n
    BY <2>1
  <2>. QED BY <1>1, <2>1, <2>2, <2>3
<1>3. /\ ledger' = t /\ frames' = SubSeq(frames, 1, n - 1) /\ now' = now
      /\ committed' = IF n = 1 THEN t ELSE committed
  BY DEF ResumeOn
<1>4. /\ DOMAIN frames' = 1..(n - 1)
      /\ \A i \in 1..(n - 1) : frames'[i] = frames[i]
      /\ frames' \in Seq([id : Ids, savepoint : LedgerType])
      /\ frames' = <<>> <=> n = 1
  BY <1>1, <1>2, <1>3
<1>5. LedgerInv(t) /\ Evolves(s, t)
  BY <1>2, ClearInv
<1>6. ClearEffect(s, t, top.id)
  BY <1>1, <1>2, ClearFields
<1> HIDE DEF t
<1>7. t \in LedgerType
  BY <1>5 DEF LedgerInv
<1>8. Evolves(committed, t)
  BY <1>1, <1>5, <1>7, EvolvesTransitive
<1>9. /\ committed' \in LedgerType /\ LedgerInv(committed')
      /\ Evolves(committed', t) /\ Evolves(committed, committed')
  BY <1>1, <1>3, <1>5, <1>7, <1>8, EvolvesReflexive DEF IInv
<1>10. TypeOK'
  BY <1>1, <1>3, <1>4, <1>7, <1>9 DEF TypeOK
<1>11. \A i \in DOMAIN frames' : FrameInv(frames[i])'
  <2> SUFFICES ASSUME NEW i \in 1..(n - 1) PROVE FrameInv(frames[i])'
    BY <1>4
  <2>1. n # 1 /\ i \in DOMAIN frames
    BY <1>2
  <2>2. committed' = committed /\ frames'[i] = frames[i]
    BY <1>3, <1>4, <2>1
  <2>. QED BY <2>1, <2>2 DEF IInv, FrameInv
<1>12. GuardInv'
  <2>1. /\ \A i, j \in 1..n : frames[i].id = frames[j].id => i = j
        /\ \A k \in 1..n : \A j \in Ids :
             frames[k].savepoint.Fulfilling[j] <=> \E i \in 1..k : frames[i].id = j
        /\ \A j \in Ids : ~committed.Fulfilling[j]
    BY <1>2 DEF IInv, GuardInv
  <2>2. \A i \in 1..(n - 1) : frames[i].id # top.id
    BY <1>2, <2>1
  <2>3. \A j \in Ids : t.Fulfilling[j] <=> \E i \in 1..(n - 1) : frames'[i].id = j
    <3> SUFFICES ASSUME NEW j \in Ids
                 PROVE  t.Fulfilling[j] <=> \E i \in 1..(n - 1) : frames'[i].id = j
      OBVIOUS
    <3>1. s.Fulfilling[j] <=> \E i \in 1..n : frames[i].id = j
      BY <1>2
    <3>2. CASE j = top.id
      <4>1. ~t.Fulfilling[j]
        BY <1>1, <1>6, <3>2 DEF ClearEffect, LedgerType
      <4>. QED BY <4>1, <1>4, <2>2, <3>2
    <3>3. CASE j # top.id
      <4>1. t.Fulfilling[j] <=> s.Fulfilling[j]
        BY <1>1, <1>2, <1>6, <3>3 DEF ClearEffect, LedgerType
      <4>2. (\E i \in 1..n : frames[i].id = j)
              <=> (\E i \in 1..(n - 1) : frames'[i].id = j)
        <5>1. ASSUME NEW i \in 1..n, frames[i].id = j
              PROVE  i \in 1..(n - 1) /\ frames'[i].id = j
          BY <1>2, <1>4, <3>3, <5>1
        <5>2. ASSUME NEW i \in 1..(n - 1), frames'[i].id = j
              PROVE  i \in 1..n /\ frames[i].id = j
          BY <1>2, <1>4, <5>2
        <5>. QED BY <5>1, <5>2
      <4>. QED BY <3>1, <4>1, <4>2
    <3>. QED BY <3>2, <3>3
  <2>4. \A k \in 1..(n - 1) : \A j \in Ids :
          frames'[k].savepoint.Fulfilling[j] <=> \E i \in 1..k : frames'[i].id = j
    <3> SUFFICES ASSUME NEW k \in 1..(n - 1), NEW j \in Ids
                 PROVE  frames'[k].savepoint.Fulfilling[j]
                          <=> \E i \in 1..k : frames'[i].id = j
      OBVIOUS
    <3>1. k \in 1..n /\ frames'[k] = frames[k] /\ 1..k \subseteq 1..(n - 1)
      BY <1>2, <1>4
    <3>2. frames[k].savepoint.Fulfilling[j] <=> \E i \in 1..k : frames[i].id = j
      BY <2>1, <3>1
    <3>3. \A i \in 1..k : frames'[i].id = frames[i].id
      BY <1>4, <3>1
    <3>. QED BY <3>1, <3>2, <3>3, Zenon
  <2>5. \A i, j \in 1..(n - 1) : frames'[i].id = frames'[j].id => i = j
    <3>1. 1..(n - 1) \subseteq 1..n
      BY <1>2
    <3>2. \A i \in 1..(n - 1) : frames'[i].id = frames[i].id
      BY <1>4
    <3>. QED BY <2>1, <3>1, <3>2, Zenon
  <2>6. \A j \in Ids : ~committed'.Fulfilling[j]
    <3>1. CASE n = 1
      BY <1>3, <2>3, <3>1
    <3>2. CASE n # 1
      BY <1>3, <2>1, <3>2
    <3>. QED BY <3>1, <3>2
  <2>7. \A j \in Ids :
          ledger'.Fulfilling[j] <=> \E i \in DOMAIN frames' : frames'[i].id = j
    <3>1. ledger' = t /\ DOMAIN frames' = 1..(n - 1)
      BY <1>3, <1>4
    <3> HIDE DEF n
    <3>. QED BY <2>3, <3>1, Zenon
  <2>8. \A k \in DOMAIN frames' : \A j \in Ids :
          frames'[k].savepoint.Fulfilling[j] <=> \E i \in 1..k : frames'[i].id = j
    BY <1>4, <2>4
  <2>9. \A i, j \in DOMAIN frames' : frames'[i].id = frames'[j].id => i = j
    BY <1>4, <2>5
  <2>. QED BY <2>6, <2>7, <2>8, <2>9 DEF GuardInv
<1>. QED
  BY <1>3, <1>4, <1>5, <1>9, <1>10, <1>11, <1>12 DEF IInv

LEMMA CallbackEndPreserves ==
  ASSUME IInv, CallbackReturns \/ CallbackFails \/ BudgetExhausted
  PROVE  IInv' /\ Evolves(committed, committed')
<1>1. CASE CallbackReturns
  BY <1>1, ResumePreserves DEF CallbackReturns, IInv, GuardInv
<1>2. CASE CallbackFails
  <2> DEFINE n == Len(frames)
             s == frames[n].savepoint
  <2>1. frames # <<>> /\ ResumeOn(s)
    BY <1>2 DEF CallbackFails
  <2>2. DOMAIN frames = 1..n /\ n \in DOMAIN frames
    <3>1. frames \in Seq([id : Ids, savepoint : LedgerType])
      BY DEF IInv, TypeOK
    <3>2. n \in Nat \ {0}
      BY <2>1, <3>1, EmptySeq
    <3>. QED BY <3>1, <3>2
  <2>3. LedgerInv(s) /\ Evolves(committed, s)
    BY <2>2 DEF IInv, FrameInv
  <2>4. \A j \in Ids : s.Fulfilling[j] <=>
          \E i \in DOMAIN frames : frames[i].id = j
    BY <2>2 DEF IInv, GuardInv
  <2> HIDE DEF s
  <2>. QED BY <2>1, <2>3, <2>4, ResumePreserves
<1>3. CASE BudgetExhausted
  <2>1. /\ ledger' = committed /\ committed' = committed
        /\ frames' = <<>> /\ now' = now
    BY <1>3 DEF BudgetExhausted
  <2>2. committed \in LedgerType
    BY DEF IInv, LedgerInv
  <2>3. TypeOK'
    BY <2>1, <2>2 DEF IInv, TypeOK
  <2>4. GuardInv'
    BY <2>1 DEF IInv, GuardInv
  <2>. QED
    BY <2>1, <2>2, <2>3, <2>4, EvolvesReflexive DEF IInv
<1>. QED
  BY <1>1, <1>2, <1>3

LEMMA NextPreserves ==
  ASSUME IInv, [Next]_vars
  PROVE  IInv' /\ Evolves(committed, committed')
<1>1. CASE Tick
  <2>1. /\ ledger' = ledger /\ committed' = committed /\ frames' = frames
        /\ now' \in 0..MaxTime
    BY <1>1, Environment DEF Tick, IInv, TypeOK
  <2>2. committed \in LedgerType
    BY DEF IInv, LedgerInv
  <2>. QED
    BY <2>1, <2>2, EvolvesReflexive DEF IInv, TypeOK, FrameInv, GuardInv
<1>2. CASE UNCHANGED vars
  <2>1. /\ ledger' = ledger /\ committed' = committed /\ frames' = frames
        /\ now' = now
    BY <1>2 DEF vars
  <2>2. committed \in LedgerType
    BY DEF IInv, LedgerInv
  <2>. QED
    BY <2>1, <2>2, EvolvesReflexive DEF IInv, TypeOK, FrameInv, GuardInv
<1>3. CASE Next /\ ~Tick
  BY <1>3, EntryPointsPreserve, RequestPreserves, RotationsPreserve,
     TokenTransferPreserves, CallPreserves, CallbackEndPreserves DEF Next
<1>. QED
  BY <1>1, <1>2, <1>3

LEMMA Inductive == Spec => []IInv
<1>1. IInv /\ [Next]_vars => IInv'
  BY NextPreserves
<1>. QED
  BY InitIInv, <1>1, PTL DEF Spec

(* On every such ledger the escrow is exactly the fees of the pending      *)
(* requests, outcomes are exclusive, pending requests are fulfillable,     *)
(* outputs belong to their request, and the two keys differ.               *)
LEMMA LedgersInv ==
  ASSUME IInv, NEW s \in Ledgers
  PROVE  LedgerInv(s)
  BY DEF IInv, Ledgers, FrameInv

-----------------------------------------------------------------------------
(* The clock.  Timely adds to the ledger invariant what the timestamp of a *)
(* ledger has to have reached for each outcome found on it.                *)

Timely(s, t) == \A id \in Ids :
  /\ s.Requester[id] # None =>
       s.RequestRound[id] = RequiredRound(s.MadeAt[id])
  /\ s.Refunded[id] => BeaconPublished(s.RequestRound[id] + TimeoutRounds + 1, t)
  /\ (s.Fulfilled[id] /\ s.Beta[id].gamma.alpha.sig.key \in BeaconKeys)
       => BeaconPublished(s.RequestRound[id], t)

TimelyInv == \A s \in Ledgers : Timely(s, now)

(* Whole periods: the part of n that a division by p leaves out is less    *)
(* than p.                                                                 *)
LEMMA Division ==
  ASSUME NEW n \in Nat, NEW p \in Nat \ {0}
  PROVE  /\ n \div p \in Nat
         /\ p * (n \div p) <= n
         /\ n < p * (n \div p) + p
  OBVIOUS

LEMMA ProductMonotone ==
  ASSUME NEW p \in Nat, NEW a \in Int, NEW b \in Int, a <= b
  PROVE  p * a <= p * b
<1>1. (b - a) \in Nat /\ p * (b - a) >= 0
  OBVIOUS
<1>2. p * (b - a) = p * b - p * a
  OBVIOUS
<1>. QED
  BY <1>1, <1>2

(* A round that current_round() has reached has its beacon out. *)
LEMMA ReachedIsPublished ==
  ASSUME NEW t \in Nat, NEW r \in Nat \ {0}, CurrentRound(t) >= r
  PROVE  BeaconPublished(r, t)
<1> DEFINE n == t - DrandGenesis
           d == n \div DrandPeriod
<1>1. DrandPeriod \in Nat \ {0} /\ DrandGenesis \in Nat
  BY ConstructorAccepts, Environment
<1>2. t >= DrandGenesis
  BY <1>1 DEF CurrentRound
<1>3. n \in Nat
  BY <1>1, <1>2
<1>4. d \in Nat /\ DrandPeriod * d <= n
  BY <1>1, <1>3, Division
<1>5. CurrentRound(t) = d + 1
  BY <1>1, <1>2 DEF CurrentRound
<1> HIDE DEF d
<1>6. DrandPeriod * (r - 1) <= DrandPeriod * d
  BY <1>1, <1>4, <1>5, ProductMonotone
<1>7. (r - 1) * DrandPeriod = DrandPeriod * (r - 1)
  BY <1>1
<1>8. (r - 1) * DrandPeriod \in Int /\ DrandPeriod * d \in Int
  BY <1>1, <1>4
<1>9. (r - 1) * DrandPeriod <= t - DrandGenesis
  BY <1>1, <1>3, <1>4, <1>6, <1>7, <1>8
<1>. QED
  BY <1>1, <1>8, <1>9 DEF BeaconPublished

(* The beacon of the round a request at time m is bound to comes later     *)
(* than (offset - 1) periods after m.                                      *)
LEMMA RequiredRoundIsAhead ==
  ASSUME NEW t \in Nat, NEW m \in Nat, BeaconPublished(RequiredRound(m), t)
  PROVE  t > m + (RoundOffset - 1) * DrandPeriod
<1> DEFINE n == m - DrandGenesis
           d == n \div DrandPeriod
           e == (RoundOffset - 1) * DrandPeriod
<1>1. /\ DrandPeriod \in Nat \ {0} /\ DrandGenesis \in Nat
      /\ RoundOffset \in Nat /\ RoundOffset >= 2
  BY ConstructorAccepts, Environment
<1>2. e \in Int
  BY <1>1
<1>3. CASE m < DrandGenesis
  <2>1. RequiredRound(m) = RoundOffset
    BY <1>1, <1>3 DEF RequiredRound, CurrentRound
  <2>2. t >= DrandGenesis + e
    BY <2>1 DEF BeaconPublished
  <2> HIDE DEF e
  <2>. QED BY <1>1, <1>2, <1>3, <2>2 DEF e
<1>4. CASE m >= DrandGenesis
  <2>1. n \in Nat
    BY <1>1, <1>4
  <2>2. d \in Nat /\ n < DrandPeriod * d + DrandPeriod
    BY <1>1, <2>1, Division
  <2>3. RequiredRound(m) = d + 1 + RoundOffset
    BY <1>1, <1>4 DEF RequiredRound, CurrentRound
  <2> HIDE DEF d
  <2>4. t >= DrandGenesis + (RequiredRound(m) - 1) * DrandPeriod
    BY DEF BeaconPublished
  <2>5. (RequiredRound(m) - 1) * DrandPeriod
          = DrandPeriod * d + DrandPeriod + e
    BY <1>1, <2>2, <2>3
  <2>6. DrandPeriod * d \in Int
    BY <1>1, <2>2
  <2> HIDE DEF e
  <2>7. t > m + e
    BY <1>1, <1>2, <2>2, <2>4, <2>5, <2>6
  <2>. QED BY <2>7 DEF e
<1>. QED
  BY <1>1, <1>3, <1>4

(* What is out stays out. *)
LEMMA TimelyMonotone ==
  ASSUME NEW s \in LedgerType, NEW t \in Nat, NEW v \in Nat, t <= v,
         Timely(s, t)
  PROVE  Timely(s, v)
<1>1. ASSUME NEW r \in Nat, BeaconPublished(r, t)
      PROVE  BeaconPublished(r, v)
  <2>1. DrandGenesis + (r - 1) * DrandPeriod \in Int
    BY ConstructorAccepts, Environment
  <2>. QED BY <1>1, <2>1 DEF BeaconPublished
<1>2. ASSUME NEW id \in Ids
      PROVE  /\ s.RequestRound[id] \in Nat
             /\ s.RequestRound[id] + TimeoutRounds + 1 \in Nat
  BY Environment DEF LedgerType
<1>. QED
  BY <1>1, <1>2 DEF Timely

(* A call that leaves the requests alone stays timely. *)
LEMMA SameRequestsTimely ==
  ASSUME NEW s, NEW u, NEW t, Timely(s, t),
         u.Requester = s.Requester, u.RequestRound = s.RequestRound,
         u.MadeAt = s.MadeAt, u.Fulfilled = s.Fulfilled,
         u.Refunded = s.Refunded, u.Beta = s.Beta
  PROVE  Timely(u, t)
  BY DEF Timely

LEMMA RequestTimely ==
  ASSUME NEW s, NEW a \in Addresses, NEW c \in Contexts, NEW cb \in BOOLEAN,
         NEW t \in Nat, LedgerInv(s), Timely(s, t), CanRequest(s, a, c)
  PROVE  Timely(AfterRequest(s, a, c, cb, t), t)
<1> DEFINE u   == AfterRequest(s, a, c, cb, t)
           new == s.Counter + 1
<1>1. s \in LedgerType
  BY DEF LedgerInv
<1>2. RequestEffect(s, u, a, c, t)
  BY <1>1, RequestFields
<1> HIDE DEF u
<1>3. \A id \in Ids \ {new} :
        /\ u.Requester[id] = s.Requester[id]
        /\ u.RequestRound[id] = s.RequestRound[id]
        /\ u.MadeAt[id] = s.MadeAt[id]
        /\ u.Fulfilled[id] = s.Fulfilled[id]
        /\ u.Refunded[id] = s.Refunded[id]
        /\ u.Beta[id] = s.Beta[id]
  BY <1>1, <1>2 DEF RequestEffect, LedgerType
<1>4. /\ u.RequestRound[new] = RequiredRound(t) /\ u.MadeAt[new] = t
      /\ ~u.Fulfilled[new] /\ ~u.Refunded[new]
  BY <1>1, <1>2 DEF RequestEffect, LedgerType
<1> HIDE DEF new
<1>5. ASSUME NEW id \in Ids
      PROVE  /\ u.Requester[id] # None =>
                  u.RequestRound[id] = RequiredRound(u.MadeAt[id])
             /\ u.Refunded[id] =>
                  BeaconPublished(u.RequestRound[id] + TimeoutRounds + 1, t)
             /\ (u.Fulfilled[id] /\ u.Beta[id].gamma.alpha.sig.key \in BeaconKeys)
                  => BeaconPublished(u.RequestRound[id], t)
  <2>1. CASE id = new
    BY <2>1, <1>4
  <2>2. CASE id # new
    BY <2>2, <1>3 DEF Timely
  <2>. QED BY <2>1, <2>2
<1>. QED
  BY <1>5 DEF Timely, u

LEMMA RefundTimely ==
  ASSUME NEW s, NEW a, NEW id \in Ids, NEW t \in Nat, LedgerInv(s),
         Timely(s, t), CanRefund(s, a, id, t)
  PROVE  Timely(AfterRefund(s, id), t)
<1> DEFINE u == AfterRefund(s, id)
<1>1. s \in LedgerType
  BY DEF LedgerInv
<1>2. RefundEffect(s, u, id)
  BY <1>1, RefundFields
<1> HIDE DEF u
<1>3. BeaconPublished(s.RequestRound[id] + TimeoutRounds + 1, t)
  <2>1. s.RequestRound[id] \in Nat /\ TimeoutRounds \in Nat
    BY <1>1, Environment DEF LedgerType
  <2>2. s.RequestRound[id] + TimeoutRounds + 1 \in Nat \ {0}
    BY <2>1
  <2>3. CurrentRound(t) > s.RequestRound[id] + TimeoutRounds
    BY DEF CanRefund
  <2>4. CurrentRound(t) >= s.RequestRound[id] + TimeoutRounds + 1
    BY <2>1, <2>3, RoundTyped
  <2>. QED BY <2>2, <2>4, ReachedIsPublished
<1>4. \A j \in Ids \ {id} : u.Refunded[j] = s.Refunded[j]
  BY <1>1, <1>2 DEF RefundEffect, LedgerType
<1>. QED
  BY <1>2, <1>3, <1>4 DEF Timely, RefundEffect, u

(* A proof that carries drand's own signature was built after the beacon.  *)
LEMMA FulfillTimely ==
  ASSUME NEW s, NEW a, NEW id \in Ids, NEW t \in Nat, NEW p \in ProofsAt(t),
         NEW signer, LedgerInv(s), Timely(s, t), CanFulfill(s, a, id),
         AcceptsProof(s, id, p, signer)
  PROVE  Timely(AfterFulfill(s, id, p), t)
<1> DEFINE u == AfterFulfill(s, id, p)
<1>1. s \in LedgerType /\ p \in ProofType
  BY ProofTyped DEF LedgerInv
<1>2. FulfillEffect(s, u, id, p)
  BY <1>1, FulfillFields
<1> HIDE DEF u
<1>3. /\ p.drand_signature = DrandSig(s.DrandPK, p.drand_round)
      /\ p.drand_round = s.RequestRound[id]
      /\ p.beta_output.gamma.alpha.sig = p.drand_signature
  BY DEF AcceptsProof, BetaOutput, GammaPoint, AlphaSeed
<1>4. p.beta_output.gamma.alpha.sig.key \in BeaconKeys
        => BeaconPublished(s.RequestRound[id], t)
  <2>1. PICK pk \in G2Keys, i \in Ids, c \in Contexts, kr \in SigsAt(t) :
          p = MakeProof(pk, kr[1], kr[2], i, c)
    BY DEF ProofsAt
  <2>2. p.drand_round = kr[2] /\ p.drand_signature = DrandSig(kr[1], kr[2])
    BY <2>1 DEF MakeProof
  <2>3. p.drand_signature.key = kr[1]
    BY <2>2 DEF DrandSig
  <2>4. kr[1] \in BeaconKeys => BeaconPublished(kr[2], t)
    BY DEF SigsAt
  <2>. QED BY <1>3, <2>2, <2>3, <2>4
<1>5. /\ u.Beta[id] = p.beta_output
      /\ \A j \in Ids \ {id} : /\ u.Fulfilled[j] = s.Fulfilled[j]
                               /\ u.Beta[j] = s.Beta[j]
  BY <1>1, <1>2 DEF FulfillEffect, LedgerType
<1>. QED
  BY <1>2, <1>4, <1>5 DEF Timely, FulfillEffect, u

LEMMA ClearTimely ==
  ASSUME NEW s \in LedgerType, NEW id \in Ids, NEW t, Timely(s, t)
  PROVE  Timely(ClearFulfilling(s, id), t)
<1>1. ClearEffect(s, ClearFulfilling(s, id), id)
  BY ClearFields
<1>. QED
  BY <1>1, SameRequestsTimely DEF ClearEffect

(* A call that runs to its end on a timely ledger keeps all of them timely. *)
LEMMA RunTimely ==
  ASSUME TimelyInv, NEW s, Timely(s, now), Run(s)
  PROVE  TimelyInv'
<1>1. /\ ledger' = s /\ frames' = frames /\ now' = now
      /\ committed' \in {s, committed}
  BY DEF Run
<1>2. Ledgers' \subseteq Ledgers \cup {s}
  BY <1>1 DEF Ledgers
<1>. QED
  BY <1>1, <1>2 DEF TimelyInv

LEMMA TimelyPreserved ==
  ASSUME IInv, TimelyInv, [Next]_vars
  PROVE  TimelyInv'
<1>1. /\ ledger \in LedgerType /\ LedgerInv(ledger) /\ now \in Nat
      /\ Timely(ledger, now)
  BY DEF IInv, LedgerInv, TypeOK, TimelyInv, Ledgers
<1>2. ASSUME NEW a \in Addresses, NEW c \in Contexts,
             Request(a, c) \/ RequestWithCallback(a, c)
      PROVE  TimelyInv'
  <2>1. PICK cb \in BOOLEAN : /\ CanRequest(ledger, a, c)
                              /\ Run(AfterRequest(ledger, a, c, cb, now))
    BY <1>2 DEF Request, RequestWithCallback
  <2>. QED BY <1>1, <2>1, RequestTimely, RunTimely
<1>3. ASSUME NEW a \in Addresses, NEW id \in Ids, TimeoutRefund(a, id)
      PROVE  TimelyInv'
  BY <1>1, <1>3, RefundTimely, RunTimely DEF TimeoutRefund
<1>4. ASSUME NEW a \in Addresses, NEW id \in Ids, CleanupProof(a, id)
      PROVE  TimelyInv'
  <2>1. CleanupEffect(ledger, AfterCleanup(ledger, id), id)
    BY <1>1, CleanupFields
  <2>2. Timely(AfterCleanup(ledger, id), now)
    BY <1>1, <2>1, SameRequestsTimely DEF CleanupEffect
  <2>. QED BY <1>4, <2>2, RunTimely DEF CleanupProof
<1>5. ASSUME NEW a \in Addresses, NEW id \in Ids, Fulfill(a, id)
      PROVE  TimelyInv'
  <2>1. PICK p \in ProofsAt(now), signer \in Ed25519Keys :
          /\ AcceptsProof(ledger, id, p, signer)
          /\ Run(ClearFulfilling(AfterFulfill(ledger, id, p), id))
    BY <1>5 DEF Fulfill
  <2>2. CanFulfill(ledger, a, id)
    BY <1>5 DEF Fulfill
  <2>3. Timely(AfterFulfill(ledger, id, p), now)
    BY <1>1, <2>1, <2>2, FulfillTimely
  <2>4. AfterFulfill(ledger, id, p) \in LedgerType
    BY <1>1, <2>2, ProofTyped, FulfillFields DEF FulfillEffect
  <2>. QED BY <2>1, <2>3, <2>4, ClearTimely, RunTimely
<1>6. ASSUME NEW a \in Addresses, NEW id \in Ids,
             FulfillInvokesCallback(a, id)
      PROVE  TimelyInv'
  <2>1. PICK p \in ProofsAt(now), signer \in Ed25519Keys :
          /\ AcceptsProof(ledger, id, p, signer)
          /\ ledger' = AfterFulfill(ledger, id, p)
          /\ frames' = Append(frames, [id |-> id,
                                       savepoint |-> AfterFulfill(ledger, id, p)])
    BY <1>6 DEF FulfillInvokesCallback
  <2>2. CanFulfill(ledger, a, id) /\ committed' = committed /\ now' = now
    BY <1>6 DEF FulfillInvokesCallback
  <2> DEFINE u == AfterFulfill(ledger, id, p)
             f == [id |-> id, savepoint |-> u]
  <2>3. Timely(u, now)
    BY <1>1, <2>1, <2>2, FulfillTimely
  <2>4. ledger' = u /\ frames' = Append(frames, f) /\ f.savepoint = u
    BY <2>1
  <2> HIDE DEF u, f
  <2>5. ASSUME NEW i \in DOMAIN frames'
        PROVE  frames'[i].savepoint \in Ledgers \cup {u}
    <3>1. frames \in Seq([id : Ids, savepoint : LedgerType])
      BY DEF IInv, TypeOK
    <3>2. CASE i \in DOMAIN frames
      <4>1. frames'[i] = frames[i]
        BY <2>4, <3>1, <3>2
      <4>. QED BY <3>2, <4>1 DEF Ledgers
    <3>3. CASE i \notin DOMAIN frames
      <4>1. frames'[i] = f
        BY <2>4, <3>1, <3>3
      <4>. QED BY <2>4, <4>1
    <3>. QED BY <3>2, <3>3
  <2>6. Ledgers' \subseteq Ledgers \cup {u}
    BY <2>2, <2>4, <2>5 DEF Ledgers
  <2>. QED BY <2>2, <2>3, <2>6 DEF TimelyInv
<1>7. ASSUME NEW auth, NEW pk \in G2Keys, NEW addr \in Addresses,
             NEW ed \in Ed25519Keys, RotateOracleKeys(auth, pk, addr, ed)
      PROVE  TimelyInv'
  <2>1. Timely(AfterRotateOracle(ledger, pk, addr, ed), now)
    BY <1>1, RotateOracleFields, SameRequestsTimely DEF SameRequests
  <2>. QED BY <1>7, <2>1, RunTimely DEF RotateOracleKeys
<1>8. ASSUME NEW a \in Addresses, NEW key \in G2Keys, RotateDrandPk(a, key)
      PROVE  TimelyInv'
  <2>1. Timely(AfterRotateDrand(ledger, key), now)
    BY <1>1, RotateDrandFields, SameRequestsTimely DEF SameRequests
  <2>. QED BY <1>8, <2>1, RunTimely DEF RotateDrandPk
<1>9. ASSUME NEW from \in Addresses, NEW to \in Accounts,
             TokenTransfer(from, to)
      PROVE  TimelyInv'
  <2>1. /\ from # to /\ CanTransfer(ledger, from, 1)
        /\ Run(AfterTransfer(ledger, from, to))
    BY <1>9 DEF TokenTransfer, AfterTransfer
  <2>2. Timely(AfterTransfer(ledger, from, to), now)
    BY <1>1, <2>1, TransferFields, SameRequestsTimely DEF SameRequests
  <2>. QED BY <2>1, <2>2, RunTimely
<1>10. ASSUME NEW s \in Ledgers, frames # <<>>, ResumeOn(s)
       PROVE  TimelyInv'
  <2> DEFINE n == Len(frames)
             t == ClearFulfilling(s, frames[n].id)
  <2>1. /\ frames \in Seq([id : Ids, savepoint : LedgerType])
        /\ n \in Nat \ {0} /\ DOMAIN frames = 1..n
    <3>1. frames \in Seq([id : Ids, savepoint : LedgerType])
      BY DEF IInv, TypeOK
    <3>2. n \in Nat \ {0}
      BY <1>10, <3>1, EmptySeq
    <3>. QED BY <3>1, <3>2
  <2>2. frames[n].id \in Ids
    <3>1. n \in 1..n
      BY <2>1
    <3>2. frames[n] \in [id : Ids, savepoint : LedgerType]
      BY <2>1, <3>1, ElementOfSeq
    <3>. QED BY <3>2
  <2>3. Timely(t, now)
    <3>1. s \in LedgerType
      BY LedgersInv DEF LedgerInv
    <3>. QED BY <2>2, <3>1, ClearTimely DEF TimelyInv
  <2>4. /\ ledger' = t /\ frames' = SubSeq(frames, 1, n - 1) /\ now' = now
        /\ committed' \in {t, committed}
    BY <1>10 DEF ResumeOn
  <2> HIDE DEF t
  <2>5. ASSUME NEW i \in DOMAIN frames'
        PROVE  frames'[i].savepoint \in Ledgers
    <3>1. i \in DOMAIN frames /\ frames'[i] = frames[i]
      BY <2>1, <2>4
    <3>. QED BY <3>1 DEF Ledgers
  <2>6. Ledgers' \subseteq Ledgers \cup {t}
    BY <2>4, <2>5 DEF Ledgers
  <2>. QED BY <2>3, <2>4, <2>6 DEF TimelyInv
<1>11. CASE CallbackReturns
  BY <1>10, <1>11 DEF CallbackReturns, Ledgers
<1>12. CASE CallbackFails
  <2>1. frames # <<>> /\ ResumeOn(frames[Len(frames)].savepoint)
    BY <1>12 DEF CallbackFails
  <2>2. Len(frames) \in DOMAIN frames
    <3>1. frames \in Seq([id : Ids, savepoint : LedgerType])
      BY DEF IInv, TypeOK
    <3>2. Len(frames) \in Nat \ {0}
      BY <2>1, <3>1, EmptySeq
    <3>. QED BY <3>1, <3>2
  <2>3. frames[Len(frames)].savepoint \in Ledgers
    BY <2>2 DEF Ledgers
  <2>. QED BY <1>10, <2>1, <2>3
<1>13. CASE BudgetExhausted
  <2>1. /\ ledger' = committed /\ committed' = committed /\ frames' = <<>>
        /\ now' = now
    BY <1>13 DEF BudgetExhausted
  <2>2. Ledgers' \subseteq Ledgers
    BY <2>1 DEF Ledgers
  <2>. QED BY <2>1, <2>2 DEF TimelyInv
<1>14. CASE Tick
  <2>1. /\ Ledgers' = Ledgers /\ now' \in Nat /\ now <= now'
    BY <1>1, <1>14 DEF Tick, Ledgers
  <2>2. ASSUME NEW s \in Ledgers PROVE Timely(s, now')
    BY <1>1, <2>1, LedgersInv, TimelyMonotone DEF LedgerInv, TimelyInv
  <2>. QED BY <2>1, <2>2 DEF TimelyInv
<1>15. CASE UNCHANGED vars
  BY <1>15 DEF vars, TimelyInv, Ledgers
<1>. QED
  BY <1>2, <1>3, <1>4, <1>5, <1>6, <1>7, <1>8, <1>9, <1>11, <1>12, <1>13,
     <1>14, <1>15 DEF Next

LEMMA TimelyInductive == Spec => []TimelyInv
<1>1. Init => TimelyInv
  BY DEF Init, TimelyInv, Ledgers, Timely, EmptyLedger
<1>2. IInv /\ TimelyInv /\ [Next]_vars => TimelyInv'
  BY TimelyPreserved
<1>. QED
  BY <1>1, <1>2, Inductive, PTL DEF Spec

-----------------------------------------------------------------------------
(* The theorems. *)

(* Every storage key always holds a value of its type, in every ledger a   *)
(* transaction can end on.                                                 *)
THEOREM TypeCorrect == Spec => []TypeOK
<1>1. IInv => TypeOK
  BY DEF IInv
<1>. QED
  BY <1>1, Inductive, PTL

(* fulfill() and timeout_refund() pay each fee out once, and can always    *)
(* pay it, whatever callbacks do.                                          *)
THEOREM EscrowAlwaysBacked == Spec => []EscrowBacked
<1>1. IInv => EscrowBacked
  BY LedgersInv DEF EscrowBacked, LedgerInv, Escrow
<1>. QED
  BY <1>1, Inductive, PTL

(* No request is both fulfilled and refunded, and cleanup_proof() keeps    *)
(* the output of every fulfilled one.                                      *)
THEOREM OutcomeUnique == Spec => []OneOutcome
<1>1. IInv => OneOutcome
  BY LedgersInv DEF OneOutcome, LedgerInv, Outcome
<1>. QED
  BY <1>1, Inductive, PTL

(* No call sequence leaves a pending request without the context that      *)
(* fulfill() needs.                                                        *)
THEOREM PendingStaysServiceable == Spec => []PendingIsServiceable
<1>1. IInv => PendingIsServiceable
  BY LedgersInv DEF PendingIsServiceable, LedgerInv, Serviceable
<1>. QED
  BY <1>1, Inductive, PTL

(* An output is the VRF of its own request under usable, distinct keys.    *)
THEOREM OutputsBound == Spec => []OutputBound
<1>1. IInv => OutputBound
  BY LedgersInv DEF OutputBound, LedgerInv, Bound
<1>. QED
  BY <1>1, Inductive, PTL

(* The two key rotations together never make the two keys equal.           *)
THEOREM KeysStaySeparate == Spec => []KeysSeparate
<1>1. IInv => KeysSeparate
  <2> SUFFICES ASSUME IInv, NEW s \in Ledgers PROVE s.OraclePK # s.DrandPK
    BY DEF KeysSeparate
  <2>. QED BY LedgersInv DEF LedgerInv, UsableKeys, UsableKeyPairs
<1>. QED
  BY <1>1, Inductive, PTL

(* The re-entrancy guard key is set exactly during the callback and never  *)
(* leaks into the committed ledger.                                        *)
THEOREM GuardNeverLeaks == Spec => []GuardMatchesCallback
<1>1. IInv => GuardMatchesCallback
  BY DEF IInv, GuardInv, GuardMatchesCallback
<1>. QED
  BY <1>1, Inductive, PTL

(* Committed outcomes, outputs and request data are irrevocable.           *)
THEOREM SettlementsIrrevocable == Spec => SettlementIrrevocable
<1>1. IInv /\ [Next]_vars => [Evolves(committed, committed')]_vars
  BY NextPreserves
<1>. QED
  BY <1>1, Inductive, PTL DEF Spec, SettlementIrrevocable

(* A callback that panics leaves its request fulfilled and paid for.       *)
THEOREM CallbacksCannotVeto == Spec => CallbackCannotVeto
<1> DEFINE Kept ==
      CallbackFails =>
        LET top == frames[Len(frames)]
        IN /\ ledger'.Fulfilled[top.id]
           /\ ledger'.Beta[top.id] # None
           /\ ~ledger'.Fulfilling[top.id]
           /\ ledger'.Balance[ledger'.OracleAddr] >= FeeAmount
<1>1. IInv => Kept
  <2> SUFFICES ASSUME IInv, CallbackFails PROVE Kept
    OBVIOUS
  <2> DEFINE n   == Len(frames)
             top == frames[n]
             s   == top.savepoint
             t   == ClearFulfilling(s, top.id)
  <2>1. n \in DOMAIN frames /\ top.id \in Ids /\ s \in LedgerType
    <3>1. frames # <<>> /\ frames \in Seq([id : Ids, savepoint : LedgerType])
      BY DEF CallbackFails, IInv, TypeOK
    <3>2. n \in Nat \ {0}
      BY <3>1, EmptySeq
    <3>3. n \in 1..n /\ DOMAIN frames = 1..n
      BY <3>1, <3>2
    <3>4. top \in [id : Ids, savepoint : LedgerType]
      BY <3>1, <3>3, ElementOfSeq
    <3>. QED BY <3>3, <3>4
  <2>2. ledger' = t
    BY DEF CallbackFails, ResumeOn
  <2>3. FrameInv(top)
    BY <2>1 DEF IInv
  <2>4. ClearEffect(s, t, top.id)
    BY <2>1, ClearFields
  <2> HIDE DEF t
  <2>5. s.Fulfilled[top.id] /\ s.Beta[top.id] # None
    BY <2>1, <2>3 DEF FrameInv, LedgerInv, Outcome
  <2>6. ~t.Fulfilling[top.id]
    BY <2>1, <2>4 DEF ClearEffect, LedgerType
  <2>7. t.Balance[t.OracleAddr] >= FeeAmount
    BY <2>3, <2>4 DEF ClearEffect, FrameInv
  <2>. QED BY <2>2, <2>4, <2>5, <2>6, <2>7 DEF ClearEffect
<1> HIDE DEF Kept
<1>2. Spec => [][Kept]_vars
  BY <1>1, Inductive, PTL DEF Spec
<1>. QED
  BY <1>2 DEF Kept, CallbackCannotVeto

(* The beacon an output is made from was out of reach when its request was *)
(* committed, for any genesis, period and offset the constructor accepts.  *)
THEOREM LeadTimeHolds == Spec => []LeadTime
<1>1. IInv /\ TimelyInv => LeadTime
  <2> SUFFICES ASSUME IInv, TimelyInv, NEW s \in Ledgers, NEW id \in Ids,
                      s.Fulfilled[id],
                      s.Beta[id].gamma.alpha.sig.key \in BeaconKeys
               PROVE  now > s.MadeAt[id] + (RoundOffset - 1) * DrandPeriod
    BY DEF LeadTime
  <2>1. LedgerInv(s) /\ Timely(s, now)
    BY LedgersInv DEF TimelyInv
  <2>2. s.Requester[id] # None
    BY <2>1 DEF LedgerInv, Allocated
  <2>3. BeaconPublished(RequiredRound(s.MadeAt[id]), now)
    BY <2>1, <2>2 DEF Timely
  <2>4. s.MadeAt[id] \in Nat /\ now \in Nat
    BY <2>1 DEF LedgerInv, LedgerType, IInv, TypeOK
  <2>. QED BY <2>3, <2>4, RequiredRoundIsAhead
<1>. QED
  BY <1>1, Inductive, TimelyInductive, PTL

(* timeout_refund() pays back only after TIMEOUT_ROUNDS + 1 beacons        *)
(* followed the one that fulfill() needed, on every ledger.                *)
THEOREM RefundAlwaysLeavesWindow == Spec => []RefundLeavesWindow
<1>1. TimelyInv => RefundLeavesWindow
  BY DEF TimelyInv, Timely, RefundLeavesWindow
<1>. QED
  BY <1>1, TimelyInductive, PTL
=============================================================================
