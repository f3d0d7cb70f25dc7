------------------------- MODULE VRFService_proofs -------------------------
(* The contract implements VRFService, for every value of the constants,   *)
(* when the host forbids a callback to call the contract again (Soroban    *)
(* does).  A transaction is then a call that runs to its end, or one       *)
(* fulfill() with its callback, and each commits one step of the service   *)
(* or leaves the service as it was.                                        *)
EXTENDS VRFOracle_proofs

-----------------------------------------------------------------------------
(* The service's view of one ledger. *)

StatusOf(s) == [id \in Ids |-> Status(s, id)]

EscrowOf(s) == s.Balance[Self] - s.Donated

Outputs == [id \in Ids |->
  {OutputOf(p[1], p[2], id, c, r) :
     p \in UsableKeyPairs, c \in Contexts, r \in ProofRounds}]

(* What one delivery changes between ledgers c and s. *)
Delivered(c, s, id) ==
  /\ Pending(c, id)
  /\ s.Requester = c.Requester /\ s.Refunded = c.Refunded
  /\ s.Fulfilled = [c.Fulfilled EXCEPT ![id] = TRUE]
  /\ \E out \in Outputs[id] : s.Beta = [c.Beta EXCEPT ![id] = out]

(* With no way back into the contract there is one frame at most, and what *)
(* the running transaction adds to the committed ledger is its delivery.   *)
CallInv ==
  /\ Len(frames) <= 1
  /\ frames # <<>> =>
       /\ Delivered(committed, ledger, frames[1].id)
       /\ Delivered(committed, frames[1].savepoint, frames[1].id)

-----------------------------------------------------------------------------
LEMMA OneFrame ==
  ASSUME IInv, CallInv, frames # <<>>
  PROVE  /\ Len(frames) = 1
         /\ frames[1].id \in Ids /\ frames[1].savepoint \in LedgerType
<1>1. frames \in Seq([id : Ids, savepoint : LedgerType])
  BY DEF IInv, TypeOK
<1>2. Len(frames) \in Nat \ {0}
  BY <1>1, EmptySeq
<1>3. Len(frames) <= 1
  BY DEF CallInv
<1>4. Len(frames) = 1 /\ 1 \in 1..Len(frames)
  <2> DEFINE n == Len(frames)
  <2>1. n \in Nat \ {0} /\ n <= 1
    BY <1>2, <1>3
  <2> HIDE DEF n
  <2>2. n = 1 /\ 1 \in 1..n
    BY <2>1
  <2>. QED BY <2>2 DEF n
<1>5. frames[1] \in [id : Ids, savepoint : LedgerType]
  BY <1>1, <1>4, ElementOfSeq
<1>. QED
  BY <1>4, <1>5

(* The escrow of a ledger is the fees of its pending requests. *)
LEMMA EscrowCounts ==
  ASSUME NEW s, LedgerInv(s)
  PROVE  EscrowOf(s) = FeeAmount * Cardinality(PendingIds(s))
<1>1. s \in LedgerType
  BY DEF LedgerInv
<1>2. s.Donated \in Nat
  BY <1>1 DEF LedgerType
<1>3. FeeAmount * Cardinality(PendingIds(s)) \in Nat
  BY PendingFinite, ConstructorAccepts
<1>4. s.Balance[Self] = s.Donated + FeeAmount * Cardinality(PendingIds(s))
  BY DEF LedgerInv, Escrow
<1>. QED
  BY <1>2, <1>3, <1>4 DEF EscrowOf

(* A request that leaves the pending ones takes its fee along. *)
LEMMA EscrowReleased ==
  ASSUME NEW c, NEW s, NEW id \in Ids, LedgerInv(c), LedgerInv(s),
         Pending(c, id), PendingIds(s) = PendingIds(c) \ {id}
  PROVE  EscrowOf(s) = EscrowOf(c) - FeeAmount
<1>1. id \in PendingIds(c)
  BY DEF PendingIds
<1>2. Cardinality(PendingIds(s)) = Cardinality(PendingIds(c)) - 1
  BY <1>1, PendingFinite, FS_RemoveElement
<1> DEFINE n == Cardinality(PendingIds(c))
<1>3. n \in Nat /\ FeeAmount \in Nat
  BY PendingFinite, ConstructorAccepts
<1>4. EscrowOf(s) = FeeAmount * (n - 1) /\ EscrowOf(c) = FeeAmount * n
  BY <1>2, EscrowCounts
<1> HIDE DEF n
<1>5. FeeAmount * (n - 1) = FeeAmount * n - FeeAmount
  BY <1>3
<1>. QED
  BY <1>4, <1>5

(* A ledger with the same requests looks the same. *)
LEMMA LooksTheSame ==
  ASSUME NEW c, NEW s, LedgerInv(c), LedgerInv(s),
         s.Requester = c.Requester, s.Fulfilled = c.Fulfilled,
         s.Refunded = c.Refunded
  PROVE  StatusOf(s) = StatusOf(c) /\ EscrowOf(s) = EscrowOf(c)
<1>1. \A id \in Ids : Status(s, id) = Status(c, id)
  BY DEF Status
<1>2. PendingIds(s) = PendingIds(c)
  BY DEF PendingIds, Pending
<1>. QED
  BY <1>1, <1>2, EscrowCounts DEF StatusOf

(* A delivery as the service sees it. *)
LEMMA DeliveryView ==
  ASSUME NEW c, NEW s, NEW id \in Ids, LedgerInv(c), LedgerInv(s),
         Delivered(c, s, id)
  PROVE  /\ StatusOf(c)[id] = "pending"
         /\ StatusOf(s) = [StatusOf(c) EXCEPT ![id] = "fulfilled"]
         /\ \E out \in Outputs[id] : s.Beta = [c.Beta EXCEPT ![id] = out]
         /\ EscrowOf(s) = EscrowOf(c) - FeeAmount
<1>1. c \in LedgerType
  BY DEF LedgerInv
<1>2. /\ s.Fulfilled[id]
      /\ \A j \in Ids \ {id} : s.Fulfilled[j] = c.Fulfilled[j]
  BY <1>1 DEF LedgerType, Delivered
<1>3. Status(c, id) = "pending" /\ Status(s, id) = "fulfilled"
  BY <1>2 DEF Delivered, Pending, Status
<1>4. \A j \in Ids \ {id} : Status(s, j) = Status(c, j)
  BY <1>2 DEF Delivered, Status
<1>5. PendingIds(s) = PendingIds(c) \ {id}
  BY <1>2 DEF Delivered, PendingIds, Pending
<1>6. EscrowOf(s) = EscrowOf(c) - FeeAmount
  BY <1>5, EscrowReleased DEF Delivered
<1>7. StatusOf(s) = [StatusOf(c) EXCEPT ![id] = "fulfilled"]
  BY <1>3, <1>4 DEF StatusOf
<1>. QED
  BY <1>3, <1>6, <1>7 DEF StatusOf, Delivered

(* A refund as the service sees it. *)
LEMMA RefundView ==
  ASSUME NEW c, NEW a, NEW id \in Ids, NEW t \in Nat, LedgerInv(c),
         CanRefund(c, a, id, t)
  PROVE  LET s == AfterRefund(c, id)
         IN /\ StatusOf(c)[id] = "pending"
            /\ StatusOf(s) = [StatusOf(c) EXCEPT ![id] = "refunded"]
            /\ s.Beta = c.Beta
            /\ EscrowOf(s) = EscrowOf(c) - FeeAmount
<1> DEFINE s == AfterRefund(c, id)
<1>1. c \in LedgerType
  BY DEF LedgerInv
<1>2. RefundEffect(c, s, id) /\ LedgerInv(s)
  BY <1>1, RefundFields, RefundInv
<1>3. Pending(c, id)
  BY DEF CanRefund, Pending
<1> HIDE DEF s
<1>4. /\ s.Refunded[id] /\ s.Requester = c.Requester
      /\ s.Fulfilled = c.Fulfilled /\ s.Beta = c.Beta
      /\ \A j \in Ids \ {id} : s.Refunded[j] = c.Refunded[j]
  BY <1>1, <1>2 DEF LedgerType, RefundEffect
<1>5. Status(c, id) = "pending" /\ Status(s, id) = "refunded"
  BY <1>3, <1>4 DEF Pending, Status
<1>6. \A j \in Ids \ {id} : Status(s, j) = Status(c, j)
  BY <1>4 DEF Status
<1>7. PendingIds(s) = PendingIds(c) \ {id}
  BY <1>4 DEF PendingIds, Pending
<1>8. EscrowOf(s) = EscrowOf(c) - FeeAmount
  BY <1>2, <1>3, <1>7, EscrowReleased
<1>9. StatusOf(s) = [StatusOf(c) EXCEPT ![id] = "refunded"]
  BY <1>5, <1>6 DEF StatusOf
<1>10. StatusOf(c)[id] = "pending"
  BY <1>5 DEF StatusOf
<1>. QED
  BY <1>4, <1>8, <1>9, <1>10 DEF s

(* A new request as the service sees it. *)
LEMMA RequestView ==
  ASSUME NEW c, NEW a \in Addresses, NEW x \in Contexts, NEW cb \in BOOLEAN,
         NEW t \in Nat, LedgerInv(c), CanRequest(c, a, x)
  PROVE  LET s  == AfterRequest(c, a, x, cb, t)
             id == c.Counter + 1
         IN /\ id \in Ids
            /\ StatusOf(c)[id] = "none"
            /\ \A j \in 1..(id - 1) : StatusOf(c)[j] # "none"
            /\ StatusOf(s) = [StatusOf(c) EXCEPT ![id] = "pending"]
            /\ s.Beta = c.Beta
            /\ EscrowOf(s) = EscrowOf(c) + FeeAmount
<1> DEFINE s  == AfterRequest(c, a, x, cb, t)
           id == c.Counter + 1
<1>1. c \in LedgerType
  BY DEF LedgerInv
<1>2. RequestEffect(c, s, a, x, t) /\ LedgerInv(s)
  BY <1>1, RequestFields, RequestInv
<1>3. id \in Ids /\ c.Counter \in Nat /\ a # None
  BY <1>1, <1>2, Environment DEF RequestEffect, LedgerType
<1>4. /\ s.Requester[id] # None /\ ~s.Fulfilled[id] /\ ~s.Refunded[id]
      /\ s.Beta = c.Beta
      /\ \A j \in Ids \ {id} : /\ s.Requester[j] = c.Requester[j]
                               /\ s.Fulfilled[j] = c.Fulfilled[j]
                               /\ s.Refunded[j] = c.Refunded[j]
  <2> HIDE DEF s
  <2>. QED BY <1>1, <1>2, <1>3 DEF LedgerType, RequestEffect
<1>5. c.Requester[id] = None /\ ~c.Fulfilled[id] /\ ~c.Refunded[id]
  BY <1>3 DEF LedgerInv, Allocated
<1>6. \A j \in 1..(id - 1) : j \in Ids /\ c.Requester[j] # None
  <2>1. \A j \in 1..(id - 1) : j \in Ids /\ j <= c.Counter
    BY <1>3, Environment DEF Ids
  <2>. QED BY <2>1 DEF LedgerInv, Allocated
<1> HIDE DEF s, id
<1>7. Status(c, id) = "none" /\ Status(s, id) = "pending"
  BY <1>4, <1>5 DEF Status
<1>8. \A j \in Ids \ {id} : Status(s, j) = Status(c, j)
  BY <1>4 DEF Status
<1>9. \A j \in 1..(id - 1) : StatusOf(c)[j] # "none"
  BY <1>6 DEF StatusOf, Status
<1>10. StatusOf(s) = [StatusOf(c) EXCEPT ![id] = "pending"]
  BY <1>7, <1>8 DEF StatusOf
<1>11. EscrowOf(s) = EscrowOf(c) + FeeAmount
  <2>1. PendingIds(s) = PendingIds(c) \cup {id} /\ id \notin PendingIds(c)
    BY <1>3, <1>4, <1>5 DEF PendingIds, Pending
  <2>2. Cardinality(PendingIds(s)) = Cardinality(PendingIds(c)) + 1
    BY <2>1, PendingFinite, FS_AddElement
  <2> DEFINE n == Cardinality(PendingIds(c))
  <2>3. n \in Nat /\ FeeAmount \in Nat
    BY PendingFinite, ConstructorAccepts
  <2>4. EscrowOf(s) = FeeAmount * (n + 1) /\ EscrowOf(c) = FeeAmount * n
    BY <1>2, <2>2, EscrowCounts
  <2> HIDE DEF n
  <2>5. FeeAmount * (n + 1) = FeeAmount * n + FeeAmount
    BY <2>3
  <2>. QED BY <2>4, <2>5
<1>12. StatusOf(c)[id] = "none"
  BY <1>3, <1>7 DEF StatusOf
<1>. QED
  BY <1>3, <1>4, <1>9, <1>10, <1>11, <1>12 DEF s, id

-----------------------------------------------------------------------------
(* Deliveries. *)

LEMMA FulfillDelivers ==
  ASSUME NEW s, NEW a, NEW id \in Ids, NEW t \in Nat, NEW p \in ProofsAt(t),
         NEW signer, LedgerInv(s), CanFulfill(s, a, id),
         AcceptsProof(s, id, p, signer)
  PROVE  Delivered(s, AfterFulfill(s, id, p), id)
<1> DEFINE u == AfterFulfill(s, id, p)
<1>1. s \in LedgerType /\ p \in ProofType
  BY ProofTyped DEF LedgerInv
<1>2. FulfillEffect(s, u, id, p)
  BY <1>1, FulfillFields
<1> HIDE DEF u
<1>3. Pending(s, id)
  <2>1. s.RequestContext[id] # None /\ ~s.Fulfilled[id] /\ ~s.Refunded[id]
    BY DEF CanFulfill
  <2>. QED BY <2>1 DEF LedgerInv, Allocated, Pending
<1>4. s.RequestContext[id] \in Contexts
  BY <1>1 DEF CanFulfill, LedgerType
<1>5. s.RequestRound[id] \in ProofRounds
  <2>1. PICK pk \in G2Keys, i \in Ids, c \in Contexts, kr \in SigsAt(t) :
          p = MakeProof(pk, kr[1], kr[2], i, c)
    BY DEF ProofsAt
  <2>2. p.drand_round = kr[2]
    BY <2>1 DEF MakeProof
  <2>3. kr[2] \in ProofRounds
    BY DEF SigsAt
  <2>. QED BY <2>2, <2>3 DEF AcceptsProof
<1>6. p.beta_output = OutputOf(s.OraclePK, s.DrandPK, id, s.RequestContext[id],
                               s.RequestRound[id])
  BY DEF AcceptsProof, OutputOf
<1>7. <<s.OraclePK, s.DrandPK>> \in UsableKeyPairs
  BY DEF LedgerInv, UsableKeys
<1>8. p.beta_output \in Outputs[id]
  <2> DEFINE q == <<s.OraclePK, s.DrandPK>>
  <2>1. q[1] = s.OraclePK /\ q[2] = s.DrandPK
    OBVIOUS
  <2> HIDE DEF q
  <2>2. p.beta_output = OutputOf(q[1], q[2], id, s.RequestContext[id],
                                 s.RequestRound[id])
    BY <1>6, <2>1
  <2>. QED BY <1>4, <1>5, <1>7, <2>2 DEF Outputs, q
<1>. QED
  BY <1>2, <1>3, <1>8 DEF Delivered, FulfillEffect, u

LEMMA DeliveredClear ==
  ASSUME NEW c, NEW s \in LedgerType, NEW id, NEW j \in Ids,
         Delivered(c, s, id)
  PROVE  Delivered(c, ClearFulfilling(s, j), id)
<1>1. ClearEffect(s, ClearFulfilling(s, j), j)
  BY ClearFields
<1>. QED
  BY <1>1 DEF ClearEffect, Delivered

LEMMA CallInvPreserved ==
  ASSUME ~ReentryAllowed, IInv, CallInv, [Next]_vars
  PROVE  CallInv'
<1>1. /\ frames \in Seq([id : Ids, savepoint : LedgerType])
      /\ LedgerInv(ledger) /\ ledger \in LedgerType /\ now \in Nat
      /\ frames = <<>> => committed = ledger
  BY DEF IInv, LedgerInv, TypeOK
<1>2. ASSUME NEW s, frames = <<>>, Run(s)
      PROVE  CallInv'
  <2>1. frames' = <<>> /\ Len(frames') = 0
    BY <1>2 DEF Run
  <2>. QED BY <2>1 DEF CallInv
<1>3. ASSUME frames' = <<>> PROVE CallInv'
  <2>1. Len(frames') = 0
    BY <1>3
  <2>. QED BY <1>3, <2>1 DEF CallInv
<1>4. ASSUME NEW a \in Addresses, NEW id \in Ids,
             FulfillInvokesCallback(a, id)
      PROVE  CallInv'
  <2>1. PICK p \in ProofsAt(now), signer \in Ed25519Keys :
          /\ AcceptsProof(ledger, id, p, signer)
          /\ ledger' = AfterFulfill(ledger, id, p)
          /\ frames' = Append(frames, [id |-> id,
                                       savepoint |-> AfterFulfill(ledger, id, p)])
    BY <1>4 DEF FulfillInvokesCallback
  <2>2. CanFulfill(ledger, a, id) /\ committed' = committed /\ frames = <<>>
    BY <1>4 DEF FulfillInvokesCallback, CanEnter
  <2> DEFINE u == AfterFulfill(ledger, id, p)
             f == [id |-> id, savepoint |-> u]
  <2>3. Delivered(ledger, u, id)
    BY <1>1, <2>1, <2>2, FulfillDelivers
  <2>4. /\ ledger' = u /\ frames' = Append(<<>>, f)
        /\ f.id = id /\ f.savepoint = u
    BY <2>1, <2>2
  <2> HIDE DEF u, f
  <2>5. Len(frames') = 1 /\ frames'[1] = f
    BY <2>4
  <2>. QED BY <1>1, <2>2, <2>3, <2>4, <2>5 DEF CallInv
<1>5. ASSUME NEW s, frames # <<>>, ResumeOn(s)
      PROVE  CallInv'
  <2>1. Len(frames) = 1
    BY <1>5, OneFrame
  <2>2. frames' = SubSeq(frames, 1, 0)
    BY <1>5, <2>1 DEF ResumeOn
  <2>. QED BY <1>3, <2>2
<1>6. ASSUME NEW from \in Addresses, NEW to \in Accounts,
             TokenTransfer(from, to)
      PROVE  CallInv'
  <2>1. /\ from # to /\ CanTransfer(ledger, from, 1)
        /\ Run(AfterTransfer(ledger, from, to))
    BY <1>6 DEF TokenTransfer, AfterTransfer
  <2>2. CASE frames = <<>>
    BY <1>2, <2>1, <2>2
  <2>3. CASE frames # <<>>
    <3>1. /\ ledger' = AfterTransfer(ledger, from, to) /\ frames' = frames
          /\ committed' = committed
      BY <2>1, <2>3 DEF Run
    <3>2. SameRequests(ledger, AfterTransfer(ledger, from, to))
      BY <1>1, <2>1, TransferFields
    <3>3. SameRequests(ledger, ledger')
      BY <3>1, <3>2
    <3>. QED BY <2>3, <3>1, <3>3 DEF CallInv, SameRequests, Delivered
  <2>. QED BY <2>2, <2>3
<1>7. CASE Tick
  BY <1>3, <1>7 DEF Tick
<1>8. CASE UNCHANGED vars
  BY <1>8 DEF vars, CallInv
<1>9. CASE CallbackReturns \/ CallbackFails \/ BudgetExhausted
  BY <1>3, <1>5, <1>9 DEF CallbackReturns, CallbackFails, BudgetExhausted
<1>10. ASSUME NEW a \in Addresses, NEW c \in Contexts,
              Request(a, c) \/ RequestWithCallback(a, c)
       PROVE  CallInv'
  BY <1>2, <1>10 DEF Request, RequestWithCallback, CanEnter
<1>11. ASSUME NEW a \in Addresses, NEW id \in Ids,
              TimeoutRefund(a, id) \/ CleanupProof(a, id) \/ Fulfill(a, id)
       PROVE  CallInv'
  BY <1>2, <1>11 DEF TimeoutRefund, CleanupProof, Fulfill, CanEnter
<1>12. ASSUME NEW auth, NEW pk, NEW addr, NEW ed,
              RotateOracleKeys(auth, pk, addr, ed)
       PROVE  CallInv'
  BY <1>2, <1>12 DEF RotateOracleKeys, CanEnter
<1>13. ASSUME NEW a, NEW key, RotateDrandPk(a, key)
       PROVE  CallInv'
  BY <1>2, <1>13 DEF RotateDrandPk, CanEnter
<1>. QED
  BY <1>4, <1>6, <1>7, <1>8, <1>9, <1>10, <1>11, <1>12, <1>13 DEF Next

-----------------------------------------------------------------------------
(* Steps of the contract as steps of the service. *)

(* The refinement mapping, in terms of the view. *)
LEMMA MappedInit ==
  ASSUME StatusOf(committed) = [id \in Ids |-> "none"],
         committed.Beta = [id \in Ids |-> None], EscrowOf(committed) = 0
  PROVE  Service!Init
  BY DEF Service!Init, Service!Requests, StatusOf, EscrowOf, Ids

LEMMA MappedOpen ==
  ASSUME NEW id \in Ids, StatusOf(committed)[id] = "none",
         \A j \in 1..(id - 1) : StatusOf(committed)[j] # "none",
         StatusOf(committed') = [StatusOf(committed) EXCEPT ![id] = "pending"],
         committed'.Beta = committed.Beta,
         EscrowOf(committed') = EscrowOf(committed) + FeeAmount
  PROVE  Service!Next
<1>1. Service!Open(id)
  BY DEF Service!Open, StatusOf, EscrowOf
<1>. QED
  BY <1>1 DEF Service!Next, Service!Requests, Ids

LEMMA MappedDeliver ==
  ASSUME NEW id \in Ids, LedgerInv(committed), LedgerInv(committed'),
         Delivered(committed, committed', id)
  PROVE  Service!Next
<1>1. /\ StatusOf(committed)[id] = "pending"
      /\ StatusOf(committed') = [StatusOf(committed) EXCEPT ![id] = "fulfilled"]
      /\ \E out \in Outputs[id] :
           committed'.Beta = [committed.Beta EXCEPT ![id] = out]
      /\ EscrowOf(committed') = EscrowOf(committed) - FeeAmount
  BY DeliveryView
<1>2. Service!Deliver(id)
  BY <1>1 DEF Service!Deliver, StatusOf, EscrowOf, Outputs
<1>. QED
  BY <1>2 DEF Service!Next, Service!Requests, Ids

LEMMA MappedRefund ==
  ASSUME NEW id \in Ids, StatusOf(committed)[id] = "pending",
         StatusOf(committed') = [StatusOf(committed) EXCEPT ![id] = "refunded"],
         committed'.Beta = committed.Beta,
         EscrowOf(committed') = EscrowOf(committed) - FeeAmount
  PROVE  Service!Next
<1>1. Service!Refund(id)
  BY DEF Service!Refund, StatusOf, EscrowOf
<1>. QED
  BY <1>1 DEF Service!Next, Service!Requests, Ids

LEMMA MappedStutter ==
  ASSUME LedgerInv(committed), LedgerInv(committed'),
         committed'.Requester = committed.Requester,
         committed'.Fulfilled = committed.Fulfilled,
         committed'.Refunded = committed.Refunded,
         committed'.Beta = committed.Beta
  PROVE  UNCHANGED Service!vars
<1>1. /\ StatusOf(committed') = StatusOf(committed)
      /\ EscrowOf(committed') = EscrowOf(committed)
  BY LooksTheSame
<1>. QED
  BY <1>1 DEF Service!vars, StatusOf, EscrowOf

LEMMA ServiceStep ==
  ASSUME ~ReentryAllowed, IInv, CallInv, [Next]_vars
  PROVE  [Service!Next]_(Service!vars)
<1>1. /\ frames \in Seq([id : Ids, savepoint : LedgerType])
      /\ ledger \in LedgerType /\ now \in Nat
      /\ LedgerInv(ledger) /\ LedgerInv(committed) /\ LedgerInv(committed')
      /\ frames = <<>> => committed = ledger
  BY NextPreserves DEF IInv, LedgerInv, TypeOK
<1>2. ASSUME committed' = committed PROVE UNCHANGED Service!vars
  BY <1>1, <1>2, MappedStutter
<1>3. ASSUME NEW s, CanEnter, Run(s)
      PROVE  frames = <<>> /\ committed = ledger /\ committed' = s
  BY <1>1, <1>3 DEF CanEnter, Run
<1>4. ASSUME NEW a \in Addresses, NEW c \in Contexts,
             Request(a, c) \/ RequestWithCallback(a, c)
      PROVE  Service!Next
  <2>1. PICK cb \in BOOLEAN :
          /\ CanEnter /\ CanRequest(ledger, a, c)
          /\ Run(AfterRequest(ledger, a, c, cb, now))
    BY <1>4 DEF Request, RequestWithCallback
  <2>2. /\ committed = ledger
        /\ committed' = AfterRequest(committed, a, c, cb, now)
    BY <1>3, <2>1
  <2>3. CanRequest(committed, a, c)
    BY <2>1, <2>2
  <2> DEFINE id == committed.Counter + 1
  <2>4. /\ id \in Ids
        /\ StatusOf(committed)[id] = "none"
        /\ \A j \in 1..(id - 1) : StatusOf(committed)[j] # "none"
        /\ StatusOf(committed') = [StatusOf(committed) EXCEPT ![id] = "pending"]
        /\ committed'.Beta = committed.Beta
        /\ EscrowOf(committed') = EscrowOf(committed) + FeeAmount
    BY <1>1, <2>2, <2>3, RequestView
  <2> HIDE DEF id
  <2>. QED BY <2>4, MappedOpen
<1>5. ASSUME NEW a \in Addresses, NEW id \in Ids, TimeoutRefund(a, id)
      PROVE  Service!Next
  <2>1. /\ committed = ledger /\ committed' = AfterRefund(committed, id)
        /\ CanRefund(committed, a, id, now)
    BY <1>3, <1>5 DEF TimeoutRefund
  <2>2. /\ StatusOf(committed)[id] = "pending"
        /\ StatusOf(committed') = [StatusOf(committed) EXCEPT ![id] = "refunded"]
        /\ committed'.Beta = committed.Beta
        /\ EscrowOf(committed') = EscrowOf(committed) - FeeAmount
    BY <1>1, <2>1, RefundView
  <2>. QED BY <2>2, MappedRefund
<1>6. ASSUME NEW a \in Addresses, NEW id \in Ids, CleanupProof(a, id)
      PROVE  UNCHANGED Service!vars
  <2>1. committed = ledger /\ committed' = AfterCleanup(committed, id)
    BY <1>3, <1>6 DEF CleanupProof
  <2>2. CleanupEffect(committed, committed', id)
    BY <1>1, <2>1, CleanupFields
  <2>. QED BY <1>1, <2>2, MappedStutter DEF CleanupEffect
<1>7. ASSUME NEW a \in Addresses, NEW id \in Ids, Fulfill(a, id)
      PROVE  Service!Next
  <2>1. PICK p \in ProofsAt(now), signer \in Ed25519Keys :
          /\ AcceptsProof(ledger, id, p, signer)
          /\ Run(ClearFulfilling(AfterFulfill(ledger, id, p), id))
    BY <1>7 DEF Fulfill
  <2>2. CanFulfill(ledger, a, id) /\ CanEnter
    BY <1>7 DEF Fulfill
  <2> DEFINE u == AfterFulfill(ledger, id, p)
  <2>3. committed = ledger /\ committed' = ClearFulfilling(u, id)
    BY <1>3, <2>1, <2>2
  <2>4. Delivered(ledger, u, id)
    BY <1>1, <2>1, <2>2, FulfillDelivers
  <2>5. u \in LedgerType
    BY <1>1, <2>2, ProofTyped, FulfillFields DEF FulfillEffect
  <2> HIDE DEF u
  <2>6. Delivered(committed, committed', id)
    BY <2>3, <2>4, <2>5, DeliveredClear
  <2>. QED BY <1>1, <2>6, MappedDeliver
<1>8. ASSUME NEW auth, NEW pk \in G2Keys, NEW addr \in Addresses,
             NEW ed \in Ed25519Keys, RotateOracleKeys(auth, pk, addr, ed)
      PROVE  UNCHANGED Service!vars
  <2>1. committed = ledger /\ committed' = AfterRotateOracle(ledger, pk, addr, ed)
    BY <1>3, <1>8 DEF RotateOracleKeys
  <2>2. SameRequests(committed, committed')
    BY <1>1, <2>1, RotateOracleFields
  <2>. QED BY <1>1, <2>2, MappedStutter DEF SameRequests
<1>9. ASSUME NEW a \in Addresses, NEW key \in G2Keys, RotateDrandPk(a, key)
      PROVE  UNCHANGED Service!vars
  <2>1. committed = ledger /\ committed' = AfterRotateDrand(ledger, key)
    BY <1>3, <1>9 DEF RotateDrandPk
  <2>2. SameRequests(committed, committed')
    BY <1>1, <2>1, RotateDrandFields
  <2>. QED BY <1>1, <2>2, MappedStutter DEF SameRequests
<1>10. ASSUME NEW from \in Addresses, NEW to \in Accounts,
              TokenTransfer(from, to)
       PROVE  UNCHANGED Service!vars
  <2>1. /\ from # to /\ CanTransfer(ledger, from, 1)
        /\ Run(AfterTransfer(ledger, from, to))
    BY <1>10 DEF TokenTransfer, AfterTransfer
  <2>2. CASE frames = <<>>
    <3>1. committed = ledger /\ committed' = AfterTransfer(ledger, from, to)
      BY <1>1, <2>1, <2>2 DEF Run
    <3>2. SameRequests(committed, committed')
      BY <1>1, <2>1, <3>1, TransferFields
    <3>. QED BY <1>1, <3>2, MappedStutter DEF SameRequests
  <2>3. CASE frames # <<>>
    BY <1>2, <2>1, <2>3 DEF Run
  <2>. QED BY <2>2, <2>3
<1>11. ASSUME NEW s \in LedgerType, frames # <<>>, ResumeOn(s),
              Delivered(committed, s, frames[1].id)
       PROVE  Service!Next
  <2>1. Len(frames) = 1
    BY <1>11, OneFrame
  <2>2. frames[1].id \in Ids
    BY <1>11, OneFrame
  <2>3. committed' = ClearFulfilling(s, frames[1].id)
    BY <1>11, <2>1 DEF ResumeOn
  <2>4. Delivered(committed, committed', frames[1].id)
    BY <1>11, <2>2, <2>3, DeliveredClear
  <2>. QED BY <1>1, <2>2, <2>4, MappedDeliver
<1>12. CASE CallbackReturns
  BY <1>1, <1>11, <1>12 DEF CallbackReturns, CallInv
<1>13. CASE CallbackFails
  <2>1. frames # <<>> /\ ResumeOn(frames[Len(frames)].savepoint)
    BY <1>13 DEF CallbackFails
  <2>2. Len(frames) = 1 /\ frames[1].savepoint \in LedgerType
    BY <2>1, OneFrame
  <2>. QED BY <1>11, <2>1, <2>2 DEF CallInv
<1>14. CASE BudgetExhausted \/ Tick \/ UNCHANGED vars
  BY <1>2, <1>14 DEF BudgetExhausted, Tick, vars
<1>15. ASSUME NEW a \in Addresses, NEW id \in Ids,
              FulfillInvokesCallback(a, id)
       PROVE  UNCHANGED Service!vars
  BY <1>2, <1>15 DEF FulfillInvokesCallback
<1>. QED
  BY <1>4, <1>5, <1>6, <1>7, <1>8, <1>9, <1>10, <1>12, <1>13, <1>14, <1>15
     DEF Next

LEMMA ServiceInit == Init => Service!Init /\ CallInv
<1> SUFFICES ASSUME Init PROVE Service!Init /\ CallInv
  OBVIOUS
<1>1. committed = EmptyLedger /\ frames = <<>>
  BY DEF Init
<1>2. StatusOf(committed) = [id \in Ids |-> "none"]
  BY <1>1 DEF StatusOf, Status, EmptyLedger
<1>3. committed.Beta = [id \in Ids |-> None]
  BY <1>1 DEF EmptyLedger
<1>4. EscrowOf(committed) = 0
  BY <1>1 DEF EscrowOf, EmptyLedger, Accounts
<1>5. CallInv
  BY <1>1 DEF CallInv
<1>. QED
  BY <1>2, <1>3, <1>4, <1>5, MappedInit

-----------------------------------------------------------------------------
(* On a host that forbids re-entry, whatever the oracle, requesters,       *)
(* callbacks and key rotations do, users of the committed ledgers see the  *)
(* service: each request opened in order, settled once, with an output of  *)
(* its own or a refund, and its fee in escrow exactly while it is pending. *)
THEOREM ContractImplementsService ==
  ASSUME ~ReentryAllowed
  PROVE  Spec => ImplementsService
<1>1. Init => Service!Init /\ CallInv
  BY ServiceInit
<1>2. IInv /\ CallInv /\ [Next]_vars => CallInv'
  BY CallInvPreserved
<1>3. IInv /\ CallInv /\ [Next]_vars => [Service!Next]_(Service!vars)
  BY ServiceStep
<1>. QED
  BY <1>1, <1>2, <1>3, Inductive, PTL
     DEF Spec, ImplementsService, Service!Spec
=============================================================================
