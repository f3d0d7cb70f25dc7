--------------------------- MODULE FeeGuard_proofs ---------------------------
(* What the fee guard guarantees for any number of sends, any fees and     *)
(* budgets, and whoever crashes.                                           *)
EXTENDS FeeGuard, FiniteSetTheorems, TLAPS

-----------------------------------------------------------------------------
(* Sums.  Everything the proofs need of them is that a sum is at most that *)
(* of two others when each of its amounts is.                              *)

Summable(amounts) ==
  DOMAIN amounts \in SUBSET Sends /\ \A s \in DOMAIN amounts : amounts[s] \in Nat

Amount(amounts, s) == IF s \in DOMAIN amounts THEN amounts[s] ELSE 0

LEMMA UnitsAre ==
  ASSUME NEW amounts, NEW x
  PROVE  x \in Units(amounts) <=>
           \E s \in DOMAIN amounts : \E k \in 1..amounts[s] : x = <<s, k>>
BY DEF Units

LEMMA UnitsFinite ==
  ASSUME NEW amounts, Summable(amounts)
  PROVE  IsFiniteSet(Units(amounts)) /\ Total(amounts) \in Nat
<1> DEFINE D == DOMAIN amounts
           of == [s \in D |-> {s} \X (1..amounts[s])]
           R == {{s} \X (1..amounts[s]) : s \in D}
<1>1. IsFiniteSet(D)
  BY Amounts, FS_Subset DEF Summable
<1>2. of \in Surjection(D, R)
  BY DEF Surjection
<1>3. IsFiniteSet(R)
  BY <1>1, <1>2, FS_Surjection
<1>4. \A s \in D : IsFiniteSet({s} \X (1..amounts[s]))
  <2> SUFFICES ASSUME NEW s \in D PROVE IsFiniteSet({s} \X (1..amounts[s]))
    OBVIOUS
  <2>1. IsFiniteSet({s})
    BY FS_Singleton
  <2>2. IsFiniteSet(1..amounts[s])
    BY FS_Interval DEF Summable
  <2>. QED BY <2>1, <2>2, FS_Product
<1>5. \A T \in R : IsFiniteSet(T)
  BY <1>4
<1>6. IsFiniteSet(UNION R)
  <2> HIDE DEF R
  <2>. QED BY <1>3, <1>5, FS_UNION
<1>. QED BY <1>6, FS_CardinalityType DEF Units, Total

LEMMA TotalSplits ==
  ASSUME NEW g, NEW u, NEW c, Summable(g), Summable(u), Summable(c),
         \A s \in DOMAIN g : g[s] <= Amount(u, s) + Amount(c, s)
  PROVE  Total(g) <= Total(u) + Total(c)
<1> DEFINE V == Units(g) \ Units(u)
           shift == [x \in V |-> <<x[1], x[2] - Amount(u, x[1])>>]
<1>1. \A s \in Sends : Amount(u, s) \in Nat /\ Amount(c, s) \in Nat
  BY DEF Summable, Amount
<1>2. ASSUME NEW x \in V
      PROVE  /\ x[1] \in Sends /\ x[2] \in Nat /\ x = <<x[1], x[2]>>
             /\ shift[x] = <<x[1], x[2] - Amount(u, x[1])>>
             /\ shift[x] \in Units(c)
  <2>1. PICK s \in DOMAIN g : \E k \in 1..g[s] : x = <<s, k>>
    BY UnitsAre
  <2>2. PICK k \in 1..g[s] : x = <<s, k>>
    BY <2>1
  <2>3. s \in Sends /\ g[s] \in Nat /\ k \in Nat \ {0} /\ x[1] = s /\ x[2] = k
    BY <2>2 DEF Summable
  <2>4. k > Amount(u, s)
    <3>1. CASE s \in DOMAIN u
      <4>1. k \notin 1..u[s]
        BY <2>2, <3>1, UnitsAre
      <4>. QED BY <2>3, <3>1, <4>1 DEF Amount, Summable
    <3>2. CASE s \notin DOMAIN u
      BY <2>3, <3>2 DEF Amount
    <3>. QED BY <3>1, <3>2
  <2>5. k - Amount(u, s) \in 1..Amount(c, s)
    BY <1>1, <2>2, <2>3, <2>4
  <2>6. s \in DOMAIN c /\ k - Amount(u, s) \in 1..c[s]
    BY <2>5 DEF Amount
  <2>7. <<s, k - Amount(u, s)>> \in Units(c)
    BY <2>6, UnitsAre
  <2>. QED BY <2>2, <2>3, <2>7
<1>3. shift \in [V -> Units(c)]
  BY <1>2
<1>4. ASSUME NEW x \in V, NEW y \in V, shift[x] = shift[y]
      PROVE  x = y
  <2>1. x[1] = y[1] /\ x[2] - Amount(u, x[1]) = y[2] - Amount(u, y[1])
    BY <1>2, <1>4
  <2>2. x[2] = y[2]
    <3> DEFINE a == Amount(u, x[1])
    <3>1. a \in Nat /\ x[2] \in Nat /\ y[2] \in Nat
      BY <1>1, <1>2
    <3>2. x[2] - a = y[2] - a
      BY <2>1
    <3> HIDE DEF a
    <3>. QED BY <3>1, <3>2
  <2>. QED BY <1>2, <2>1, <2>2
<1>5. shift \in Injection(V, Units(c))
  <2> HIDE DEF V, shift
  <2>. QED BY <1>3, <1>4 DEF Injection, IsInjective
<1>6. /\ IsFiniteSet(Units(g)) /\ IsFiniteSet(Units(u)) /\ IsFiniteSet(Units(c))
      /\ Total(g) \in Nat /\ Total(u) \in Nat /\ Total(c) \in Nat
  BY UnitsFinite
<1> HIDE DEF shift
<1>7. Cardinality(V) <= Total(c) /\ IsFiniteSet(V)
  BY <1>5, <1>6, FS_Injection DEF Total
<1>8. Cardinality(V) \in Nat /\ Cardinality(Units(u) \cap V) = 0
  <2>1. Units(u) \cap V = {}
    OBVIOUS
  <2>. QED BY <1>7, <2>1, FS_CardinalityType, FS_EmptySet
<1>9. Units(g) \subseteq Units(u) \cup V
  OBVIOUS
<1> HIDE DEF V
<1>10. /\ IsFiniteSet(Units(u) \cup V)
       /\ Cardinality(Units(u) \cup V) = Total(u) + Cardinality(V)
  <2>1. /\ IsFiniteSet(Units(u) \cup V)
        /\ Cardinality(Units(u) \cup V) =
             Cardinality(Units(u)) + Cardinality(V) - Cardinality(Units(u) \cap V)
    BY <1>6, <1>7, FS_Union
  <2>. QED BY <1>6, <1>8, <2>1 DEF Total
<1>11. Total(g) <= Cardinality(Units(u) \cup V)
  BY <1>9, <1>10, FS_Subset DEF Total
<1>. QED BY <1>6, <1>7, <1>8, <1>10, <1>11

LEMMA TotalOfNone ==
  Summable([s \in {} |-> 0]) /\ Total([s \in {} |-> 0]) = 0
<1> DEFINE none == [s \in {} |-> 0]
<1>1. DOMAIN none = {}
  OBVIOUS
<1> HIDE DEF none
<1>2. Units(none) = {}
  BY <1>1 DEF Units
<1>3. Summable(none) /\ Total(none) = 0
  BY <1>1, <1>2, FS_EmptySet DEF Summable, Total
<1>. QED BY <1>3 DEF none

LEMMA TotalOfOne ==
  ASSUME NEW s \in Sends, NEW n \in Nat
  PROVE  Summable([t \in {s} |-> n]) /\ Total([t \in {s} |-> n]) = n
<1> DEFINE one == [t \in {s} |-> n]
<1>1. DOMAIN one = {s} /\ one[s] = n
  OBVIOUS
<1> HIDE DEF one
<1>2. Units(one) = {s} \X (1..n)
  BY <1>1 DEF Units
<1>3. IsFiniteSet({s}) /\ Cardinality({s}) = 1
  BY FS_Singleton
<1>4. IsFiniteSet(1..n) /\ Cardinality(1..n) = n
  <2>1. Cardinality(1..n) = IF 1 > n THEN 0 ELSE n - 1 + 1
    BY FS_Interval
  <2>2. IsFiniteSet(1..n)
    BY FS_Interval
  <2>. QED BY <2>1, <2>2
<1>5. Cardinality({s} \X (1..n)) = Cardinality({s}) * Cardinality(1..n)
  BY <1>3, <1>4, FS_Product
<1>6. Cardinality({s} \X (1..n)) = n
  BY <1>3, <1>4, <1>5
<1>7. Summable(one) /\ Total(one) = n
  BY <1>1, <1>2, <1>6 DEF Summable, Total
<1>. QED BY <1>7 DEF one

-----------------------------------------------------------------------------
(* The reservations of one send. *)

Budgeted(s)    == funding[s] # "allowlisted"
HasUnpaid(s)   == Budgeted(s) /\ Unpaid(s) > 0 => unpaid[s] # None
HasCovered(s)  == Budgeted(s) /\ Covered(s) > 0 => covered[s] # None
Authorised(s)  == pc[s] \in {"unpaid", "covered", "ready"} \/ net[s] = "queued"

(* How far the reservations of a send have come, by its label. *)
LabelInv(s) ==
  /\ pc[s] \notin {"new", "admitted", "over"} => maxFee[s] \in MaxFees
  /\ pc[s] \in {"new", "admitted", "built", "unpaid", "covered", "ready"} => net[s] = "none"
  /\ pc[s] = "unpaid" => Budgeted(s) /\ Unpaid(s) > 0
  /\ pc[s] = "covered" => Budgeted(s) /\ Covered(s) > 0 /\ HasUnpaid(s)
  /\ pc[s] = "ready" => HasUnpaid(s) /\ HasCovered(s)
  /\ pc[s] = "releaseCovered" => net[s] = "success"
  /\ pc[s] \in {"releaseBoth", "releaseUnpaid"} =>
       ~Chargeable(s) /\ net[s] \notin {"success", "failed"}

RecordInv(s) ==
  /\ Chargeable(s) \/ net[s] \in {"success", "failed"} => HasUnpaid(s)
  /\ Chargeable(s) \/ net[s] = "failed" => HasCovered(s)

(* What was authorised on the account's present sequence number can be     *)
(* paid from its present balance.                                          *)
PayInv(s) ==
  /\ txSeq[s] <= seq
  /\ Authorised(s) /\ txSeq[s] = seq => balance - maxFee[s] >= Floor

SendInv(s) == LabelInv(s) /\ RecordInv(s) /\ PayInv(s)

IInv == TypeOK /\ FloorKept /\ \A s \in Sends : SendInv(s)

-----------------------------------------------------------------------------
LEMMA Parts ==
  ASSUME TypeOK, NEW s \in Sends
  PROVE  /\ maxFee[s] \in Nat /\ Covered(s) \in Nat /\ Unpaid(s) \in Nat
         /\ Covered(s) <= maxFee[s]
<1>1. maxFee[s] \in Nat
  <2>1. maxFee[s] \in MaxFees \cup {0}
    BY DEF TypeOK
  <2>2. \A m \in MaxFees : m \in Nat
    BY Amounts
  <2>3. CASE maxFee[s] \in MaxFees
    BY <2>2, <2>3
  <2>4. CASE maxFee[s] = 0
    BY <2>4
  <2>. QED BY <2>1, <2>3, <2>4
<1>2. OnChainFee \in Nat
  BY Amounts
<1>3. Covered(s) \in Nat /\ Covered(s) <= maxFee[s]
  BY <1>1, <1>2 DEF Covered
<1>. QED BY <1>1, <1>3 DEF Unpaid

LEMMA InitInv == Init => IInv
<1> SUFFICES ASSUME Init PROVE IInv
  OBVIOUS
<1>1. TypeOK
  BY Amounts DEF Init, TypeOK, Fundings, Labels
<1>2. FloorKept
  BY Amounts DEF Init, FloorKept
<1>3. \A s \in Sends : SendInv(s)
  BY Amounts DEF Init, SendInv, LabelInv, RecordInv, PayInv, Chargeable, Authorised
<1>. QED BY <1>1, <1>2, <1>3 DEF IInv

(* A send that a step leaves alone, while the clock and the account move   *)
(* only forwards.                                                          *)
Alone(s) ==
  /\ pc'[s] = pc[s] /\ funding'[s] = funding[s] /\ maxFee'[s] = maxFee[s]
  /\ txSeq'[s] = txSeq[s] /\ until'[s] = until[s] /\ net'[s] = net[s]
  /\ unpaid'[s] = unpaid[s] /\ covered'[s] = covered[s]

Forwards ==
  /\ now' >= now /\ seq' >= seq
  /\ seq' = seq => balance' = balance

LEMMA AlonePreserves ==
  ASSUME TypeOK, NEW s \in Sends, SendInv(s), Alone(s), Forwards,
         now' \in Nat, seq' \in Nat
  PROVE  SendInv(s)'
<1>1. /\ now \in Nat /\ seq \in Nat /\ txSeq[s] \in Nat /\ until[s] \in Nat
  BY Amounts DEF TypeOK
<1>2. /\ Unpaid(s)' = Unpaid(s) /\ Covered(s)' = Covered(s)
      /\ Budgeted(s)' = Budgeted(s)
  BY DEF Alone, Unpaid, Covered, Budgeted
<1>3. HasUnpaid(s)' = HasUnpaid(s) /\ HasCovered(s)' = HasCovered(s)
  BY <1>2 DEF Alone, HasUnpaid, HasCovered
<1>4. Chargeable(s)' => Chargeable(s)
  BY <1>1 DEF Alone, Forwards, Chargeable, SendInv, PayInv
<1>5. LabelInv(s)'
  BY <1>2, <1>3, <1>4 DEF SendInv, LabelInv, Alone
<1>6. RecordInv(s)'
  BY <1>3, <1>4 DEF SendInv, RecordInv, Alone
<1>7. PayInv(s)'
  BY <1>1 DEF SendInv, PayInv, Authorised, Alone, Forwards
<1>. QED BY <1>5, <1>6, <1>7 DEF SendInv

(* A step of one send that leaves the chain alone. *)
LEMMA OneMoves ==
  ASSUME IInv, NEW s \in Sends, TypeOK', UNCHANGED <<seq, balance, now>>,
         \A t \in Sends \ {s} : Alone(t), SendInv(s)'
  PROVE  IInv'
<1>1. now' \in Nat /\ seq' \in Nat /\ Forwards
  BY Amounts DEF TypeOK, IInv, Forwards
<1>2. \A t \in Sends : SendInv(t)'
  BY <1>1, AlonePreserves DEF IInv
<1>3. FloorKept'
  BY DEF IInv, FloorKept
<1>. QED BY <1>2, <1>3 DEF IInv

-----------------------------------------------------------------------------
LEMMA CheckPreserves ==
  ASSUME IInv, NEW s \in Sends, NEW f \in Fundings, Check(s, f)
  PROVE  IInv'
<1>1. TypeOK /\ SendInv(s)
  BY DEF IInv
<1>2. TypeOK'
  <2>1. pc' \in [Sends -> Labels] /\ funding' \in [Sends -> Fundings \cup {"budget"}]
    BY <1>1 DEF TypeOK, Check, Goto, Labels
  <2>. QED BY <1>1, <2>1 DEF TypeOK, Check, ledgerVars, chainVars
<1>3. \A t \in Sends \ {s} : Alone(t)
  BY <1>1 DEF TypeOK, Check, Goto, Alone, ledgerVars
<1>4. SendInv(s)'
  <2>1. pc'[s] = "admitted" /\ net'[s] = "none" /\ txSeq'[s] <= seq'
    BY <1>1 DEF TypeOK, SendInv, LabelInv, PayInv, Check, Goto, chainVars
  <2>. QED BY <2>1 DEF SendInv, LabelInv, RecordInv, PayInv, Chargeable, Authorised
<1>. QED BY <1>2, <1>3, <1>4, OneMoves DEF Check, chainVars

LEMMA BuildPreserves ==
  ASSUME IInv, NEW s \in Sends, NEW m \in MaxFees, Build(s, m)
  PROVE  IInv'
<1>1. TypeOK /\ SendInv(s)
  BY DEF IInv
<1>2. TypeOK'
  <2>1. now + Validity \in Nat
    BY <1>1, Amounts DEF TypeOK
  <2>2. /\ pc' \in [Sends -> Labels]
        /\ maxFee' \in [Sends -> MaxFees \cup {0}]
        /\ txSeq' \in [Sends -> Nat] /\ until' \in [Sends -> Nat]
    BY <1>1, <2>1 DEF TypeOK, Build, ValidUntil, Goto, Labels
  <2>. QED BY <1>1, <2>2 DEF TypeOK, Build, ledgerVars, chainVars
<1>3. \A t \in Sends \ {s} : Alone(t)
  BY <1>1 DEF TypeOK, Build, Goto, Alone, ledgerVars
<1>4. SendInv(s)'
  <2>1. pc'[s] = "built" /\ net'[s] = "none" /\ maxFee'[s] = m
        /\ txSeq'[s] = seq' /\ seq' \in Nat
    BY <1>1 DEF TypeOK, SendInv, LabelInv, Build, Goto, chainVars
  <2>. QED BY <2>1 DEF SendInv, LabelInv, RecordInv, PayInv, Chargeable, Authorised
<1>. QED BY <1>2, <1>3, <1>4, OneMoves DEF Build, chainVars

(* A step that moves only the label of a send. *)
LEMMA LabelMoves ==
  ASSUME IInv, NEW s \in Sends, NEW label \in Labels, Goto(s, label),
         UNCHANGED <<sendVars, ledgerVars, net, chainVars, now>>, LabelInv(s)',
         doubtful' \in {doubtful, doubtful \cup {s}},
         label \in {"unpaid", "covered", "ready"} =>
           (txSeq[s] = seq => balance - maxFee[s] >= Floor)
  PROVE  IInv'
<1>1. TypeOK /\ SendInv(s)
  BY DEF IInv
<1>2. TypeOK'
  <2>1. pc' \in [Sends -> Labels]
    BY <1>1 DEF TypeOK, Goto
  <2>. QED BY <1>1, <2>1 DEF TypeOK, sendVars, ledgerVars, chainVars
<1>3. \A t \in Sends \ {s} : Alone(t)
  BY <1>1 DEF TypeOK, Goto, Alone, sendVars, ledgerVars
<1>4. RecordInv(s)'
  BY <1>1 DEF SendInv, RecordInv, Chargeable, HasUnpaid, HasCovered, Budgeted, Unpaid,
     Covered, sendVars, ledgerVars, chainVars
<1>5. PayInv(s)'
  BY <1>1 DEF SendInv, PayInv, Authorised, TypeOK, Goto, sendVars, chainVars
<1>. QED BY <1>2, <1>3, <1>4, <1>5, OneMoves DEF SendInv, chainVars

LEMMA CheckBalancePreserves ==
  ASSUME IInv, NEW s \in Sends, CheckBalance(s) PROVE IInv'
<1>1. TypeOK /\ SendInv(s) /\ pc[s] = "built" /\ net[s] = "none" /\ maxFee[s] \in MaxFees
  BY DEF IInv, CheckBalance, SendInv, LabelInv
<1>2. UNCHANGED <<sendVars, ledgerVars, net, chainVars, now, doubtful>>
  BY DEF CheckBalance
<1>3. CASE CanPay(s) /\ Goto(s, FirstPart(s))
  <2>1. FirstPart(s) \in {"unpaid", "covered", "ready"} \cap Labels
    BY DEF FirstPart, Labels
  <2>2. pc'[s] = FirstPart(s) /\ net'[s] = "none" /\ maxFee'[s] = maxFee[s]
    BY <1>1, <1>2, <1>3 DEF TypeOK, Goto, sendVars
  <2>3. /\ Unpaid(s)' = Unpaid(s) /\ Covered(s)' = Covered(s)
        /\ Budgeted(s)' = Budgeted(s) /\ unpaid'[s] = unpaid[s]
    BY <1>2 DEF Unpaid, Covered, Budgeted, sendVars, ledgerVars
  <2>4. Unpaid(s) = 0 => Covered(s) > 0
    BY <1>1, Parts, Amounts DEF Unpaid
  <2>5. Unpaid(s) \in Nat
    BY <1>1, Parts
  <2>6. LabelInv(s)'
    BY <1>1, <2>1, <2>2, <2>3, <2>4, <2>5
    DEF LabelInv, FirstPart, HasUnpaid, HasCovered, Budgeted
  <2>. QED BY <1>2, <1>3, <2>1, <2>6, LabelMoves DEF CanPay
<1>4. CASE Goto(s, "over")
  <2>1. LabelInv(s)' /\ "over" \in Labels
    BY <1>1, <1>2, <1>4 DEF LabelInv, TypeOK, Goto, Labels, sendVars
  <2>. QED BY <1>2, <1>4, <2>1, LabelMoves
<1>. QED BY <1>3, <1>4 DEF CheckBalance

(* A reservation that fails leaves the ledger as it was, or with the entry *)
(* the caller does not know of.                                            *)
LEMMA TryReserveOutcomes ==
  ASSUME NEW ledger, NEW s, NEW amount, NEW limit, NEW r \in TryReserve(ledger, s, amount, limit)
  PROVE  \/ ~r.ok /\ r.after = ledger
         \/ r.ok \in BOOLEAN /\ r.after = Reserved(ledger, s, amount)
BY DEF TryReserve

LEMMA ReserveUnpaidPreserves ==
  ASSUME IInv, NEW s \in Sends, ReserveUnpaid(s) PROVE IInv'
<1>1. /\ TypeOK /\ SendInv(s) /\ pc[s] = "unpaid" /\ net[s] = "none"
      /\ maxFee[s] \in MaxFees /\ Budgeted(s) /\ Unpaid(s) > 0 /\ Unpaid(s) \in Nat
      /\ Covered(s) \in Nat
  BY Parts DEF IInv, ReserveUnpaid, SendInv, LabelInv
<1>2. /\ UNCHANGED <<sendVars, covered, net, chainVars, now>>
      /\ doubtful' \in {doubtful, doubtful \cup {s}}
  BY DEF ReserveUnpaid, Doubt
<1>3. /\ Unpaid(s)' = Unpaid(s) /\ Covered(s)' = Covered(s)
      /\ Budgeted(s)' = Budgeted(s) /\ net'[s] = "none" /\ maxFee'[s] = maxFee[s]
  BY <1>1, <1>2 DEF Unpaid, Covered, Budgeted, sendVars
<1>4. CASE UNCHANGED unpaid /\ Goto(s, "over")
  <2>1. LabelInv(s)' /\ "over" \in Labels
    BY <1>1, <1>3, <1>4 DEF LabelInv, TypeOK, Goto, Labels
  <2>. QED BY <1>2, <1>4, <2>1, LabelMoves DEF ledgerVars
<1>5. CASE /\ unpaid' = Reserved(unpaid, s, Unpaid(s))
           /\ \/ Goto(s, IF Covered(s) > 0 THEN "covered" ELSE "ready")
              \/ Goto(s, "over")
  <2>1. [at |-> now, amount |-> Unpaid(s)] \in Entry
    BY <1>1 DEF TypeOK, Entry
  <2>2. /\ unpaid' \in [Sends -> Entry \cup {None}]
        /\ unpaid'[s] # None /\ \A t \in Sends \ {s} : unpaid'[t] = unpaid[t]
    BY <1>1, <1>5, <2>1, NoneIsNoEntry DEF TypeOK, Reserved
  <2>3. PICK label \in {"covered", "ready", "over"} :
          /\ Goto(s, label)
          /\ label = "covered" => Covered(s) > 0
          /\ label = "ready" => Covered(s) = 0
    BY <1>1, <1>5
  <2>4. pc' \in [Sends -> Labels] /\ pc'[s] = label
        /\ \A t \in Sends \ {s} : pc'[t] = pc[t]
    BY <1>1, <2>3 DEF TypeOK, Goto, Labels
  <2>5. TypeOK'
    BY <1>1, <1>2, <2>2, <2>4 DEF TypeOK, sendVars, chainVars
  <2>6. \A t \in Sends \ {s} : Alone(t)
    BY <1>2, <2>2, <2>4 DEF Alone, sendVars
  <2>7. LabelInv(s)'
    BY <1>1, <1>3, <2>2, <2>3, <2>4 DEF LabelInv, HasUnpaid, HasCovered
  <2>8. RecordInv(s)'
    BY <1>3 DEF RecordInv, Chargeable
  <2>9. PayInv(s)'
    BY <1>1, <1>2, <1>3, <2>3, <2>4 DEF SendInv, PayInv, Authorised, sendVars, chainVars
  <2>. QED BY <1>2, <2>5, <2>6, <2>7, <2>8, <2>9, OneMoves DEF SendInv, chainVars
<1>6. PICK r \in TryReserve(unpaid, s, Unpaid(s), UnpaidBudget) :
        /\ unpaid' = r.after
        /\ Goto(s, IF ~r.ok THEN "over" ELSE IF Covered(s) > 0 THEN "covered" ELSE "ready")
  BY DEF ReserveUnpaid
<1>7. \/ ~r.ok /\ r.after = unpaid
      \/ r.ok \in BOOLEAN /\ r.after = Reserved(unpaid, s, Unpaid(s))
  BY TryReserveOutcomes
<1>. QED BY <1>4, <1>5, <1>6, <1>7

LEMMA ReserveCoveredPreserves ==
  ASSUME IInv, NEW s \in Sends, ReserveCovered(s) PROVE IInv'
<1>1. /\ TypeOK /\ SendInv(s) /\ pc[s] = "covered" /\ net[s] = "none"
      /\ maxFee[s] \in MaxFees /\ Budgeted(s) /\ HasUnpaid(s)
      /\ Covered(s) > 0 /\ Covered(s) \in Nat
  BY Parts DEF IInv, ReserveCovered, SendInv, LabelInv
<1>2. /\ UNCHANGED <<sendVars, unpaid, net, chainVars, now>>
      /\ doubtful' \in {doubtful, doubtful \cup {s}}
  BY DEF ReserveCovered, Doubt
<1>3. /\ Unpaid(s)' = Unpaid(s) /\ Covered(s)' = Covered(s)
      /\ Budgeted(s)' = Budgeted(s) /\ net'[s] = "none" /\ maxFee'[s] = maxFee[s]
  BY <1>1, <1>2 DEF Unpaid, Covered, Budgeted, sendVars
<1>4. HasUnpaid(s)'
  BY <1>1, <1>2, <1>3 DEF HasUnpaid
<1>5. CASE UNCHANGED covered /\ Goto(s, IF Unpaid(s) > 0 THEN "releaseUnpaid" ELSE "over")
  <2>1. PICK label \in {"releaseUnpaid", "over"} : Goto(s, label)
    BY <1>5
  <2>2. LabelInv(s)' /\ label \in Labels
    BY <1>1, <1>3, <2>1 DEF LabelInv, TypeOK, Goto, Labels, Chargeable
  <2>. QED BY <1>2, <1>5, <2>1, <2>2, LabelMoves DEF ledgerVars
<1>6. CASE /\ covered' = Reserved(covered, s, Covered(s))
           /\ \/ Goto(s, "ready")
              \/ Goto(s, IF Unpaid(s) > 0 THEN "releaseUnpaid" ELSE "over")
  <2>1. [at |-> now, amount |-> Covered(s)] \in Entry
    BY <1>1 DEF TypeOK, Entry
  <2>2. /\ covered' \in [Sends -> Entry \cup {None}]
        /\ covered'[s] # None /\ \A t \in Sends \ {s} : covered'[t] = covered[t]
    BY <1>1, <1>6, <2>1, NoneIsNoEntry DEF TypeOK, Reserved
  <2>3. PICK label \in {"ready", "releaseUnpaid", "over"} : Goto(s, label)
    BY <1>6
  <2>4. pc' \in [Sends -> Labels] /\ pc'[s] = label
        /\ \A t \in Sends \ {s} : pc'[t] = pc[t]
    BY <1>1, <2>3 DEF TypeOK, Goto, Labels
  <2>5. TypeOK'
    BY <1>1, <1>2, <2>2, <2>4 DEF TypeOK, sendVars, chainVars
  <2>6. \A t \in Sends \ {s} : Alone(t)
    BY <1>2, <2>2, <2>4 DEF Alone, sendVars
  <2>7. HasCovered(s)'
    BY <2>2 DEF HasCovered
  <2>8. LabelInv(s)'
    BY <1>1, <1>3, <1>4, <2>4, <2>7 DEF LabelInv, Chargeable
  <2>9. RecordInv(s)'
    BY <1>3 DEF RecordInv, Chargeable
  <2>10. PayInv(s)'
    BY <1>1, <1>2, <1>3, <2>3, <2>4 DEF SendInv, PayInv, Authorised, sendVars, chainVars
  <2>. QED BY <1>2, <2>5, <2>6, <2>8, <2>9, <2>10, OneMoves DEF SendInv, chainVars
<1>7. PICK r \in TryReserve(covered, s, Covered(s), PaidBudget) :
        /\ covered' = r.after
        /\ Goto(s, IF r.ok THEN "ready" ELSE IF Unpaid(s) > 0 THEN "releaseUnpaid" ELSE "over")
  BY DEF ReserveCovered
<1>8. \/ ~r.ok /\ r.after = covered
      \/ r.ok \in BOOLEAN /\ r.after = Reserved(covered, s, Covered(s))
  BY TryReserveOutcomes
<1>. QED BY <1>5, <1>6, <1>7, <1>8

(* The steps that only move the label, once the network has the send.      *)
LEMMA WithdrawPreserves ==
  ASSUME IInv, NEW s \in Sends, Withdraw(s) PROVE IInv'
<1>1. TypeOK /\ SendInv(s) /\ pc[s] = "ready" /\ net[s] = "none" /\ maxFee[s] \in MaxFees
  BY DEF IInv, Withdraw, SendInv, LabelInv
<1>2. PICK label \in {"over", "releaseBoth"} : Goto(s, label)
  BY DEF Withdraw, Settle, After
<1>3. LabelInv(s)' /\ label \in Labels
  BY <1>1, <1>2 DEF LabelInv, TypeOK, Goto, Labels, Chargeable, Withdraw, sendVars
<1>. QED BY <1>2, <1>3, LabelMoves DEF Withdraw

LEMMA ConfirmedPreserves ==
  ASSUME IInv, NEW s \in Sends, Confirmed(s) PROVE IInv'
<1>1. /\ TypeOK /\ SendInv(s) /\ pc[s] = "sent" /\ maxFee[s] \in MaxFees
      /\ net[s] \in {"success", "failed"}
  BY DEF IInv, Confirmed, SendInv, LabelInv
<1>2. PICK label \in {"over", "releaseCovered"} :
        Goto(s, label) /\ (label = "releaseCovered" => net[s] = "success")
  BY <1>1 DEF Confirmed, Settle, After
<1>3. LabelInv(s)' /\ label \in Labels
  BY <1>1, <1>2 DEF LabelInv, TypeOK, Goto, Labels, Confirmed, sendVars
<1>. QED BY <1>2, <1>3, LabelMoves DEF Confirmed

LEMMA NoAnswerPreserves ==
  ASSUME IInv, NEW s \in Sends, NoAnswer(s) PROVE IInv'
<1>1. TypeOK /\ SendInv(s) /\ pc[s] = "sent" /\ maxFee[s] \in MaxFees
  BY DEF IInv, NoAnswer, SendInv, LabelInv
<1>2. PICK label \in {"over", "pending"} : Goto(s, label)
  BY DEF NoAnswer, Settle, After
<1>3. LabelInv(s)' /\ label \in Labels
  BY <1>1, <1>2 DEF LabelInv, TypeOK, Goto, Labels, NoAnswer, sendVars
<1>. QED BY <1>2, <1>3, LabelMoves DEF NoAnswer

LEMMA ResolvePendingPreserves ==
  ASSUME IInv, NEW s \in Sends, ResolvePending(s) PROVE IInv'
<1>1. /\ TypeOK /\ SendInv(s) /\ pc[s] = "pending" /\ maxFee[s] \in MaxFees
      /\ now \in Nat /\ until[s] \in Nat
  BY Amounts DEF IInv, ResolvePending, SendInv, LabelInv, TypeOK
<1>2. PICK outcome \in Lookup(s) : Settle(s, outcome)
  BY DEF ResolvePending
<1>3. \/ outcome = net[s] /\ net[s] \in {"success", "failed"}
      \/ outcome = "not_included" /\ now > until[s] /\ net[s] \notin {"success", "failed"}
  BY <1>2 DEF Lookup
<1>4. PICK label \in {"over", "releaseCovered", "releaseBoth"} :
        /\ Goto(s, label)
        /\ label = "releaseCovered" => net[s] = "success"
        /\ label = "releaseBoth" => now > until[s] /\ net[s] \notin {"success", "failed"}
  BY <1>2, <1>3 DEF Settle, After
<1>5. LabelInv(s)' /\ label \in Labels
  BY <1>1, <1>4 DEF LabelInv, TypeOK, Goto, Labels, Chargeable, ResolvePending,
     sendVars, chainVars
<1>. QED BY <1>4, <1>5, LabelMoves DEF ResolvePending

-----------------------------------------------------------------------------
(* What becomes of the transaction. *)
LEMMA SendPreserves ==
  ASSUME IInv, NEW s \in Sends, Send(s) PROVE IInv'
<1>1. /\ TypeOK /\ SendInv(s) /\ pc[s] = "ready" /\ maxFee[s] \in MaxFees
      /\ HasUnpaid(s) /\ HasCovered(s)
  BY DEF IInv, Send, SendInv, LabelInv
<1>2. pc' \in [Sends -> Labels] /\ pc'[s] = "sent"
  BY <1>1 DEF TypeOK, Send, Goto, Labels
<1>3. /\ net' \in [Sends -> {"none", "queued", "rejected", "unlisted", "success", "failed"}]
      /\ net'[s] = "queued"
  BY <1>1 DEF TypeOK, Send
<1>4. TypeOK'
  BY <1>1, <1>2, <1>3 DEF TypeOK, Send, sendVars, ledgerVars, chainVars
<1>5. \A t \in Sends \ {s} : Alone(t)
  BY <1>1 DEF TypeOK, Send, Goto, Alone, sendVars, ledgerVars
<1>6. HasUnpaid(s)' /\ HasCovered(s)'
  BY <1>1 DEF Send, HasUnpaid, HasCovered, Budgeted, Unpaid, Covered, sendVars, ledgerVars
<1>7. LabelInv(s)' /\ RecordInv(s)'
  BY <1>1, <1>2, <1>6 DEF LabelInv, RecordInv, Send, sendVars
<1>8. PayInv(s)'
  BY <1>1 DEF SendInv, PayInv, Authorised, Send, sendVars, chainVars
<1>. QED BY <1>4, <1>5, <1>7, <1>8, OneMoves DEF SendInv, Send, chainVars

LEMMA RejectedPreserves ==
  ASSUME IInv, NEW s \in Sends, Rejected(s) PROVE IInv'
<1>1. TypeOK /\ SendInv(s) /\ pc[s] = "sent" /\ maxFee[s] \in MaxFees
  BY DEF IInv, Rejected, SendInv, LabelInv
<1>2. PICK label \in {"over", "releaseBoth"} : Goto(s, label)
  BY DEF Rejected, Settle, After
<1>3. pc' \in [Sends -> Labels] /\ pc'[s] = label
  BY <1>1, <1>2 DEF TypeOK, Goto, Labels
<1>4. /\ net' \in [Sends -> {"none", "queued", "rejected", "unlisted", "success", "failed"}]
      /\ net'[s] \in {"rejected", "unlisted"}
  BY <1>1 DEF TypeOK, Rejected
<1>5. TypeOK'
  BY <1>1, <1>3, <1>4 DEF TypeOK, Rejected, sendVars, ledgerVars, chainVars
<1>6. \A t \in Sends \ {s} : Alone(t)
  BY <1>1, <1>2 DEF TypeOK, Rejected, Goto, Alone, sendVars, ledgerVars
<1>7. LabelInv(s)' /\ RecordInv(s)'
  BY <1>1, <1>3, <1>4 DEF LabelInv, RecordInv, Chargeable, Rejected, sendVars
<1>8. PayInv(s)'
  BY <1>1, <1>3, <1>4 DEF SendInv, PayInv, Authorised, Rejected, sendVars, chainVars
<1>. QED BY <1>5, <1>6, <1>7, <1>8, OneMoves DEF SendInv, Rejected, chainVars

LEMMA IncludePreserves ==
  ASSUME IInv, NEW s \in Sends, NEW result \in {"success", "failed"},
         NEW charge \in MaxFees, Include(s, result, charge)
  PROVE  IInv'
<1>1. TypeOK /\ SendInv(s) /\ Chargeable(s) /\ net[s] = "queued"
  BY DEF IInv, Include, Chargeable
<1>2. /\ seq \in Nat /\ now \in Nat /\ txSeq[s] = seq /\ balance \in Int
      /\ charge \in Nat /\ OnChainFee \in Nat /\ maxFee[s] \in Nat
      /\ charge <= maxFee[s] /\ Floor \in Nat
  <2>1. charge \in Nat /\ OnChainFee \in Nat /\ Floor \in Nat
    BY Amounts
  <2>2. maxFee[s] \in Nat
    BY <1>1, Parts
  <2>. QED BY <1>1, <2>1, <2>2, Amounts DEF TypeOK, Include
<1>3. /\ net' \in [Sends -> {"none", "queued", "rejected", "unlisted", "success", "failed"}]
      /\ net'[s] = result /\ \A t \in Sends \ {s} : net'[t] = net[t]
  BY <1>1 DEF TypeOK, Include
<1>4. TypeOK'
  <2>1. fee' \in [Sends -> MaxFees \cup {0}] /\ landed' \in [Sends -> 0..MaxTime]
    BY <1>1 DEF TypeOK, Include
  <2>2. seq' \in Nat /\ balance' \in Int
    BY <1>2 DEF Include
  <2>. QED BY <1>1, <1>3, <2>1, <2>2 DEF TypeOK, Include, sendVars, ledgerVars
<1>5. \A t \in Sends \ {s} : SendInv(t)'
  <2>1. \A t \in Sends \ {s} : Alone(t)
    BY <1>3 DEF Include, Alone, sendVars, ledgerVars
  <2>2. Forwards /\ now' \in Nat /\ seq' \in Nat
    BY <1>2 DEF Include, Forwards
  <2>. QED BY <2>1, <2>2, AlonePreserves DEF IInv
<1>6. LabelInv(s)'
  BY <1>1, <1>3 DEF SendInv, LabelInv, Include, sendVars
<1>7. RecordInv(s)'
  <2>1. HasUnpaid(s)' /\ HasCovered(s)'
    BY <1>1 DEF SendInv, RecordInv, Include, HasUnpaid, HasCovered, Budgeted, Unpaid,
       Covered, sendVars, ledgerVars
  <2>. QED BY <2>1 DEF RecordInv
<1>8. PayInv(s)'
  BY <1>2 DEF PayInv, Include, sendVars
<1>9. FloorKept'
  <2>1. balance - maxFee[s] >= Floor
    BY <1>1, <1>2 DEF SendInv, PayInv, Authorised
  <2>2. balance' >= balance - charge
    BY <1>2 DEF Include
  <2>. QED BY <1>2, <1>4, <2>1, <2>2 DEF FloorKept, TypeOK
<1>. QED BY <1>4, <1>5, <1>6, <1>7, <1>8, <1>9 DEF IInv, SendInv

-----------------------------------------------------------------------------
LEMMA ReleaseCoveredPreserves ==
  ASSUME IInv, NEW s \in Sends, ReleaseCovered(s) PROVE IInv'
<1>1. /\ TypeOK /\ SendInv(s) /\ maxFee[s] \in MaxFees
      /\ pc[s] \in {"releaseCovered", "releaseBoth"}
  BY DEF IInv, ReleaseCovered, SendInv, LabelInv
<1>2. ~Chargeable(s) /\ net[s] # "failed"
  BY <1>1 DEF SendInv, LabelInv, Chargeable
<1>3. /\ UNCHANGED <<sendVars, unpaid, net, chainVars, now>>
      /\ doubtful' \in {doubtful, doubtful \cup {s}}
  BY DEF ReleaseCovered, Doubt
<1>4. PICK label \in {"releaseUnpaid", "over"} :
        Goto(s, label) /\ (label = "releaseUnpaid" => pc[s] = "releaseBoth")
  BY DEF ReleaseCovered
<1>5. /\ covered' \in [Sends -> Entry \cup {None}]
      /\ \A t \in Sends \ {s} : covered'[t] = covered[t]
  BY <1>1 DEF TypeOK, ReleaseCovered, Released
<1>6. pc' \in [Sends -> Labels] /\ pc'[s] = label
      /\ \A t \in Sends \ {s} : pc'[t] = pc[t]
  BY <1>1, <1>4 DEF TypeOK, Goto, Labels
<1>7. TypeOK'
  BY <1>1, <1>3, <1>5, <1>6 DEF TypeOK, sendVars, chainVars
<1>8. \A t \in Sends \ {s} : Alone(t)
  BY <1>3, <1>5, <1>6 DEF Alone, sendVars
<1>9. ~Chargeable(s)' /\ net'[s] # "failed"
  BY <1>2, <1>3 DEF Chargeable, sendVars, chainVars
<1>10. LabelInv(s)'
  BY <1>1, <1>3, <1>4, <1>6, <1>9 DEF SendInv, LabelInv, sendVars
<1>11. RecordInv(s)'
  <2>1. HasUnpaid(s)' = HasUnpaid(s)
    BY <1>3 DEF HasUnpaid, Budgeted, Unpaid, Covered, sendVars
  <2>. QED BY <1>1, <1>3, <1>9, <2>1 DEF SendInv, RecordInv
<1>12. PayInv(s)'
  BY <1>1, <1>3, <1>6 DEF SendInv, PayInv, Authorised, sendVars, chainVars
<1>. QED BY <1>3, <1>7, <1>8, <1>10, <1>11, <1>12, OneMoves DEF SendInv, chainVars

LEMMA ReleaseUnpaidPreserves ==
  ASSUME IInv, NEW s \in Sends, ReleaseUnpaid(s) PROVE IInv'
<1>1. /\ TypeOK /\ SendInv(s) /\ maxFee[s] \in MaxFees /\ pc[s] = "releaseUnpaid"
      /\ ~Chargeable(s) /\ net[s] \notin {"success", "failed"}
  BY DEF IInv, ReleaseUnpaid, SendInv, LabelInv
<1>2. /\ UNCHANGED <<sendVars, covered, net, chainVars, now>> /\ Goto(s, "over")
      /\ doubtful' \in {doubtful, doubtful \cup {s}}
  BY DEF ReleaseUnpaid, Doubt
<1>3. /\ unpaid' \in [Sends -> Entry \cup {None}]
      /\ \A t \in Sends \ {s} : unpaid'[t] = unpaid[t]
  BY <1>1 DEF TypeOK, ReleaseUnpaid, Released
<1>4. pc' \in [Sends -> Labels] /\ pc'[s] = "over"
      /\ \A t \in Sends \ {s} : pc'[t] = pc[t]
  BY <1>1, <1>2 DEF TypeOK, Goto, Labels
<1>5. TypeOK'
  BY <1>1, <1>2, <1>3, <1>4 DEF TypeOK, sendVars, chainVars
<1>6. \A t \in Sends \ {s} : Alone(t)
  BY <1>2, <1>3, <1>4 DEF Alone, sendVars
<1>7. ~Chargeable(s)' /\ net'[s] \notin {"success", "failed"}
  BY <1>1, <1>2 DEF Chargeable, sendVars, chainVars
<1>8. LabelInv(s)' /\ RecordInv(s)'
  BY <1>1, <1>2, <1>4, <1>7 DEF LabelInv, RecordInv, sendVars
<1>9. PayInv(s)'
  BY <1>1, <1>2, <1>4 DEF SendInv, PayInv, Authorised, sendVars, chainVars
<1>. QED BY <1>2, <1>5, <1>6, <1>8, <1>9, OneMoves DEF SendInv, chainVars

-----------------------------------------------------------------------------
(* Steps of no send. *)
LEMMA CrashPreserves == ASSUME IInv, Crash PROVE IInv'
<1>1. TypeOK
  BY DEF IInv
<1>2. PICK lost \in SUBSET {s \in Sends : pc[s] \notin {"new", "over"}} :
        /\ pc' = [s \in Sends |-> IF s \in lost THEN "over" ELSE pc[s]]
        /\ doubtful' = doubtful \cup lost
  BY DEF Crash
<1>3. UNCHANGED <<sendVars, ledgerVars, net, chainVars, now>>
  BY DEF Crash
<1>4. \A s \in Sends : pc'[s] \in {pc[s], "over"}
  BY <1>2
<1>5. TypeOK'
  <2>1. pc' \in [Sends -> Labels]
    BY <1>1, <1>2 DEF TypeOK, Labels
  <2>2. doubtful' \subseteq Sends
    BY <1>1, <1>2 DEF TypeOK
  <2>. QED BY <1>1, <1>3, <2>1, <2>2 DEF TypeOK, sendVars, ledgerVars, chainVars
<1>6. FloorKept'
  BY <1>3 DEF IInv, FloorKept, chainVars
<1>7. \A s \in Sends : SendInv(s)'
  <2> SUFFICES ASSUME NEW s \in Sends PROVE SendInv(s)'
    OBVIOUS
  <2>1. SendInv(s)
    BY DEF IInv
  <2>2. CASE pc'[s] = pc[s]
    <3>1. Alone(s)
      BY <1>3, <2>2 DEF Alone, sendVars, ledgerVars
    <3>2. Forwards /\ now' \in Nat /\ seq' \in Nat
      BY <1>1, <1>3, Amounts DEF TypeOK, Forwards, chainVars
    <3>. QED BY <1>1, <2>1, <3>1, <3>2, AlonePreserves
  <2>3. CASE pc'[s] = "over"
    <3>1. LabelInv(s)'
      BY <1>3, <2>1, <2>3 DEF SendInv, LabelInv, sendVars
    <3>2. RecordInv(s)'
      BY <1>3, <2>1 DEF SendInv, RecordInv, Chargeable, HasUnpaid, HasCovered, Budgeted,
         Unpaid, Covered, sendVars, ledgerVars, chainVars
    <3>3. PayInv(s)'
      BY <1>3, <2>1, <2>3 DEF SendInv, PayInv, Authorised, sendVars, chainVars
    <3>. QED BY <3>1, <3>2, <3>3 DEF SendInv
  <2>. QED BY <1>4, <2>2, <2>3
<1>. QED BY <1>5, <1>6, <1>7 DEF IInv

LEMMA TickPreserves == ASSUME IInv, Tick PROVE IInv'
<1>1. TypeOK
  BY DEF IInv
<1>2. now \in Nat /\ now' = now + 1 /\ now' \in 0..MaxTime
  BY <1>1, Amounts DEF TypeOK, Tick
<1>3. UNCHANGED <<pc, sendVars, ledgerVars, net, chainVars, doubtful>>
  BY DEF Tick
<1>4. TypeOK'
  BY <1>1, <1>2, <1>3 DEF TypeOK, sendVars, ledgerVars, chainVars
<1>5. FloorKept'
  BY <1>3 DEF IInv, FloorKept, chainVars
<1>6. \A s \in Sends : SendInv(s)'
  <2>1. \A s \in Sends : Alone(s)
    BY <1>3 DEF Alone, sendVars, ledgerVars
  <2>2. Forwards /\ now' \in Nat /\ seq' \in Nat
    BY <1>1, <1>2, <1>3 DEF TypeOK, Forwards, chainVars
  <2>. QED BY <1>1, <2>1, <2>2, AlonePreserves DEF IInv
<1>. QED BY <1>4, <1>5, <1>6 DEF IInv

LEMMA StutterPreserves == ASSUME IInv, UNCHANGED vars PROVE IInv'
BY DEF IInv, vars, sendVars, ledgerVars, chainVars, TypeOK, FloorKept, SendInv, LabelInv,
   RecordInv, PayInv, HasUnpaid, HasCovered, Budgeted, Unpaid, Covered, Authorised,
   Chargeable

LEMMA StepPreserves == ASSUME IInv, [Next]_vars PROVE IInv'
<1>1. ASSUME NEW s \in Sends,
             \/ \E f \in Fundings : Check(s, f)
             \/ \E m \in MaxFees : Build(s, m)
      PROVE  IInv'
  BY <1>1, CheckPreserves, BuildPreserves
<1>2. ASSUME NEW s \in Sends,
             \/ CheckBalance(s) \/ ReserveUnpaid(s) \/ ReserveCovered(s)
             \/ Withdraw(s) \/ Send(s) \/ Rejected(s) \/ Confirmed(s) \/ NoAnswer(s)
             \/ ResolvePending(s) \/ ReleaseCovered(s) \/ ReleaseUnpaid(s)
      PROVE  IInv'
  BY <1>2, CheckBalancePreserves, ReserveUnpaidPreserves, ReserveCoveredPreserves,
     WithdrawPreserves, SendPreserves, RejectedPreserves, ConfirmedPreserves,
     NoAnswerPreserves, ResolvePendingPreserves, ReleaseCoveredPreserves,
     ReleaseUnpaidPreserves
<1>3. ASSUME NEW s \in Sends, NEW result \in {"success", "failed"},
             NEW charge \in MaxFees, Include(s, result, charge)
      PROVE  IInv'
  BY <1>3, IncludePreserves
<1>4. CASE Crash
  BY <1>4, CrashPreserves
<1>5. CASE Tick
  BY <1>5, TickPreserves
<1>6. CASE UNCHANGED vars
  BY <1>6, StutterPreserves
<1>. QED BY <1>1, <1>2, <1>3, <1>4, <1>5, <1>6 DEF Next

LEMMA Invariance == Spec => []IInv
BY InitInv, StepPreserves, PTL DEF Spec

-----------------------------------------------------------------------------
(* The ledgers, the sends and the account are well typed, for any number   *)
(* of sends, whatever is refused, lost or killed.                          *)
THEOREM TypeCorrect == Spec => []TypeOK
<1>1. IInv => TypeOK
  BY DEF IInv
<1>. QED BY <1>1, Invariance, PTL

(* However sends interleave, and wherever processes die or answers are     *)
(* lost, the ledgers of spendLedger.ts hold an entry for every fee that    *)
(* the oracle was charged or still can be.                                 *)
THEOREM FeesRecorded == Spec => []ChargesRecorded
<1>1. IInv => ChargesRecorded
  BY DEF IInv, SendInv, RecordInv, ChargesRecorded, HasUnpaid, HasCovered, Budgeted
<1>. QED BY <1>1, Invariance, PTL

(* minBalanceStroops is never undercut: every send that the account's      *)
(* present sequence number lets in was authorised against the present      *)
(* balance.                                                                *)
THEOREM FloorNeverBroken == Spec => []FloorKept
<1>1. IInv => FloorKept
  BY DEF IInv
<1>. QED BY <1>1, Invariance, PTL

-----------------------------------------------------------------------------
(* The budgets *)

Ledger == [Sends -> Entry \cup {None}]

SpentAt(ledger, t) ==
  Total([s \in {r \in Sends : ledger[r] # None /\ t - ledger[r].at < Window} |->
           ledger[s].amount])

LEMMA SpentIs ==
  /\ Spent(unpaid) = SpentAt(unpaid, now) /\ Spent(covered) = SpentAt(covered, now)
  /\ Spent(unpaid)' = SpentAt(unpaid', now') /\ Spent(covered)' = SpentAt(covered', now')
BY DEF Spent, SpentAt, InWindow

(* Time and releases only make the window's sum smaller; a new entry adds  *)
(* its amount at most, whatever it replaces.                               *)
LEMMA SpentGrows ==
  ASSUME NEW l \in Ledger, NEW m \in Ledger, NEW t \in Nat, NEW u \in Nat, t <= u,
         NEW c, Summable(c),
         \A r \in Sends : m[r] # None =>
           m[r] = l[r] \/ (r \in DOMAIN c /\ m[r].amount = c[r])
  PROVE  SpentAt(m, u) <= SpentAt(l, t) + Total(c)
<1> DEFINE In(k, v) == {r \in Sends : k[r] # None /\ v - k[r].at < Window}
           f == [s \in In(l, t) |-> l[s].amount]
           g == [s \in In(m, u) |-> m[s].amount]
<1>1. \A k \in Ledger : \A r \in Sends :
        k[r] # None => k[r].at \in Nat /\ k[r].amount \in Nat
  BY Amounts DEF Ledger, Entry
<1>2. Summable(f) /\ Summable(g)
  BY <1>1 DEF Summable
<1>3. ASSUME NEW s \in DOMAIN g
      PROVE  g[s] <= Amount(f, s) + Amount(c, s)
  <2>1. s \in Sends /\ m[s] # None /\ u - m[s].at < Window /\ g[s] = m[s].amount
    OBVIOUS
  <2>2. g[s] \in Nat /\ Amount(f, s) \in Nat /\ Amount(c, s) \in Nat
    BY <1>2 DEF Summable, Amount
  <2>3. CASE m[s] = l[s]
    <3>1. m[s].at \in Nat /\ Window \in Nat
      BY <1>1, <2>1, Amounts
    <3>2. t - l[s].at < Window
      BY <2>1, <2>3, <3>1
    <3>3. s \in DOMAIN f /\ f[s] = g[s]
      BY <2>1, <2>3, <3>2
    <3>4. Amount(f, s) = g[s]
      BY <3>3 DEF Amount
    <3>. QED BY <2>2, <3>4
  <2>4. CASE s \in DOMAIN c /\ m[s].amount = c[s]
    <3>1. Amount(c, s) = g[s]
      BY <2>1, <2>4 DEF Amount
    <3>. QED BY <2>2, <3>1
  <2>. QED BY <2>1, <2>3, <2>4
<1> HIDE DEF f, g
<1>4. Total(g) <= Total(f) + Total(c)
  BY <1>2, <1>3, TotalSplits
<1>. QED BY <1>4 DEF SpentAt, f, g

LEMMA SpentTyped == ASSUME NEW l \in Ledger, NEW t PROVE SpentAt(l, t) \in Nat
<1> DEFINE f == [s \in {r \in Sends : l[r] # None /\ t - l[r].at < Window} |-> l[s].amount]
<1>1. Summable(f)
  BY DEF Summable, Ledger, Entry
<1> HIDE DEF f
<1>2. Total(f) \in Nat
  BY <1>1, UnitsFinite
<1>. QED BY <1>2 DEF SpentAt, f

(* A reservation that was made fitted. *)
LEMMA ReservedFits ==
  ASSUME NEW ledger, NEW s, NEW amount, NEW limit, NEW r \in TryReserve(ledger, s, amount, limit)
  PROVE  \/ r.after = ledger
         \/ r.after = Reserved(ledger, s, amount) /\ Fits(ledger, amount, limit)
BY DEF TryReserve

LEMMA OnlyLess ==
  ASSUME NEW l \in Ledger, NEW m \in Ledger, NEW t \in Nat, NEW u \in Nat, t <= u,
         \A r \in Sends : m[r] \in {l[r], None}
  PROVE  SpentAt(m, u) <= SpentAt(l, t) + 0
<1>1. SpentAt(m, u) <= SpentAt(l, t) + Total([s \in {} |-> 0])
  BY TotalOfNone, SpentGrows
<1>. QED BY <1>1, TotalOfNone

LEMMA OneMore ==
  ASSUME NEW l \in Ledger, NEW s \in Sends, NEW n \in Nat, now \in Nat,
         Reserved(l, s, n) \in Ledger
  PROVE  SpentAt(Reserved(l, s, n), now) <= SpentAt(l, now) + n
<1> DEFINE c == [t \in {s} |-> n]   m == Reserved(l, s, n)
<1>1. Summable(c) /\ Total(c) = n
  BY TotalOfOne
<1>2. \A r \in Sends : m[r] = l[r] \/ (r \in DOMAIN c /\ m[r].amount = c[r])
  BY DEF Reserved, Ledger
<1> HIDE DEF c, m
<1>3. SpentAt(m, now) <= SpentAt(l, now) + Total(c)
  BY <1>1, <1>2, SpentGrows DEF m
<1>. QED BY <1>1, <1>3 DEF m

LEMMA BudgetsStep ==
  ASSUME TypeOK, TypeOK', BudgetsKept, [Next]_vars
  PROVE  BudgetsKept'
<1>1. /\ unpaid \in Ledger /\ covered \in Ledger /\ now \in Nat
      /\ SpentAt(unpaid, now) \in Nat /\ SpentAt(covered, now) \in Nat
  <2>1. unpaid \in Ledger /\ covered \in Ledger /\ now \in Nat
    BY Amounts DEF TypeOK, Ledger
  <2>. QED BY <2>1, SpentTyped
<1>2. /\ unpaid' \in Ledger /\ covered' \in Ledger /\ now' \in Nat
      /\ SpentAt(unpaid', now') \in Nat /\ SpentAt(covered', now') \in Nat
  <2>1. unpaid' \in Ledger /\ covered' \in Ledger /\ now' \in Nat
    BY Amounts DEF TypeOK, Ledger
  <2>. QED BY <2>1, SpentTyped
<1>3. UnpaidBudget \in Nat /\ PaidBudget \in Nat
  BY Amounts
<1>4. SpentAt(unpaid, now) <= UnpaidBudget /\ SpentAt(covered, now) <= PaidBudget
  BY SpentIs DEF BudgetsKept
<1>5. ASSUME NEW s \in Sends, ReserveUnpaid(s)
      PROVE  SpentAt(unpaid', now') <= UnpaidBudget /\ SpentAt(covered', now') <= PaidBudget
  <2>1. covered' = covered /\ now' = now
    BY <1>5 DEF ReserveUnpaid
  <2>2. PICK r \in TryReserve(unpaid, s, Unpaid(s), UnpaidBudget) : unpaid' = r.after
    BY <1>5 DEF ReserveUnpaid
  <2>3. CASE unpaid' = unpaid
    BY <1>4, <2>1, <2>3
  <2>4. CASE unpaid' = Reserved(unpaid, s, Unpaid(s)) /\ Fits(unpaid, Unpaid(s), UnpaidBudget)
    <3>1. SpentAt(unpaid, now) + Unpaid(s) <= UnpaidBudget /\ Unpaid(s) \in Nat
      BY <2>4, SpentIs, Parts DEF Fits
    <3>2. SpentAt(unpaid', now) <= SpentAt(unpaid, now) + Unpaid(s)
      BY <1>1, <1>2, <2>4, <3>1, OneMore
    <3>. QED BY <1>1, <1>2, <1>3, <1>4, <2>1, <3>1, <3>2
  <2>. QED BY <2>2, <2>3, <2>4, ReservedFits
<1>6. ASSUME NEW s \in Sends, ReserveCovered(s)
      PROVE  SpentAt(unpaid', now') <= UnpaidBudget /\ SpentAt(covered', now') <= PaidBudget
  <2>1. unpaid' = unpaid /\ now' = now
    BY <1>6 DEF ReserveCovered
  <2>2. PICK r \in TryReserve(covered, s, Covered(s), PaidBudget) : covered' = r.after
    BY <1>6 DEF ReserveCovered
  <2>3. CASE covered' = covered
    BY <1>4, <2>1, <2>3
  <2>4. CASE covered' = Reserved(covered, s, Covered(s)) /\ Fits(covered, Covered(s), PaidBudget)
    <3>1. SpentAt(covered, now) + Covered(s) <= PaidBudget /\ Covered(s) \in Nat
      BY <2>4, SpentIs, Parts DEF Fits
    <3>2. SpentAt(covered', now) <= SpentAt(covered, now) + Covered(s)
      BY <1>1, <1>2, <2>4, <3>1, OneMore
    <3>. QED BY <1>1, <1>2, <1>3, <1>4, <2>1, <3>1, <3>2
  <2>. QED BY <2>2, <2>3, <2>4, ReservedFits
<1>7. ASSUME /\ \A r \in Sends : unpaid'[r] \in {unpaid[r], None}
             /\ \A r \in Sends : covered'[r] \in {covered[r], None}
             /\ now' >= now
      PROVE  SpentAt(unpaid', now') <= UnpaidBudget /\ SpentAt(covered', now') <= PaidBudget
  <2>1. SpentAt(unpaid', now') <= SpentAt(unpaid, now) + 0
    BY <1>1, <1>2, <1>7, OnlyLess
  <2>2. SpentAt(covered', now') <= SpentAt(covered, now) + 0
    BY <1>1, <1>2, <1>7, OnlyLess
  <2>. QED BY <1>1, <1>2, <1>3, <1>4, <2>1, <2>2
<1>8. ASSUME NEW s \in Sends, ReleaseCovered(s) \/ ReleaseUnpaid(s)
      PROVE  /\ \A r \in Sends : unpaid'[r] \in {unpaid[r], None}
             /\ \A r \in Sends : covered'[r] \in {covered[r], None}
             /\ now' >= now
  BY <1>1, <1>8 DEF ReleaseCovered, ReleaseUnpaid, Released, Ledger
<1>9. ASSUME UNCHANGED ledgerVars, now' >= now
      PROVE  SpentAt(unpaid', now') <= UnpaidBudget /\ SpentAt(covered', now') <= PaidBudget
  <2>1. /\ \A r \in Sends : unpaid'[r] \in {unpaid[r], None}
        /\ \A r \in Sends : covered'[r] \in {covered[r], None}
    BY <1>9 DEF ledgerVars
  <2>. QED BY <1>7, <1>9, <2>1
<1>10. SpentAt(unpaid', now') <= UnpaidBudget /\ SpentAt(covered', now') <= PaidBudget
  <2>1. ASSUME NEW s \in Sends,
               \/ CheckBalance(s) \/ Withdraw(s) \/ Send(s) \/ Rejected(s) \/ Confirmed(s)
               \/ NoAnswer(s) \/ ResolvePending(s)
               \/ \E f \in Fundings : Check(s, f)
               \/ \E m \in MaxFees : Build(s, m)
               \/ \E result \in {"success", "failed"}, charge \in MaxFees :
                    Include(s, result, charge)
        PROVE  UNCHANGED ledgerVars /\ now' >= now
    BY <1>1, <2>1 DEF CheckBalance, Withdraw, Send, Rejected, Confirmed, NoAnswer,
       ResolvePending, Check, Build, Include
  <2>2. ASSUME Crash \/ Tick \/ UNCHANGED vars
        PROVE  UNCHANGED ledgerVars /\ now' >= now
    BY <1>1, <2>2 DEF Crash, Tick, vars
  <2>3. CASE UNCHANGED ledgerVars /\ now' >= now
    BY <1>9, <2>3
  <2>4. CASE \E s \in Sends : ReserveUnpaid(s) \/ ReserveCovered(s)
    BY <1>5, <1>6, <2>4
  <2>5. CASE \E s \in Sends : ReleaseCovered(s) \/ ReleaseUnpaid(s)
    BY <1>7, <1>8, <2>5
  <2>. QED BY <2>1, <2>2, <2>3, <2>4, <2>5 DEF Next
<1>. QED BY <1>10, SpentIs DEF BudgetsKept

LEMMA BudgetsInitially == Init => BudgetsKept
<1> SUFFICES ASSUME Init PROVE BudgetsKept
  OBVIOUS
<1>1. \A s \in Sends : unpaid[s] = None /\ covered[s] = None
  BY DEF Init
<1>2. InWindow(unpaid) = {} /\ InWindow(covered) = {}
  BY <1>1 DEF InWindow
<1>3. [s \in InWindow(unpaid) |-> unpaid[s].amount] = [s \in {} |-> 0]
  BY <1>2
<1>4. [s \in InWindow(covered) |-> covered[s].amount] = [s \in {} |-> 0]
  BY <1>2
<1>5. Spent(unpaid) = 0 /\ Spent(covered) = 0
  BY <1>3, <1>4, TotalOfNone DEF Spent
<1>. QED BY <1>5, Amounts DEF BudgetsKept

(* Neither rolling window of spendLedger.ts ever holds more than its       *)
(* budget, whatever is reserved concurrently, refused, lost or released.   *)
THEOREM BudgetsNeverExceeded == Spec => []BudgetsKept
<1>1. IInv /\ IInv' /\ BudgetsKept /\ [Next]_vars => BudgetsKept'
  BY BudgetsStep DEF IInv
<1>. QED BY <1>1, BudgetsInitially, Invariance, PTL DEF Spec

-----------------------------------------------------------------------------
(* The loss *)

Unbuilt == {"new", "admitted"}

(* What the ledgers and the network know of a send fits together: entries  *)
(* are its parts, made when it was built or later, and it landed before    *)
(* its maxTime for its maximum fee at most.                                *)
FeeInv(s) ==
  /\ pc[s] \in Unbuilt => unpaid[s] = None /\ covered[s] = None
  /\ unpaid[s] # None => unpaid[s].amount = Unpaid(s) /\ until[s] <= unpaid[s].at + Validity
  /\ covered[s] # None => covered[s].amount = Covered(s) /\ until[s] <= covered[s].at + Validity
  /\ until[s] <= now + Validity
  /\ net[s] \in {"success", "failed"} => landed[s] <= until[s] /\ fee[s] <= maxFee[s]

FeesInv == \A s \in Sends : FeeInv(s)

(* What leaves the fees of a send alone: it may move on, and its entries   *)
(* may be released.                                                        *)
FeesAlone(s) ==
  /\ pc'[s] \in Unbuilt => pc[s] \in Unbuilt
  /\ funding'[s] = funding[s] /\ maxFee'[s] = maxFee[s] /\ until'[s] = until[s]
  /\ unpaid'[s] \in {unpaid[s], None} /\ covered'[s] \in {covered[s], None}
  /\ net'[s] \in {"success", "failed"} =>
       net[s] = net'[s] /\ fee'[s] = fee[s] /\ landed'[s] = landed[s]

LEMMA FeesAlonePreserves ==
  ASSUME TypeOK, TypeOK', NEW s \in Sends, FeeInv(s), FeesAlone(s), now' >= now
  PROVE  FeeInv(s)'
<1>1. now \in Nat /\ now' \in Nat /\ until[s] \in Nat /\ Validity \in Nat
  BY Amounts DEF TypeOK
<1>2. Unpaid(s)' = Unpaid(s) /\ Covered(s)' = Covered(s)
  BY DEF FeesAlone, Unpaid, Covered
<1>3. /\ pc'[s] \in Unbuilt => unpaid'[s] = None /\ covered'[s] = None
      /\ unpaid'[s] # None => unpaid'[s] = unpaid[s] /\ unpaid[s] # None
      /\ covered'[s] # None => covered'[s] = covered[s] /\ covered[s] # None
  BY DEF FeeInv, FeesAlone
<1>4. until'[s] <= now' + Validity
  BY <1>1 DEF FeeInv, FeesAlone
<1>5. net'[s] \in {"success", "failed"} => landed'[s] <= until'[s] /\ fee'[s] <= maxFee'[s]
  BY DEF FeeInv, FeesAlone
<1>. QED BY <1>2, <1>3, <1>4, <1>5 DEF FeeInv, FeesAlone

LEMMA FeesStep ==
  ASSUME IInv, IInv', FeesInv, [Next]_vars
  PROVE  FeesInv'
<1>1. TypeOK /\ TypeOK' /\ (\A s \in Sends : FeeInv(s) /\ LabelInv(s))
  BY DEF IInv, FeesInv, SendInv
<1>2. now \in Nat /\ now' \in Nat /\ Validity \in Nat
  BY <1>1, Amounts DEF TypeOK
<1>3. ASSUME NEW s \in Sends, now' >= now, \A t \in Sends \ {s} : FeesAlone(t), FeeInv(s)'
      PROVE  FeesInv'
  <2>1. \A t \in Sends \ {s} : FeeInv(t)'
    BY <1>1, <1>3, FeesAlonePreserves
  <2>. QED BY <1>3, <2>1 DEF FeesInv
<1>4. ASSUME now' >= now, \A t \in Sends : FeesAlone(t)
      PROVE  FeesInv'
  BY <1>1, <1>4, FeesAlonePreserves DEF FeesInv
<1>5. ASSUME NEW s \in Sends, NEW f \in Fundings, Check(s, f)
      PROVE  FeesInv'
  <2>1. \A t \in Sends \ {s} : FeesAlone(t)
    BY <1>1, <1>5 DEF Check, Goto, FeesAlone, TypeOK, ledgerVars, chainVars
  <2>2. FeeInv(s)'
    <3>1. unpaid'[s] = None /\ covered'[s] = None /\ net'[s] = "none"
      BY <1>1, <1>5 DEF Check, FeeInv, LabelInv, Unbuilt, ledgerVars
    <3>2. until'[s] <= now' + Validity
      BY <1>1, <1>5 DEF Check, FeeInv
    <3>. QED BY <3>1, <3>2 DEF FeeInv
  <2>3. now' >= now
    BY <1>2, <1>5 DEF Check
  <2>. QED BY <1>3, <2>1, <2>2, <2>3
<1>6. ASSUME NEW s \in Sends, NEW m \in MaxFees, Build(s, m)
      PROVE  FeesInv'
  <2>1. \A t \in Sends \ {s} : FeesAlone(t)
    BY <1>1, <1>6 DEF Build, Goto, FeesAlone, TypeOK, ledgerVars, chainVars
  <2>2. FeeInv(s)'
    <3>1. unpaid'[s] = None /\ covered'[s] = None /\ net'[s] = "none"
      BY <1>1, <1>6 DEF Build, FeeInv, LabelInv, Unbuilt, ledgerVars
    <3>2. until'[s] = now + Validity /\ now' = now
      BY <1>1, <1>6 DEF Build, ValidUntil, TypeOK
    <3>. QED BY <1>2, <3>1, <3>2 DEF FeeInv
  <2>3. now' >= now
    BY <1>2, <1>6 DEF Build
  <2>. QED BY <1>3, <2>1, <2>2, <2>3
<1>7. ASSUME NEW s \in Sends, ReserveUnpaid(s)
      PROVE  FeesInv'
  <2>1. /\ UNCHANGED <<sendVars, covered, net, chainVars, now>>
        /\ pc[s] = "unpaid" /\ pc'[s] \notin Unbuilt
        /\ \A t \in Sends \ {s} : pc'[t] = pc[t]
    BY <1>1, <1>7 DEF ReserveUnpaid, Goto, TypeOK, Unbuilt
  <2>2. PICK r \in TryReserve(unpaid, s, Unpaid(s), UnpaidBudget) : unpaid' = r.after
    BY <1>7 DEF ReserveUnpaid
  <2>3. unpaid' = unpaid \/ unpaid' = Reserved(unpaid, s, Unpaid(s))
    BY <2>2, ReservedFits
  <2>4. /\ \A t \in Sends \ {s} : unpaid'[t] = unpaid[t]
        /\ \/ unpaid'[s] = unpaid[s]
           \/ unpaid'[s].at = now /\ unpaid'[s].amount = Unpaid(s)
    BY <1>1, <2>3 DEF Reserved, TypeOK
  <2>5. \A t \in Sends \ {s} : FeesAlone(t)
    BY <2>1, <2>4 DEF FeesAlone, sendVars, chainVars
  <2>6. FeeInv(s)'
    <3>1. Unpaid(s)' = Unpaid(s) /\ Covered(s)' = Covered(s)
      BY <2>1 DEF Unpaid, Covered, sendVars
    <3>2. until'[s] = until[s] /\ until[s] <= now + Validity /\ now' = now
      BY <1>1, <2>1 DEF FeeInv, sendVars
    <3>3. unpaid'[s] # None =>
            unpaid'[s].amount = Unpaid(s)' /\ until'[s] <= unpaid'[s].at + Validity
      BY <1>1, <2>4, <3>1, <3>2 DEF FeeInv
    <3>. QED BY <1>1, <2>1, <3>1, <3>2, <3>3 DEF FeeInv, sendVars, chainVars
  <2>7. now' >= now
    BY <1>2, <2>1
  <2>. QED BY <1>3, <2>5, <2>6, <2>7
<1>8. ASSUME NEW s \in Sends, ReserveCovered(s)
      PROVE  FeesInv'
  <2>1. /\ UNCHANGED <<sendVars, unpaid, net, chainVars, now>>
        /\ pc[s] = "covered" /\ pc'[s] \notin Unbuilt
        /\ \A t \in Sends \ {s} : pc'[t] = pc[t]
    BY <1>1, <1>8 DEF ReserveCovered, Goto, TypeOK, Unbuilt
  <2>2. PICK r \in TryReserve(covered, s, Covered(s), PaidBudget) : covered' = r.after
    BY <1>8 DEF ReserveCovered
  <2>3. covered' = covered \/ covered' = Reserved(covered, s, Covered(s))
    BY <2>2, ReservedFits
  <2>4. /\ \A t \in Sends \ {s} : covered'[t] = covered[t]
        /\ \/ covered'[s] = covered[s]
           \/ covered'[s].at = now /\ covered'[s].amount = Covered(s)
    BY <1>1, <2>3 DEF Reserved, TypeOK
  <2>5. \A t \in Sends \ {s} : FeesAlone(t)
    BY <2>1, <2>4 DEF FeesAlone, sendVars, chainVars
  <2>6. FeeInv(s)'
    <3>1. Unpaid(s)' = Unpaid(s) /\ Covered(s)' = Covered(s)
      BY <2>1 DEF Unpaid, Covered, sendVars
    <3>2. until'[s] = until[s] /\ until[s] <= now + Validity /\ now' = now
      BY <1>1, <2>1 DEF FeeInv, sendVars
    <3>3. covered'[s] # None =>
            covered'[s].amount = Covered(s)' /\ until'[s] <= covered'[s].at + Validity
      BY <1>1, <2>4, <3>1, <3>2 DEF FeeInv
    <3>. QED BY <1>1, <2>1, <3>1, <3>2, <3>3 DEF FeeInv, sendVars, chainVars
  <2>7. now' >= now
    BY <1>2, <2>1
  <2>. QED BY <1>3, <2>5, <2>6, <2>7
<1>9. ASSUME NEW s \in Sends, NEW result \in {"success", "failed"},
             NEW charge \in MaxFees, Include(s, result, charge)
      PROVE  FeesInv'
  <2>1. \A t \in Sends \ {s} : FeesAlone(t)
    BY <1>1, <1>9 DEF Include, FeesAlone, TypeOK, sendVars, ledgerVars
  <2>2. FeeInv(s)'
    <3>1. Unpaid(s)' = Unpaid(s) /\ Covered(s)' = Covered(s)
      BY <1>9 DEF Include, Unpaid, Covered, sendVars
    <3>2. landed'[s] <= until'[s] /\ fee'[s] <= maxFee'[s]
      BY <1>1, <1>9 DEF Include, TypeOK, sendVars
    <3>. QED BY <1>1, <1>9, <3>1, <3>2 DEF Include, FeeInv, sendVars, ledgerVars
  <2>3. now' >= now
    BY <1>2, <1>9 DEF Include
  <2>. QED BY <1>3, <2>1, <2>2, <2>3
<1>10. ASSUME NEW s \in Sends, NEW label, Goto(s, label), label \notin Unbuilt,
             UNCHANGED <<sendVars, fee, landed, now>>,
             \A t \in Sends : net'[t] \in {net[t], "queued", "rejected", "unlisted"},
             \A t \in Sends : unpaid'[t] \in {unpaid[t], None},
             \A t \in Sends : covered'[t] \in {covered[t], None}
      PROVE  FeesInv'
  <2>1. \A t \in Sends : pc'[t] \in Unbuilt => pc[t] \in Unbuilt
    BY <1>1, <1>10 DEF Goto, TypeOK
  <2>2. \A t \in Sends : FeesAlone(t)
    BY <1>10, <2>1 DEF FeesAlone, sendVars
  <2>. QED BY <1>2, <1>4, <1>10, <2>2
<1>11. ASSUME NEW s \in Sends,
              \/ CheckBalance(s) \/ Withdraw(s) \/ Send(s) \/ Rejected(s) \/ Confirmed(s)
              \/ NoAnswer(s) \/ ResolvePending(s) \/ ReleaseCovered(s) \/ ReleaseUnpaid(s)
       PROVE  FeesInv'
  <2>1. \E label \in Labels \ Unbuilt : Goto(s, label)
    <3>1. FirstPart(s) \in Labels \ Unbuilt
      BY DEF FirstPart, Labels, Unbuilt
    <3>2. \A o \in {"success", "failed", "unknown", "not_included"} :
            After(s, o) \in Labels \ Unbuilt
      BY DEF After, Labels, Unbuilt
    <3>3. ASSUME NEW o, Settle(s, o), o \in {"success", "failed", "unknown", "not_included"}
          PROVE  \E label \in Labels \ Unbuilt : Goto(s, label)
      BY <3>2, <3>3 DEF Settle
    <3>4. {"over", "sent", "releaseUnpaid"} \subseteq Labels \ Unbuilt
      BY DEF Labels, Unbuilt
    <3>5. Lookup(s) \subseteq {"success", "failed", "not_included"}
      BY DEF Lookup
    <3>6. CASE CheckBalance(s)
      BY <3>1, <3>4, <3>6 DEF CheckBalance
    <3>7. CASE Send(s) \/ ReleaseCovered(s) \/ ReleaseUnpaid(s)
      BY <3>4, <3>7 DEF Send, ReleaseCovered, ReleaseUnpaid
    <3>8. CASE Withdraw(s) \/ Rejected(s) \/ Confirmed(s) \/ NoAnswer(s)
      BY <3>3, <3>8 DEF Withdraw, Rejected, Confirmed, NoAnswer
    <3>9. CASE ResolvePending(s)
      BY <3>3, <3>5, <3>9 DEF ResolvePending
    <3>. QED BY <1>11, <3>6, <3>7, <3>8, <3>9
  <2>2. UNCHANGED <<sendVars, fee, landed, now>>
    BY <1>11 DEF CheckBalance, Withdraw, Send, Rejected, Confirmed, NoAnswer,
       ResolvePending, ReleaseCovered, ReleaseUnpaid, chainVars
  <2>3. \A t \in Sends : net'[t] \in {net[t], "queued", "rejected", "unlisted"}
    BY <1>1, <1>11 DEF CheckBalance, Withdraw, Send, Rejected, Confirmed, NoAnswer,
       ResolvePending, ReleaseCovered, ReleaseUnpaid, TypeOK
  <2>4. /\ \A t \in Sends : unpaid'[t] \in {unpaid[t], None}
        /\ \A t \in Sends : covered'[t] \in {covered[t], None}
    BY <1>1, <1>11 DEF CheckBalance, Withdraw, Send, Rejected, Confirmed, NoAnswer,
       ResolvePending, ReleaseCovered, ReleaseUnpaid, Released, TypeOK, ledgerVars
  <2>. QED BY <1>10, <2>1, <2>2, <2>3, <2>4
<1>12. ASSUME Crash \/ Tick \/ UNCHANGED vars
       PROVE  FeesInv'
  <2>1. /\ UNCHANGED <<sendVars, ledgerVars, net, chainVars>> /\ now' >= now
        /\ \A t \in Sends : pc'[t] \in Unbuilt => pc[t] \in Unbuilt
    <3>1. CASE Crash
      BY <1>2, <3>1 DEF Crash, Unbuilt
    <3>2. CASE Tick \/ UNCHANGED vars
      BY <1>2, <3>2 DEF Tick, vars
    <3>. QED BY <1>12, <3>1, <3>2
  <2>2. \A t \in Sends : FeesAlone(t)
    BY <2>1 DEF FeesAlone, sendVars, ledgerVars, chainVars
  <2>. QED BY <1>4, <2>1, <2>2
<1>. QED BY <1>5, <1>7, <1>8, <1>9, <1>11, <1>12, <1>6 DEF Next

(* What the window holds for a send. *)
Held(ledger) == [s \in InWindow(ledger) |-> ledger[s].amount]

(* A fee that landed lately is still in the windows, as far as the         *)
(* contract has not paid it back.                                          *)
LEMMA LossRecorded ==
  ASSUME IInv, FeesInv, NEW s \in LandedLately
  PROVE  Loss(s) \in Nat /\ Loss(s) <= Amount(Held(unpaid), s) + Amount(Held(covered), s)
<1>1. /\ TypeOK /\ s \in Sends /\ funding[s] # "allowlisted"
      /\ net[s] \in {"success", "failed"} /\ now - landed[s] < Window - Validity
  BY DEF IInv, LandedLately
<1>2. /\ maxFee[s] \in Nat /\ Unpaid(s) \in Nat /\ Covered(s) \in Nat
      /\ Unpaid(s) + Covered(s) = maxFee[s] /\ OnChainFee \in Nat
  BY <1>1, Parts, Amounts DEF Unpaid
<1>3. fee[s] \in Nat /\ fee[s] <= maxFee[s]
  <2>1. fee[s] \in MaxFees \cup {0}
    BY <1>1 DEF TypeOK
  <2>2. \A m \in MaxFees : m \in Nat
    BY Amounts
  <2>3. CASE fee[s] \in MaxFees
    BY <1>1, <2>2, <2>3 DEF FeesInv, FeeInv
  <2>4. CASE fee[s] = 0
    BY <1>2, <2>4
  <2>. QED BY <2>1, <2>3, <2>4
<1>4. /\ now \in Nat /\ landed[s] \in Nat /\ until[s] \in Nat
      /\ Window \in Nat /\ Validity \in Nat /\ landed[s] <= until[s]
  BY <1>1, Amounts DEF TypeOK, FeesInv, FeeInv
<1>5. /\ Unpaid(s) > 0 => unpaid[s] # None
      /\ net[s] = "failed" /\ Covered(s) > 0 => covered[s] # None
  BY <1>1 DEF IInv, SendInv, RecordInv, HasUnpaid, HasCovered, Budgeted
<1>6. ASSUME NEW l \in {unpaid, covered}, l[s] # None, until[s] <= l[s].at + Validity
      PROVE  Amount(Held(l), s) = l[s].amount
  <2>1. l[s].at \in Nat
    BY <1>1, <1>6, Amounts DEF TypeOK, Entry
  <2>2. now - l[s].at < Window
    BY <1>1, <1>4, <1>6, <2>1
  <2>3. s \in InWindow(l)
    BY <1>1, <1>6, <2>2 DEF InWindow
  <2>. QED BY <2>3 DEF Amount, Held
<1>7. \A l \in {unpaid, covered} : Amount(Held(l), s) \in Nat
  BY <1>1 DEF Amount, Held, InWindow, TypeOK, Entry
<1>8. Unpaid(s) > 0 => Amount(Held(unpaid), s) = Unpaid(s)
  BY <1>1, <1>5, <1>6 DEF FeesInv, FeeInv
<1>9. net[s] = "failed" /\ Covered(s) > 0 => Amount(Held(covered), s) = Covered(s)
  BY <1>1, <1>5, <1>6 DEF FeesInv, FeeInv
<1>10. CASE net[s] = "failed"
  <2>1. Loss(s) = fee[s]
    BY <1>10 DEF Loss
  <2> DEFINE U == Unpaid(s)  C == Covered(s)  X == Amount(Held(unpaid), s)
             Y == Amount(Held(covered), s)
  <2>2. /\ U \in Nat /\ C \in Nat /\ X \in Nat /\ Y \in Nat /\ fee[s] \in Nat
        /\ fee[s] <= U + C /\ (U > 0 => X = U) /\ (C > 0 => Y = C)
    BY <1>2, <1>3, <1>7, <1>8, <1>9, <1>10
  <2> HIDE DEF U, C, X, Y
  <2>3. fee[s] <= X + Y
    BY <2>2
  <2>. QED BY <2>1, <2>2, <2>3 DEF X, Y
<1>11. CASE net[s] = "success"
  <2>1. Loss(s) = IF OnChainFee < fee[s] THEN fee[s] - OnChainFee ELSE 0
    BY <1>11 DEF Loss
  <2>2. Covered(s) <= OnChainFee
    BY <1>2 DEF Covered
  <2> DEFINE U == Unpaid(s)  C == Covered(s)  X == Amount(Held(unpaid), s)
             Y == Amount(Held(covered), s)  L == Loss(s)
  <2>3. /\ U \in Nat /\ C \in Nat /\ X \in Nat /\ Y \in Nat /\ fee[s] \in Nat
        /\ fee[s] <= U + C /\ (U > 0 => X = U) /\ C <= OnChainFee /\ OnChainFee \in Nat
        /\ L = IF OnChainFee < fee[s] THEN fee[s] - OnChainFee ELSE 0
    BY <1>2, <1>3, <1>7, <1>8, <2>1, <2>2
  <2> HIDE DEF U, C, X, Y, L
  <2>4. L \in Nat /\ L <= X + Y
    BY <2>3
  <2>. QED BY <2>4 DEF X, Y, L
<1>. QED BY <1>1, <1>10, <1>11

LEMMA LossWithinBudgets ==
  ASSUME IInv, FeesInv, BudgetsKept
  PROVE  LossBounded
<1> DEFINE losses == [s \in LandedLately |-> Loss(s)]
<1>1. TypeOK
  BY DEF IInv
<1>2. Summable(Held(unpaid)) /\ Summable(Held(covered))
  BY <1>1 DEF Summable, Held, InWindow, TypeOK, Entry
<1>3. \A s \in DOMAIN losses : losses[s] = Loss(s) /\ s \in LandedLately
  OBVIOUS
<1>4. DOMAIN losses \in SUBSET Sends
  BY DEF LandedLately
<1> HIDE DEF losses
<1>5. \A s \in DOMAIN losses :
        losses[s] \in Nat /\ losses[s] <= Amount(Held(unpaid), s) + Amount(Held(covered), s)
  BY <1>3, LossRecorded
<1>6. Summable(losses)
  BY <1>4, <1>5 DEF Summable
<1>7. Total(losses) <= Total(Held(unpaid)) + Total(Held(covered))
  BY <1>2, <1>5, <1>6, TotalSplits
<1>8. /\ Total(losses) \in Nat /\ Total(Held(unpaid)) \in Nat /\ Total(Held(covered)) \in Nat
  BY <1>2, <1>6, UnitsFinite
<1>9. Total(Held(unpaid)) <= UnpaidBudget /\ Total(Held(covered)) <= PaidBudget
  BY DEF BudgetsKept, Spent, Held
<1>10. Total(losses) <= UnpaidBudget + PaidBudget
  BY <1>7, <1>8, <1>9, Amounts
<1>. QED BY <1>10 DEF LossBounded, losses

LEMMA FeesInitially == Init => FeesInv
BY Amounts DEF Init, FeesInv, FeeInv

(* What the guard is for: within any period shorter than the window less   *)
(* the validity of a transaction, the oracle does not lose more than its   *)
(* two budgets, whatever a process forgets when it dies.                   *)
THEOREM LossAlwaysBounded == Spec => []LossBounded
<1>1. IInv /\ IInv' /\ FeesInv /\ [Next]_vars => FeesInv'
  BY FeesStep
<1>2. Spec => []FeesInv
  BY <1>1, FeesInitially, Invariance, PTL DEF Spec
<1>. QED BY <1>2, LossWithinBudgets, Invariance, BudgetsNeverExceeded, PTL

-----------------------------------------------------------------------------
(* Leaks *)

(* What a send that no ledger failed holds, by its label. *)
LeakInv(s) ==
  s \notin doubtful =>
    /\ pc[s] \in {"new", "admitted", "built", "unpaid"} \/ ~Budgeted(s) =>
         unpaid[s] = None /\ covered[s] = None
    /\ pc[s] \in {"covered", "releaseUnpaid"} => covered[s] = None
    /\ pc[s] = "covered" /\ ~(Unpaid(s) > 0) => unpaid[s] = None
    /\ pc[s] = "over" =>
         /\ net[s] \in {"none", "queued", "rejected"} => unpaid[s] = None /\ covered[s] = None
         /\ net[s] = "success" => covered[s] = None

LeaksInv == \A s \in Sends : LeakInv(s)

LEMMA ParsedAlike ==
  ASSUME NEW s \in Sends, UNCHANGED sendVars
  PROVE  /\ Budgeted(s)' = Budgeted(s) /\ Unpaid(s)' = Unpaid(s)
         /\ Covered(s)' = Covered(s)
BY DEF Budgeted, Unpaid, Covered, sendVars

(* A send other than the one that moves. *)
LEMMA LeakAlone ==
  ASSUME LeaksInv, NEW s \in Sends, doubtful \subseteq doubtful',
         \A t \in Sends \ {s} : Alone(t), LeakInv(s)'
  PROVE  LeaksInv'
<1>1. ASSUME NEW t \in Sends \ {s} PROVE LeakInv(t)'
  <2>1. Alone(t) /\ LeakInv(t)
    BY DEF LeaksInv
  <2>. QED BY <2>1 DEF LeakInv, Alone, Budgeted, Unpaid, Covered
<1>. QED BY <1>1 DEF LeaksInv

LEMMA CheckLeaks ==
  ASSUME IInv, LeaksInv, NEW s \in Sends, NEW f \in Fundings, Check(s, f)
  PROVE  LeaksInv'
<1>1. TypeOK /\ LeakInv(s)
  BY DEF IInv, LeaksInv
<1>2. \A t \in Sends \ {s} : Alone(t)
  BY <1>1 DEF TypeOK, Check, Goto, Alone, ledgerVars
<1>3. LeakInv(s)'
  <2>1. pc[s] = "new" /\ pc'[s] = "admitted"
    BY <1>1 DEF TypeOK, Check, Goto
  <2>2. UNCHANGED <<unpaid, covered, doubtful>>
    BY DEF Check, ledgerVars
  <2>. QED BY <1>1, <2>1, <2>2 DEF LeakInv
<1>. QED BY <1>2, <1>3, LeakAlone DEF Check

LEMMA BuildLeaks ==
  ASSUME IInv, LeaksInv, NEW s \in Sends, NEW m \in MaxFees, Build(s, m)
  PROVE  LeaksInv'
<1>1. TypeOK /\ LeakInv(s)
  BY DEF IInv, LeaksInv
<1>2. \A t \in Sends \ {s} : Alone(t)
  BY <1>1 DEF TypeOK, Build, Goto, Alone, ledgerVars
<1>3. LeakInv(s)'
  <2>1. pc[s] = "admitted" /\ pc'[s] = "built"
    BY <1>1 DEF TypeOK, Build, Goto
  <2>2. UNCHANGED <<unpaid, covered, doubtful>>
    BY DEF Build, ledgerVars
  <2>. QED BY <1>1, <2>1, <2>2 DEF LeakInv
<1>. QED BY <1>2, <1>3, LeakAlone DEF Build

(* Steps that leave the ledgers and the network alone. *)
LEMMA LabelLeaks ==
  ASSUME IInv, LeaksInv, NEW s \in Sends, NEW label, Goto(s, label),
         label \notin {"new", "admitted"}, UNCHANGED <<sendVars, ledgerVars, net, doubtful>>,
         label \in {"unpaid", "covered"} => pc[s] = "built",
         label # "built", label # "releaseUnpaid",
         label = "over" =>
           \/ pc[s] = "built" \/ ~Budgeted(s) \/ net[s] \in {"failed", "unlisted"}
  PROVE  LeaksInv'
<1>1. TypeOK /\ LeakInv(s)
  BY DEF IInv, LeaksInv
<1>2. \A t \in Sends \ {s} : Alone(t)
  BY <1>1 DEF TypeOK, Goto, Alone, sendVars, ledgerVars
<1>3. Budgeted(s)' = Budgeted(s) /\ Unpaid(s)' = Unpaid(s)
  BY ParsedAlike
<1>4. pc'[s] = label /\ UNCHANGED <<unpaid, covered>>
  BY <1>1 DEF TypeOK, Goto, ledgerVars
<1>5. LeakInv(s)'
  BY <1>1, <1>3, <1>4 DEF LeakInv
<1>. QED BY <1>2, <1>5, LeakAlone

LEMMA CheckBalanceLeaks ==
  ASSUME IInv, LeaksInv, NEW s \in Sends, CheckBalance(s) PROVE LeaksInv'
<1>1. PICK label \in {"unpaid", "covered", "ready", "over"} : Goto(s, label)
  BY DEF CheckBalance, FirstPart
<1>. QED BY <1>1, LabelLeaks DEF CheckBalance

LEMMA ReserveUnpaidLeaks ==
  ASSUME IInv, LeaksInv, NEW s \in Sends, ReserveUnpaid(s) PROVE LeaksInv'
<1>1. TypeOK /\ LeakInv(s) /\ LabelInv(s) /\ pc[s] = "unpaid"
  BY DEF IInv, LeaksInv, SendInv, ReserveUnpaid
<1>2. UNCHANGED <<sendVars, covered, net>>
  BY DEF ReserveUnpaid
<1>3. PICK r \in TryReserve(unpaid, s, Unpaid(s), UnpaidBudget) :
        /\ unpaid' = r.after
        /\ Doubt(s, ~r.ok /\ r.after # unpaid)
        /\ Goto(s, IF ~r.ok THEN "over" ELSE IF Covered(s) > 0 THEN "covered" ELSE "ready")
  BY DEF ReserveUnpaid
<1>4. \/ r.after = unpaid
      \/ r.after = Reserved(unpaid, s, Unpaid(s))
  BY TryReserveOutcomes
<1>5. doubtful \subseteq doubtful'
  BY <1>3 DEF Doubt
<1>6. \A t \in Sends \ {s} : Alone(t)
  <2>1. \A t \in Sends \ {s} : pc'[t] = pc[t]
    BY <1>1, <1>3 DEF TypeOK, Goto
  <2>2. unpaid' = unpaid \/ unpaid' = Reserved(unpaid, s, Unpaid(s))
    BY <1>3, <1>4
  <2>3. \A t \in Sends \ {s} : unpaid'[t] = unpaid[t]
    BY <1>1, <2>2 DEF TypeOK, Reserved
  <2>. QED BY <1>2, <2>1, <2>3 DEF Alone, sendVars
<1>7. Budgeted(s)' = Budgeted(s) /\ Unpaid(s)' = Unpaid(s) /\ Unpaid(s) > 0 /\ Budgeted(s)
  BY <1>1, <1>2, ParsedAlike DEF LabelInv
<1>8. LeakInv(s)'
  <2> SUFFICES ASSUME s \notin doubtful' PROVE LeakInv(s)'
    BY DEF LeakInv
  <2>1. s \notin doubtful /\ unpaid[s] = None /\ covered'[s] = None
    BY <1>1, <1>2, <1>5 DEF LeakInv
  <2>2. CASE r.ok
    <3>1. pc'[s] \in {"covered", "ready"}
      BY <1>1, <1>3, <2>2 DEF TypeOK, Goto
    <3>. QED BY <1>7, <2>1, <3>1 DEF LeakInv
  <2>3. CASE ~r.ok
    <3>1. pc'[s] = "over"
      BY <1>1, <1>3, <2>3 DEF TypeOK, Goto
    <3>2. unpaid' = unpaid
      BY <1>3, <2>3 DEF Doubt
    <3>. QED BY <1>7, <2>1, <3>1, <3>2 DEF LeakInv
  <2>. QED BY <2>2, <2>3
<1>. QED BY <1>5, <1>6, <1>8, LeakAlone

LEMMA ReserveCoveredLeaks ==
  ASSUME IInv, LeaksInv, NEW s \in Sends, ReserveCovered(s) PROVE LeaksInv'
<1>1. TypeOK /\ LeakInv(s) /\ LabelInv(s) /\ pc[s] = "covered"
  BY DEF IInv, LeaksInv, SendInv, ReserveCovered
<1>2. UNCHANGED <<sendVars, unpaid, net>>
  BY DEF ReserveCovered
<1>3. PICK r \in TryReserve(covered, s, Covered(s), PaidBudget) :
        /\ covered' = r.after
        /\ Doubt(s, ~r.ok /\ r.after # covered)
        /\ Goto(s, IF r.ok THEN "ready" ELSE IF Unpaid(s) > 0 THEN "releaseUnpaid" ELSE "over")
  BY DEF ReserveCovered
<1>4. \/ r.after = covered
      \/ r.after = Reserved(covered, s, Covered(s))
  BY TryReserveOutcomes
<1>5. doubtful \subseteq doubtful'
  BY <1>3 DEF Doubt
<1>6. \A t \in Sends \ {s} : Alone(t)
  <2>1. \A t \in Sends \ {s} : pc'[t] = pc[t]
    BY <1>1, <1>3 DEF TypeOK, Goto
  <2>2. covered' = covered \/ covered' = Reserved(covered, s, Covered(s))
    BY <1>3, <1>4
  <2>3. \A t \in Sends \ {s} : covered'[t] = covered[t]
    BY <1>1, <2>2 DEF TypeOK, Reserved
  <2>. QED BY <1>2, <2>1, <2>3 DEF Alone, sendVars
<1>7. Budgeted(s)' = Budgeted(s) /\ Unpaid(s)' = Unpaid(s) /\ Budgeted(s)
  BY <1>1, <1>2, ParsedAlike DEF LabelInv
<1>8. LeakInv(s)'
  <2> SUFFICES ASSUME s \notin doubtful' PROVE LeakInv(s)'
    BY DEF LeakInv
  <2>1. /\ s \notin doubtful /\ covered[s] = None
        /\ ~(Unpaid(s) > 0) => unpaid'[s] = None
    BY <1>1, <1>2, <1>5 DEF LeakInv
  <2>2. CASE r.ok
    <3>1. pc'[s] = "ready"
      BY <1>1, <1>3, <2>2 DEF TypeOK, Goto
    <3>. QED BY <1>7, <3>1 DEF LeakInv
  <2>3. CASE ~r.ok
    <3>1. pc'[s] = IF Unpaid(s) > 0 THEN "releaseUnpaid" ELSE "over"
      BY <1>1, <1>3, <2>3 DEF TypeOK, Goto
    <3>2. covered' = covered
      BY <1>3, <2>3 DEF Doubt
    <3>. QED BY <1>7, <2>1, <3>1, <3>2 DEF LeakInv
  <2>. QED BY <2>2, <2>3
<1>. QED BY <1>5, <1>6, <1>8, LeakAlone

LEMMA SettleLeaks ==
  ASSUME IInv, LeaksInv, NEW s \in Sends,
         Withdraw(s) \/ Confirmed(s) \/ NoAnswer(s) \/ ResolvePending(s)
  PROVE  LeaksInv'
<1>1. PICK outcome : Settle(s, outcome) /\ outcome \in {"success", "failed", "unknown", "not_included"}
                     /\ (outcome = "failed" => net[s] = "failed")
  BY DEF Withdraw, Confirmed, NoAnswer, ResolvePending, Lookup
<1>2. UNCHANGED <<sendVars, ledgerVars, net, doubtful>>
  BY DEF Withdraw, Confirmed, NoAnswer, ResolvePending
<1>3. /\ After(s, outcome) \in {"over", "pending", "releaseCovered", "releaseBoth"}
      /\ After(s, outcome) = "over" => ~Budgeted(s) \/ net[s] = "failed"
  BY <1>1 DEF After, Budgeted
<1>. QED BY <1>1, <1>2, <1>3, LabelLeaks DEF Settle

LEMMA SendLeaks ==
  ASSUME IInv, LeaksInv, NEW s \in Sends, Send(s) PROVE LeaksInv'
<1>1. TypeOK /\ LeakInv(s)
  BY DEF IInv, LeaksInv
<1>2. \A t \in Sends \ {s} : Alone(t)
  BY <1>1 DEF TypeOK, Send, Goto, Alone, sendVars, ledgerVars
<1>3. pc'[s] = "sent" /\ UNCHANGED <<unpaid, covered, doubtful>>
  BY <1>1 DEF TypeOK, Send, Goto, ledgerVars
<1>4. Budgeted(s)' = Budgeted(s)
  BY ParsedAlike DEF Send
<1>5. LeakInv(s)'
  BY <1>1, <1>3, <1>4 DEF LeakInv
<1>. QED BY <1>2, <1>3, <1>5, LeakAlone

LEMMA RejectedLeaks ==
  ASSUME IInv, LeaksInv, NEW s \in Sends, Rejected(s) PROVE LeaksInv'
<1>1. TypeOK /\ LeakInv(s)
  BY DEF IInv, LeaksInv
<1>2. PICK answer \in {"rejected", "unlisted"} :
        /\ net' = [net EXCEPT ![s] = answer]
        /\ Settle(s, IF answer = "rejected" THEN "not_included" ELSE "failed")
  BY DEF Rejected
<1>3. \A t \in Sends \ {s} : Alone(t)
  BY <1>1, <1>2 DEF TypeOK, Rejected, Settle, Goto, Alone, sendVars, ledgerVars
<1>4. UNCHANGED <<unpaid, covered, doubtful>> /\ net'[s] = answer
  BY <1>1, <1>2 DEF TypeOK, Rejected, ledgerVars
<1>5. Budgeted(s)' = Budgeted(s)
  BY ParsedAlike DEF Rejected
<1>6. /\ pc'[s] \in {"over", "releaseBoth"}
      /\ pc'[s] = "over" => ~Budgeted(s) \/ answer = "unlisted"
  BY <1>1, <1>2 DEF TypeOK, Settle, After, Goto, Budgeted
<1>7. LeakInv(s)'
  BY <1>1, <1>4, <1>5, <1>6 DEF LeakInv
<1>. QED BY <1>3, <1>4, <1>7, LeakAlone

LEMMA ReleaseLeaks ==
  ASSUME IInv, LeaksInv, NEW s \in Sends, ReleaseCovered(s) \/ ReleaseUnpaid(s)
  PROVE  LeaksInv'
<1>1. TypeOK /\ LeakInv(s) /\ LabelInv(s)
  BY DEF IInv, LeaksInv, SendInv
<1>2. doubtful \subseteq doubtful' /\ UNCHANGED <<sendVars, net>>
  BY DEF ReleaseCovered, ReleaseUnpaid, Doubt
<1>3. \A t \in Sends \ {s} : Alone(t)
  BY <1>1 DEF TypeOK, ReleaseCovered, ReleaseUnpaid, Released, Goto, Alone, sendVars
<1>4. Budgeted(s)' = Budgeted(s)
  BY <1>2, ParsedAlike
<1>5. CASE ReleaseCovered(s)
  <2>1. /\ pc'[s] = IF pc[s] = "releaseBoth" THEN "releaseUnpaid" ELSE "over"
        /\ pc[s] \in {"releaseCovered", "releaseBoth"}
        /\ UNCHANGED unpaid
    BY <1>1, <1>5 DEF TypeOK, ReleaseCovered, Goto
  <2>2. s \notin doubtful' => covered'[s] = None
    BY <1>5 DEF ReleaseCovered, Doubt
  <2>3. pc[s] = "releaseCovered" => net'[s] = "success"
    BY <1>1, <1>2 DEF LabelInv
  <2>4. LeakInv(s)'
    BY <1>1, <1>2, <1>4, <2>1, <2>2, <2>3 DEF LeakInv
  <2>. QED BY <1>2, <1>3, <2>4, LeakAlone
<1>6. CASE ReleaseUnpaid(s)
  <2>1. pc[s] = "releaseUnpaid" /\ pc'[s] = "over" /\ UNCHANGED covered
    BY <1>1, <1>6 DEF TypeOK, ReleaseUnpaid, Goto
  <2>2. s \notin doubtful' => unpaid'[s] = None
    BY <1>6 DEF ReleaseUnpaid, Doubt
  <2>3. LeakInv(s)'
    BY <1>1, <1>2, <1>4, <2>1, <2>2 DEF LeakInv
  <2>. QED BY <1>2, <1>3, <2>3, LeakAlone
<1>. QED BY <1>5, <1>6

LEMMA IncludeLeaks ==
  ASSUME IInv, LeaksInv, NEW s \in Sends, NEW result \in {"success", "failed"},
         NEW charge \in MaxFees, Include(s, result, charge)
  PROVE  LeaksInv'
<1>1. TypeOK /\ LeakInv(s) /\ net[s] = "queued"
  BY DEF IInv, LeaksInv, Include
<1>2. UNCHANGED <<pc, sendVars, unpaid, covered, doubtful>>
  BY DEF Include, ledgerVars
<1>3. \A t \in Sends \ {s} : Alone(t)
  BY <1>1, <1>2 DEF TypeOK, Include, Alone, sendVars
<1>4. Budgeted(s)' = Budgeted(s) /\ Unpaid(s)' = Unpaid(s)
  BY <1>2, ParsedAlike
<1>5. LeakInv(s)'
  BY <1>1, <1>2, <1>4 DEF LeakInv
<1>. QED BY <1>2, <1>3, <1>5, LeakAlone

LEMMA CrashLeaks == ASSUME LeaksInv, Crash PROVE LeaksInv'
<1>1. PICK lost \in SUBSET {s \in Sends : pc[s] \notin {"new", "over"}} :
        /\ pc' = [s \in Sends |-> IF s \in lost THEN "over" ELSE pc[s]]
        /\ doubtful' = doubtful \cup lost
  BY DEF Crash
<1>2. UNCHANGED <<sendVars, unpaid, covered, net>>
  BY DEF Crash, ledgerVars
<1>3. ASSUME NEW s \in Sends, s \notin doubtful' PROVE LeakInv(s)'
  <2>1. pc'[s] = pc[s] /\ s \notin doubtful /\ LeakInv(s)
    BY <1>1, <1>3 DEF LeaksInv
  <2>2. Budgeted(s)' = Budgeted(s) /\ Unpaid(s)' = Unpaid(s)
    BY <1>2, ParsedAlike
  <2>. QED BY <1>2, <2>1, <2>2 DEF LeakInv
<1>4. \A s \in Sends : LeakInv(s)'
  BY <1>3 DEF LeakInv
<1>. QED BY <1>4 DEF LeaksInv

LEMMA LeaksStep ==
  ASSUME IInv, LeaksInv, [Next]_vars
  PROVE  LeaksInv'
<1>1. ASSUME NEW s \in Sends,
             \/ \E f \in Fundings : Check(s, f)
             \/ \E m \in MaxFees : Build(s, m)
      PROVE  LeaksInv'
  BY <1>1, CheckLeaks, BuildLeaks
<1>2. ASSUME NEW s \in Sends,
             \/ CheckBalance(s) \/ ReserveUnpaid(s) \/ ReserveCovered(s)
             \/ Withdraw(s) \/ Send(s) \/ Rejected(s) \/ Confirmed(s) \/ NoAnswer(s)
             \/ ResolvePending(s) \/ ReleaseCovered(s) \/ ReleaseUnpaid(s)
      PROVE  LeaksInv'
  BY <1>2, CheckBalanceLeaks, ReserveUnpaidLeaks, ReserveCoveredLeaks, SettleLeaks,
     SendLeaks, RejectedLeaks, ReleaseLeaks
<1>3. ASSUME NEW s \in Sends, NEW result \in {"success", "failed"},
             NEW charge \in MaxFees, Include(s, result, charge)
      PROVE  LeaksInv'
  BY <1>3, IncludeLeaks
<1>4. CASE Crash
  BY <1>4, CrashLeaks
<1>5. CASE Tick \/ UNCHANGED vars
  <2>1. UNCHANGED <<pc, sendVars, unpaid, covered, net, doubtful>>
    BY <1>5 DEF Tick, vars, ledgerVars
  <2>2. \A s \in Sends : Budgeted(s)' = Budgeted(s) /\ Unpaid(s)' = Unpaid(s)
    BY <2>1, ParsedAlike
  <2>. QED BY <2>1, <2>2 DEF LeaksInv, LeakInv
<1>. QED BY <1>1, <1>2, <1>3, <1>4, <1>5 DEF Next

(* Every way out of authorizeSend() and settleSend() gives back what it    *)
(* must: whichever ledger refuses, whenever the lease is lost, however     *)
(* late the outcome is learnt, a send that cost nothing leaves no entry in *)
(* spendLedger.ts, unless a ledger failed it or its process died.          *)
THEOREM ReservationsReturned == Spec => []NothingLeaks
<1>1. Init => LeaksInv
  BY DEF Init, LeaksInv, LeakInv
<1>2. IInv /\ LeaksInv /\ [Next]_vars => LeaksInv'
  BY LeaksStep
<1>3. LeaksInv => NothingLeaks
  BY DEF LeaksInv, LeakInv, NothingLeaks
<1>. QED BY <1>1, <1>2, <1>3, Invariance, PTL DEF Spec
=============================================================================
