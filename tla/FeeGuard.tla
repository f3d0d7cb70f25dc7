------------------------------ MODULE FeeGuard ------------------------------
(***************************************************************************)
(* What the oracle risks in network fees: feeGuard.ts and spendLedger.ts   *)
(* as submitFulfillment() of fulfiller.ts uses them for each transaction   *)
(* it sends, against the network that includes it, refuses it or never     *)
(* answers.  Sends run concurrently, in one process or in several: they    *)
(* share the ledgers, the account and its balance.  Which process a send   *)
(* belongs to matters only when one crashes.                               *)
(*                                                                         *)
(* A ledger entry stays in the map until it is released; those that have   *)
(* left the window are skipped when the window is summed, which is where   *)
(* the code drops them.                                                    *)
(***************************************************************************)
EXTENDS Integers, FiniteSets

CONSTANTS
  Sends,          \* transactions, known by their hashes
  MaxFees,        \* maximum fees of assembled transactions
  OnChainFee,     \* FeeAmount if the fee token is native XLM, or else 0
  Cost,           \* fulfillCostStroops
  UnpaidBudget,   \* unpaidBudgetStroops
  PaidBudget,     \* paidFailureBudgetStroops
  Floor,          \* minBalanceStroops
  InitialBalance, \* of the oracle's account
  Window,         \* the rolling window of both ledgers
  Validity,       \* from building a transaction to its maxTime
  MaxTime,        \* bound on the clock
  None

ASSUME Amounts ==
  /\ IsFiniteSet(Sends)
  /\ MaxFees \subseteq Nat \ {0}
  /\ OnChainFee \in Nat /\ Cost \in Nat /\ Floor \in Nat
  /\ UnpaidBudget \in Nat /\ PaidBudget \in Nat
  /\ InitialBalance \in Nat /\ InitialBalance >= Floor
  /\ Window \in Nat /\ Validity \in Nat /\ MaxTime \in Nat

VARIABLES
  pc,       \* how far each send has come
  funding,  \* how its request is funded
  maxFee,   \* its envelope's fee
  txSeq,    \* the account sequence it was built on
  until,    \* its maxTime
  unpaid,   \* its entry in `ledger', or None
  covered,  \* its entry in `paidLedger', or None
  net,      \* what the network did with it
  fee,      \* the fee it was charged
  landed,   \* when
  seq,      \* the account's sequence number
  balance,  \* the account's balance
  now,
  doubtful  \* history: sends a ledger failed, or whose process died

sendVars   == <<funding, maxFee, txSeq, until>>
ledgerVars == <<unpaid, covered>>
chainVars  == <<fee, landed, seq, balance>>
vars == <<pc, sendVars, ledgerVars, net, chainVars, now, doubtful>>

(* How a request can be funded. *)
Fundings ==
  {"allowlisted", "budget"} \cup (IF OnChainFee >= Cost THEN {"paid"} ELSE {})
Labels ==
  {"new", "admitted", "built", "unpaid", "covered", "ready", "sent", "pending",
   "releaseCovered", "releaseBoth", "releaseUnpaid", "over"}
Entry == [at : 0..MaxTime, amount : Nat \ {0}]

ASSUME NoneIsNoEntry == None \notin Entry

Goto(s, label) == pc' = [pc EXCEPT ![s] = label]

-----------------------------------------------------------------------------
(* The two parts of a maximum fee. *)
Covered(s) ==
  IF funding[s] # "paid" THEN 0
  ELSE IF OnChainFee < maxFee[s] THEN OnChainFee ELSE maxFee[s]
Unpaid(s) == maxFee[s] - Covered(s)

(* The ledgers. *)
InWindow(ledger) == {s \in Sends : ledger[s] # None /\ now - ledger[s].at < Window}

(* A sum of amounts is the number of all their units. *)
Units(amounts) == UNION {{s} \X (1..amounts[s]) : s \in DOMAIN amounts}
Total(amounts) == Cardinality(Units(amounts))

Spent(ledger) == Total([s \in InWindow(ledger) |-> ledger[s].amount])

(* Mutant: what is spent already is compared, without the new amount. *)
FitsLast(ledger, amount, limit) == Spent(ledger) <= limit

Fits(ledger, amount, limit) == Spent(ledger) + amount <= limit

Reserved(ledger, s, amount) ==
  [ledger EXCEPT ![s] = [at |-> now, amount |-> amount]]
Released(ledger, s) == [ledger EXCEPT ![s] = None]

Doubt(s, justified) == doubtful' = IF justified THEN doubtful \cup {s} ELSE doubtful

(* tryReserve(): refused or not executed; reserved; reserved, but the      *)
(* answer is lost or unreadable, which the caller takes for a failure.     *)
TryReserve(ledger, s, amount, limit) ==
  {[ok |-> FALSE, after |-> ledger]} \cup
  {[ok |-> heard, after |-> Reserved(ledger, s, amount)] :
     heard \in {h \in BOOLEAN : Fits(ledger, amount, limit)}}

-----------------------------------------------------------------------------
(* What check() asks of a request that is funded as f.  A paid request     *)
(* whose fee cannot be read falls through to the list and the budget.      *)
Admits(f) ==
  CASE f = "paid" -> OnChainFee >= Cost /\ Spent(covered) + Cost <= PaidBudget
    [] f = "allowlisted" -> TRUE
    [] f = "budget" -> Spent(unpaid) + Cost <= UnpaidBudget

(* check() records nothing: a refusal leaves no trace, and what it found   *)
(* may have changed when the transaction is sent.  The balance it reads is *)
(* cached, so its floor tells nothing of the balance there is.  A retry is *)
(* a send that was admitted early.                                         *)
Check(s, f) ==
  /\ pc[s] = "new"
  /\ Admits(f)
  /\ Goto(s, "admitted")
  /\ funding' = [funding EXCEPT ![s] = f]
  /\ UNCHANGED <<maxFee, txSeq, until, ledgerVars, net, chainVars, now, doubtful>>

(* maxTime of a transaction that is built now. *)
ValidUntil == now + Validity

(* getAccount(), the simulation and the checks before the fee guard. *)
Build(s, m) ==
  /\ pc[s] = "admitted"
  /\ Goto(s, "built")
  /\ maxFee' = [maxFee EXCEPT ![s] = m]
  /\ txSeq' = [txSeq EXCEPT ![s] = seq]
  /\ until' = [until EXCEPT ![s] = ValidUntil]
  /\ UNCHANGED <<funding, ledgerVars, net, chainVars, now, doubtful>>

(* Mutant: the fee about to be paid is left out of account. *)
CanPayNothing(s) == balance >= Floor

CanPay(s) == balance - maxFee[s] >= Floor

(* Mutant: parts of a fee are reserved even when they are empty. *)
FirstPartAlways(s) == IF funding[s] = "allowlisted" THEN "ready" ELSE "unpaid"

FirstPart(s) ==
  CASE funding[s] = "allowlisted" -> "ready"
    [] funding[s] # "allowlisted" /\ Unpaid(s) > 0 -> "unpaid"
    [] OTHER -> "covered"

(* authorizeSend(): the balance is read; a simulation error, a resource    *)
(* bound, lost leadership or a balance that is too low or unreadable ends  *)
(* the attempt.                                                            *)
CheckBalance(s) ==
  /\ pc[s] = "built"
  /\ \/ CanPay(s) /\ Goto(s, FirstPart(s))
     \/ Goto(s, "over")
  /\ UNCHANGED <<sendVars, ledgerVars, net, chainVars, now, doubtful>>

(* The unpaid part, on `ledger'. *)
ReserveUnpaid(s) ==
  /\ pc[s] = "unpaid"
  /\ \E r \in TryReserve(unpaid, s, Unpaid(s), UnpaidBudget) :
       /\ unpaid' = r.after
       /\ Doubt(s, ~r.ok /\ r.after # unpaid)
       /\ Goto(s, IF ~r.ok THEN "over" ELSE IF Covered(s) > 0 THEN "covered" ELSE "ready")
  /\ UNCHANGED <<sendVars, covered, net, chainVars, now>>

(* Mutant: a failure leaves the unpaid part reserved. *)
ReserveCoveredAlone(s) ==
  /\ pc[s] = "covered"
  /\ \E r \in TryReserve(covered, s, Covered(s), PaidBudget) :
       /\ covered' = r.after
       /\ Doubt(s, ~r.ok /\ r.after # covered)
       /\ Goto(s, IF r.ok THEN "ready" ELSE "over")
  /\ UNCHANGED <<sendVars, unpaid, net, chainVars, now>>

(* The covered part, on `paidLedger'; a failure undoes the unpaid part. *)
ReserveCovered(s) ==
  /\ pc[s] = "covered"
  /\ \E r \in TryReserve(covered, s, Covered(s), PaidBudget) :
       /\ covered' = r.after
       /\ Doubt(s, ~r.ok /\ r.after # covered)
       /\ Goto(s, IF r.ok THEN "ready" ELSE IF Unpaid(s) > 0 THEN "releaseUnpaid" ELSE "over")
  /\ UNCHANGED <<sendVars, unpaid, net, chainVars, now>>

-----------------------------------------------------------------------------
(* Mutant: a failed transaction is settled like a successful one. *)
AfterFailureReleased(s, outcome) ==
  CASE funding[s] = "allowlisted" -> "over"
    [] funding[s] # "allowlisted" /\ outcome = "unknown" -> "pending"
    [] funding[s] # "allowlisted" /\ outcome \in {"success", "failed"} -> "releaseCovered"
    [] OTHER -> "releaseBoth"

(* settleSend(): what is left to do for an outcome.  An allowlisted send   *)
(* has reserved nothing.                                                   *)
After(s, outcome) ==
  CASE funding[s] = "allowlisted" \/ outcome = "failed" -> "over"
    [] funding[s] # "allowlisted" /\ outcome = "unknown" -> "pending"
    [] funding[s] # "allowlisted" /\ outcome = "success" -> "releaseCovered"
    [] funding[s] # "allowlisted" /\ outcome = "not_included" -> "releaseBoth"

Settle(s, outcome) == Goto(s, After(s, outcome))

(* Mutant: a send that is not made keeps what was reserved for it. *)
WithdrawQuietly(s) ==
  /\ pc[s] = "ready"
  /\ Goto(s, "over")
  /\ UNCHANGED <<sendVars, ledgerVars, net, chainVars, now, doubtful>>

(* The send cap is reached, or leadership is lost, after the reservation. *)
Withdraw(s) ==
  /\ pc[s] = "ready"
  /\ Settle(s, "not_included")
  /\ UNCHANGED <<sendVars, ledgerVars, net, chainVars, now, doubtful>>

Send(s) ==
  /\ pc[s] = "ready"
  /\ Goto(s, "sent")
  /\ net' = [net EXCEPT ![s] = "queued"]
  /\ UNCHANGED <<sendVars, ledgerVars, chainVars, now, doubtful>>

(* TRY_AGAIN_LATER, or ERROR with a listed code or with another one. *)
Rejected(s) ==
  /\ pc[s] = "sent" /\ net[s] = "queued"
  /\ \E answer \in {"rejected", "unlisted"} :
       /\ net' = [net EXCEPT ![s] = answer]
       /\ Settle(s, IF answer = "rejected" THEN "not_included" ELSE "failed")
  /\ UNCHANGED <<sendVars, ledgerVars, chainVars, now, doubtful>>

(* pollTransaction() *)
Confirmed(s) ==
  /\ pc[s] = "sent" /\ net[s] \in {"success", "failed"}
  /\ Settle(s, net[s])
  /\ UNCHANGED <<sendVars, ledgerVars, net, chainVars, now, doubtful>>

(* sendTransaction() or getTransaction() throws, or polling times out. *)
NoAnswer(s) ==
  /\ pc[s] = "sent"
  /\ Settle(s, "unknown")
  /\ UNCHANGED <<sendVars, ledgerVars, net, chainVars, now, doubtful>>

(* Mutant: a transaction that is not found is taken never to land. *)
LookupNotFound(s) ==
  IF net[s] \in {"success", "failed"} THEN {net[s]} ELSE {"not_included"}

(* What getTransaction() lets resolvePending() conclude, if anything. *)
Lookup(s) ==
  IF net[s] \in {"success", "failed"} THEN {net[s]}
  ELSE {o \in {"not_included"} : now > until[s]}

ResolvePending(s) ==
  /\ pc[s] = "pending"
  /\ \E outcome \in Lookup(s) : Settle(s, outcome)
  /\ UNCHANGED <<sendVars, ledgerVars, net, chainVars, now, doubtful>>

(* safeRelease(): the entry is gone, or the release has failed. *)
ReleaseCovered(s) ==
  /\ pc[s] \in {"releaseCovered", "releaseBoth"}
  /\ covered' \in {covered, Released(covered, s)}
  /\ Doubt(s, covered'[s] # None)
  /\ Goto(s, IF pc[s] = "releaseBoth" THEN "releaseUnpaid" ELSE "over")
  /\ UNCHANGED <<sendVars, unpaid, net, chainVars, now>>

ReleaseUnpaid(s) ==
  /\ pc[s] = "releaseUnpaid"
  /\ unpaid' \in {unpaid, Released(unpaid, s)}
  /\ Doubt(s, unpaid'[s] # None)
  /\ Goto(s, "over")
  /\ UNCHANGED <<sendVars, covered, net, chainVars, now>>

-----------------------------------------------------------------------------
(* A process dies with its sends, pending ones included. *)
Crash ==
  \E lost \in SUBSET {s \in Sends : pc[s] \notin {"new", "over"}} :
    /\ lost # {}
    /\ pc' = [s \in Sends |-> IF s \in lost THEN "over" ELSE pc[s]]
    /\ doubtful' = doubtful \cup lost
    /\ UNCHANGED <<sendVars, ledgerVars, net, chainVars, now>>

(* A ledger includes a transaction: its sequence number is the account's   *)
(* next and its maxTime has not passed.  A fulfilled request pays the      *)
(* oracle.                                                                 *)
Include(s, result, charge) ==
  /\ net[s] = "queued" /\ txSeq[s] = seq /\ now <= until[s]
  /\ charge <= maxFee[s]
  /\ net' = [net EXCEPT ![s] = result]
  /\ fee' = [fee EXCEPT ![s] = charge]
  /\ landed' = [landed EXCEPT ![s] = now]
  /\ seq' = seq + 1
  /\ balance' = balance - charge + (IF result = "success" THEN OnChainFee ELSE 0)
  /\ UNCHANGED <<pc, sendVars, ledgerVars, now, doubtful>>

Tick ==
  /\ now < MaxTime
  /\ now' = now + 1
  /\ UNCHANGED <<pc, sendVars, ledgerVars, net, chainVars, doubtful>>

-----------------------------------------------------------------------------
Init ==
  /\ pc = [s \in Sends |-> "new"]
  /\ funding = [s \in Sends |-> "budget"]
  /\ maxFee = [s \in Sends |-> 0]
  /\ txSeq = [s \in Sends |-> 0]
  /\ until = [s \in Sends |-> 0]
  /\ unpaid = [s \in Sends |-> None]
  /\ covered = [s \in Sends |-> None]
  /\ net = [s \in Sends |-> "none"]
  /\ fee = [s \in Sends |-> 0]
  /\ landed = [s \in Sends |-> 0]
  /\ seq = 0
  /\ balance = InitialBalance
  /\ now = 0 /\ doubtful = {}

Next ==
  \/ \E s \in Sends :
       \/ \E f \in Fundings : Check(s, f)
       \/ \E m \in MaxFees : Build(s, m)
       \/ CheckBalance(s) \/ ReserveUnpaid(s) \/ ReserveCovered(s)
       \/ Withdraw(s) \/ Send(s) \/ Rejected(s) \/ Confirmed(s) \/ NoAnswer(s)
       \/ ResolvePending(s) \/ ReleaseCovered(s) \/ ReleaseUnpaid(s)
       \/ \E result \in {"success", "failed"}, charge \in MaxFees :
            Include(s, result, charge)
  \/ Crash
  \/ Tick

Spec == Init /\ [][Next]_vars

-----------------------------------------------------------------------------
(* Properties *)

(* Type invariant. *)
TypeOK ==
  /\ pc \in [Sends -> Labels]
  /\ funding \in [Sends -> Fundings \cup {"budget"}]
  /\ maxFee \in [Sends -> MaxFees \cup {0}]
  /\ txSeq \in [Sends -> Nat]
  /\ until \in [Sends -> Nat]
  /\ unpaid \in [Sends -> Entry \cup {None}]
  /\ covered \in [Sends -> Entry \cup {None}]
  /\ net \in [Sends -> {"none", "queued", "rejected", "unlisted", "success", "failed"}]
  /\ fee \in [Sends -> MaxFees \cup {0}]
  /\ landed \in [Sends -> 0..MaxTime]
  /\ seq \in Nat
  /\ balance \in Int
  /\ now \in 0..MaxTime
  /\ doubtful \subseteq Sends

(* Whatever happens to reservations and answers, neither window ever holds *)
(* more than its budget.                                                   *)
BudgetsKept ==
  /\ Spent(unpaid) <= UnpaidBudget
  /\ Spent(covered) <= PaidBudget

(* A fee that was charged, or can still be, is recorded: the unpaid part   *)
(* always, the covered part until the contract has paid the oracle back.   *)
Chargeable(s) == net[s] = "queued" /\ txSeq[s] = seq /\ now <= until[s]

ChargesRecorded ==
  \A s \in Sends :
    funding[s] # "allowlisted" =>
      /\ Chargeable(s) \/ net[s] \in {"success", "failed"} =>
           (Unpaid(s) > 0 => unpaid[s] # None)
      /\ Chargeable(s) \/ net[s] = "failed" =>
           (Covered(s) > 0 => covered[s] # None)

(* The oracle's balance never drops below the floor, however many sends    *)
(* are authorised against one reading of it: they are built on the same    *)
(* sequence number, so one of them is included at most.                    *)
FloorKept == balance >= Floor

(* What sends that are subject to the budgets cost the oracle, what the    *)
(* contract paid back deducted, within any period that is shorter than the *)
(* ledgers' window by the time a transaction may wait to be included, is   *)
(* at most the two budgets.                                                *)
Loss(s) ==
  IF net[s] # "success" THEN fee[s]
  ELSE IF OnChainFee < fee[s] THEN fee[s] - OnChainFee ELSE 0

LandedLately ==
  {s \in Sends : /\ funding[s] # "allowlisted"
                 /\ net[s] \in {"success", "failed"}
                 /\ now - landed[s] < Window - Validity}

LossBounded ==
  Total([s \in LandedLately |-> Loss(s)]) <= UnpaidBudget + PaidBudget

(* Nothing leaks: a send that is over and cost nothing - refused by the    *)
(* second ledger, withdrawn because the lease was lost while the ledgers   *)
(* were asked, rejected, or never included - holds no entry, and one that  *)
(* the contract paid for holds no covered part.  Only a ledger's failure,  *)
(* or the process's end, leaves entries to expire.                         *)
NothingLeaks ==
  \A s \in Sends \ doubtful :
    pc[s] = "over" =>
      /\ net[s] \in {"none", "queued", "rejected"} => unpaid[s] = None /\ covered[s] = None
      /\ net[s] = "success" => covered[s] = None
=============================================================================
