--------------------------- MODULE Client_proofs ---------------------------
(***************************************************************************)
(* A program using the SDK (Client), for any number of calls and errors,   *)
(* any lifetimes of its transactions, however far the RPC server lags, and *)
(* words of any size: calls that are open together pay once, and the       *)
(* contract and the SDK derive the same, uniformly distributed numbers.    *)
(***************************************************************************)
EXTENDS Client, FiniteSetTheorems, TLAPS

-----------------------------------------------------------------------------
(* Division *)

LEMMA Divides ==
  ASSUME NEW a \in Int, NEW m \in Nat \ {0}
  PROVE  /\ a % m \in 0..(m - 1) /\ a \div m \in Int
         /\ a = m * (a \div m) + (a % m)
OBVIOUS

LEMMA NoMultipleBetween ==
  ASSUME NEW m \in Nat \ {0}, NEW k \in Int, NEW d \in Int, d = m * k, d < m, -m < d
  PROVE  k = 0
<1>1. CASE k >= 1
  <2>1. m * k >= m * 1
    BY <1>1
  <2>. QED BY <2>1
<1>2. CASE k <= -1
  <2>1. m * k <= m * (-1)
    BY <1>2
  <2>. QED BY <2>1
<1>. QED BY <1>1, <1>2

(* Quotient and remainder are unique. *)
LEMMA SameRemainder ==
  ASSUME NEW m \in Nat \ {0}, NEW q \in Int, NEW r \in 0..(m - 1), NEW a \in Int, a = m * q + r
  PROVE  a % m = r
<1>1. /\ a % m \in 0..(m - 1) /\ a \div m \in Int
      /\ a = m * (a \div m) + (a % m)
  BY Divides
<1> DEFINE k == q - (a \div m)   d == (a % m) - r
<1>2. d \in Int /\ d < m /\ -m < d /\ k \in Int
  BY <1>1
<1>3. d = m * k
  <2>1. m * k = m * q - m * (a \div m)
    BY <1>1
  <2>. QED BY <2>1, <1>1
<1>4. k = 0
  <2> HIDE DEF k, d
  <2>. QED BY <1>2, <1>3, NoMultipleBetween
<1>5. m * q = m * (a \div m)
  BY <1>4, <1>1
<1>. QED BY <1>5, <1>1

LEMMA ShiftByMultiple ==
  ASSUME NEW m \in Nat \ {0}, NEW a \in Int
  PROVE  (a - m) % m = a % m
<1> DEFINE q == a \div m   r == a % m
<1>1. r \in 0..(m - 1) /\ q \in Int /\ a = m * q + r
  BY Divides
<1> HIDE DEF q, r
<1>2. m * (q - 1) = m * q - m
  BY <1>1
<1>3. a - m = m * (q - 1) + r /\ q - 1 \in Int /\ a - m \in Int
  BY <1>1, <1>2
<1>4. (a - m) % m = r
  BY <1>1, <1>3, SameRemainder
<1>. QED BY <1>4 DEF r

LEMMA WordFacts ==
  /\ WordLimit \in Nat \ {0} /\ U64Max \in Nat
  /\ \A max \in Maxes : max \in Nat \ {0} /\ max < WordLimit
<1>1. Half * Half \in Nat /\ Half * Half >= Half * 1
  BY HalfWord
<1>. QED BY <1>1, HalfWord DEF WordLimit, U64Max, Maxes

-----------------------------------------------------------------------------
(* The contract and the SDK *)

LEMMA WordCycles ==
  ASSUME NEW max \in Maxes
  PROVE  /\ WordLimit % max \in 0..(max - 1) /\ WordLimit \div max \in Int
         /\ WordLimit = max * (WordLimit \div max) + (WordLimit % max)
<1>1. WordLimit \in Int /\ max \in Nat \ {0}
  BY WordFacts
<1>. QED BY <1>1, Divides, Zenon

(* Without 2^128, the contract finds the remainder of the words all the    *)
(* same.                                                                   *)
LEMMA RemaindersAgree ==
  ASSUME NEW max \in Maxes
  PROVE  /\ ContractRemainder(max) = WordLimit % max
         /\ WordLimit % max \in 0..(max - 1)
<1>1. (WordLimit - 1) - max + 1 = WordLimit - max
  BY WordFacts
<1>2. WordLimit \in Int /\ max \in Nat \ {0}
  BY WordFacts
<1>3. (WordLimit - max) % max = WordLimit % max
  BY <1>2, ShiftByMultiple, Zenon
<1>. QED BY <1>1, <1>3, WordCycles, Zenon DEF ContractRemainder

LEMMA AcceptsAgree ==
  ASSUME NEW max \in Maxes, NEW c \in Words
  PROVE  ContractAccepts(c, max) <=> SdkAccepts(c, max)
<1> DEFINE r == WordLimit % max
<1>1. ContractRemainder(max) = r /\ r \in 0..(max - 1)
  BY RemaindersAgree
<1>2. WordLimit \in Nat \ {0} /\ max \in Nat /\ c \in Int /\ c < WordLimit
  BY WordFacts DEF Words
<1> HIDE DEF r
<1>3. (r = 0 \/ c <= (WordLimit - 1) - r) <=> c < WordLimit - r
  BY <1>1, <1>2
<1>. QED BY <1>1, <1>3 DEF ContractAccepts, SdkAccepts, SdkLimit, r

LEMMA RangesAgree ==
  ASSUME NEW max \in Maxes, NEW first \in Words, NEW second \in Words
  PROVE  ContractRange(<<first, second>>, max) = SdkRange(<<first, second>>, max)
<1>1. /\ ContractAccepts(first, max) <=> SdkAccepts(first, max)
      /\ ContractAccepts(second, max) <=> SdkAccepts(second, max)
  BY AcceptsAgree
<1>. QED
  BY <1>1 DEF ContractRange, SdkRange, ContractReduce, SdkReduce

LEMMA RangeBound ==
  ASSUME NEW max \in Maxes, NEW first \in Words, NEW second \in Words
  PROVE  ContractRange(<<first, second>>, max) \in 0..(max - 1) \cup {Rejected}
<1>1. max \in Nat \ {0} /\ first \in Int /\ second \in Int
  BY WordFacts DEF Words
<1>2. first % max \in 0..(max - 1) /\ second % max \in 0..(max - 1)
  BY <1>1, Divides
<1>. QED BY <1>1, <1>2 DEF ContractRange, ContractReduce

LEMMA SpanIsMax ==
  ASSUME NEW min \in Int, NEW max \in Int, SpanOK(min, max)
  PROVE  Span(min, max) \in Maxes
BY WordFacts DEF SpanOK, Span, Maxes

-----------------------------------------------------------------------------
(* Uniformity *)

(* The candidates that give a value. *)
Draws(max, value) == {c \in Words : SdkAccepts(c, max) /\ c % max = value}

LEMMA CycleStart ==
  ASSUME NEW max \in Maxes, NEW c \in Draws(max, 0), NEW value \in 0..(max - 1)
  PROVE  c + value \in Draws(max, value)
<1> DEFINE W == WordLimit   r == W % max   q == W \div max   k == c \div max
<1>1. W \in Nat \ {0} /\ max \in Nat \ {0} /\ c \in Nat /\ c % max = 0 /\ c < W - r
  BY WordFacts DEF Draws, Words, SdkAccepts, SdkLimit
<1>2. r \in 0..(max - 1) /\ q \in Int /\ W = max * q + r
  BY WordCycles
<1>3. k \in Int /\ c = max * k
  BY <1>1, Divides
<1> HIDE DEF W, r, q, k
<1>4. max * k < max * q
  BY <1>1, <1>2, <1>3
<1>5. k < q
  <2>1. CASE k >= q
    <3>1. max * k >= max * q
      BY <2>1, <1>1, <1>2, <1>3
    <3>. QED BY <3>1, <1>4, <1>1, <1>2, <1>3
  <2>. QED BY <2>1, <1>2, <1>3
<1>6. max * (k + 1) <= max * q
  BY <1>1, <1>2, <1>3, <1>5
<1>7. max * (k + 1) = max * k + max
  BY <1>1, <1>3
<1>8. c + value < W - r /\ c + value \in 0..(W - 1)
  BY <1>1, <1>2, <1>3, <1>6, <1>7
<1>9. (c + value) % max = value
  BY <1>1, <1>3, SameRemainder
<1>. QED BY <1>8, <1>9 DEF W, r, Draws, Words, SdkAccepts, SdkLimit

LEMMA CycleBack ==
  ASSUME NEW max \in Maxes, NEW value \in 0..(max - 1), NEW c \in Draws(max, value)
  PROVE  c - value \in Draws(max, 0)
<1> DEFINE W == WordLimit   r == W % max   k == c \div max
<1>1. W \in Nat \ {0} /\ max \in Nat \ {0} /\ c \in Nat /\ c % max = value /\ c < W - r
  BY WordFacts DEF Draws, Words, SdkAccepts, SdkLimit
<1>2. r \in 0..(max - 1)
  BY WordCycles
<1>3. k \in Int /\ c = max * k + value
  <2>1. c \in Int
    BY <1>1
  <2>2. c \div max \in Int /\ c = max * (c \div max) + (c % max)
    BY <1>1, <2>1, Divides, Zenon
  <2>. QED BY <1>1, <2>2
<1> HIDE DEF W, r, k
<1>4. k >= 0
  <2>1. CASE k <= -1
    <3>1. max * k <= max * (-1)
      BY <2>1, <1>1, <1>3
    <3>. QED BY <3>1, <1>1, <1>3
  <2>. QED BY <2>1, <1>3
<1>5. max * k >= 0
  BY <1>1, <1>3, <1>4
<1>6. c - value \in 0..(W - 1) /\ c - value < W - r
  BY <1>1, <1>2, <1>3, <1>5
<1>7. c - value = max * k + 0 /\ 0 \in 0..(max - 1) /\ c - value \in Int
  BY <1>1, <1>3
<1>8. (c - value) % max = 0
  BY <1>1, <1>3, <1>7, SameRemainder
<1>. QED BY <1>6, <1>8 DEF W, r, Draws, Words, SdkAccepts, SdkLimit

LEMMA WordsFinite == IsFiniteSet(Words)
<1>1. 0 \in Int /\ WordLimit - 1 \in Int
  BY WordFacts
<1>. QED BY <1>1, FS_Interval DEF Words

LEMMA EvenlySpread ==
  ASSUME NEW max \in Maxes, NEW value \in 0..(max - 1)
  PROVE  Cardinality(Draws(max, value)) = Cardinality(Draws(max, 0))
<1> DEFINE S == Draws(max, 0)   T == Draws(max, value)
           shift == [c \in S |-> c + value]
<1>1. S \subseteq Int /\ T \subseteq Int /\ value \in Int
  BY WordFacts DEF Draws, Words
<1>2. shift \in [S -> T]
  BY CycleStart
<1>3. \A c, d \in S : shift[c] = shift[d] => c = d
  BY <1>1
<1>4. \A t \in T : \E s \in S : shift[s] = t
  <2> SUFFICES ASSUME NEW t \in T PROVE \E s \in S : shift[s] = t
    OBVIOUS
  <2>1. t - value \in S
    BY CycleBack
  <2>2. shift[t - value] = t
    BY <2>1, <1>1
  <2>. QED BY <2>1, <2>2
<1>5. ExistsBijection(S, T)
  <2> HIDE DEF S, T, shift
  <2>1. shift \in Injection(S, T) /\ shift \in Surjection(S, T)
    BY <1>2, <1>3, <1>4 DEF Injection, Surjection, IsInjective
  <2>. QED BY <2>1 DEF ExistsBijection, Bijection
<1>6. IsFiniteSet(S)
  BY WordsFinite, FS_Subset DEF Draws
<1> HIDE DEF S, T
<1>7. Cardinality(T) = Cardinality(S)
  BY <1>5, <1>6, FS_Bijection
<1>. QED BY <1>7 DEF S, T

LEMMA FewRejected ==
  ASSUME NEW max \in Maxes
  PROVE  Cardinality({c \in Words : ~SdkAccepts(c, max)}) < max
<1> DEFINE W == WordLimit   r == W % max
<1>1. W \in Nat \ {0} /\ max \in Nat \ {0} /\ max < W /\ r \in 0..(max - 1)
  BY WordFacts, WordCycles
<1>2. {c \in Words : ~SdkAccepts(c, max)} = (W - r)..(W - 1)
  <2> HIDE DEF r
  <2>1. {c \in 0..(W - 1) : ~(c < W - r)} = (W - r)..(W - 1)
    BY <1>1
  <2>. QED BY <2>1 DEF Words, SdkAccepts, SdkLimit, r
<1> HIDE DEF r
<1>3. W - r \in Int /\ W - 1 \in Int
  BY <1>1
<1>4. Cardinality((W - r)..(W - 1)) =
        IF W - r > W - 1 THEN 0 ELSE (W - 1) - (W - r) + 1
  BY <1>3, FS_Interval
<1>5. Cardinality((W - r)..(W - 1)) = r
  BY <1>1, <1>4
<1>6. r < max
  BY <1>1
<1>. QED BY <1>2, <1>5, <1>6

(* Every draw is exactly uniform, whatever the limit, in both samplers:    *)
(* they accept the same candidates.                                        *)
LEMMA AlwaysUniform ==
  ASSUME NEW max \in Maxes
  PROVE  max \in UniformMaxes
<1>1. ContractAccepted(max) = SdkAccepted(max)
  BY AcceptsAgree DEF ContractAccepted, SdkAccepted
<1>2. \A value \in 0..(max - 1) : Preimages(SdkAccepted(max), max, value) = Draws(max, value)
  BY DEF Preimages, SdkAccepted, Draws
<1>3. 0 \in 0..(max - 1)
  BY WordFacts
<1>4. Words \ SdkAccepted(max) = {c \in Words : ~SdkAccepts(c, max)}
  BY DEF SdkAccepted
<1>5. Even(SdkAccepted(max), max)
  BY <1>2, <1>3, <1>4, EvenlySpread, FewRejected DEF Even
<1>. QED BY <1>1, <1>5 DEF UniformMaxes, Uniform

-----------------------------------------------------------------------------
(* The draws *)

DrawInv == at = "done" => \E min, max \in 0..U64Max :
  SpanOK(min, max) /\ draw = [min |-> min, max |-> max]

LEMMA DrawsFollow ==
  ASSUME DrawInv
  PROVE  DrawsAgree /\ DrawsUniform
<1> SUFFICES ASSUME at = "done" PROVE DrawsAgree /\ DrawsUniform
  BY DEF DrawsAgree, DrawsUniform
<1>1. PICK min \in 0..U64Max, max \in 0..U64Max :
        SpanOK(min, max) /\ draw = [min |-> min, max |-> max]
  BY DEF DrawInv
<1>2. min \in Int /\ max \in Int /\ draw.min = min /\ draw.max = max
  BY <1>1, WordFacts
<1>3. Span(min, max) \in Maxes
  BY <1>1, <1>2, SpanIsMax
<1>4. /\ Span(min, max) \in SameMaxes
      /\ \A n \in 0..(Span(min, max) - 1) : min + n \in min..max
  <2>1. ASSUME NEW first \in Words, NEW second \in Words
        PROVE  LET onchain == ContractRange(<<first, second>>, Span(min, max)) IN
               /\ onchain = SdkRange(<<first, second>>, Span(min, max))
               /\ onchain \in 0..(Span(min, max) - 1) \cup {Rejected}
    BY <1>3, RangesAgree, RangeBound
  <2>2. Span(min, max) \in SameMaxes
    BY <1>3, <2>1 DEF SameMaxes, SameDraws
  <2>3. \A n \in 0..(Span(min, max) - 1) : min + n \in min..max
    BY <1>2 DEF Span
  <2>. QED BY <2>2, <2>3
<1>5. Span(min, max) \in UniformMaxes
  BY <1>3, AlwaysUniform
<1>. QED BY <1>2, <1>4, <1>5 DEF DrawsAgree, DrawsUniform

LEMMA DrawKept == DrawInv /\ [Next]_vars => DrawInv'
<1> SUFFICES ASSUME DrawInv, [Next]_vars PROVE DrawInv'
  OBVIOUS
<1>1. CASE Derive
  BY <1>1 DEF Derive, DrawInv, U64Max
<1>2. CASE at = "done"
  <2>1. UNCHANGED <<at, draw>>
    BY <1>2 DEF Next, ClientStep, Build, SendTransaction, Returns, FoundFailed, TimesOut,
       PollFails, Wait, WaitEnds, Proof, Beta, WaitAgain, Derive, Include, Settle, Ingest, Tick,
       vars
  <2>. QED BY <2>1 DEF DrawInv, U64Max
<1>3. CASE ~Derive /\ at # "done"
  <2>1. at' # "done"
    BY <1>3 DEF Next, ClientStep, Build, SendTransaction, Returns, FoundFailed, TimesOut,
       PollFails, Wait, WaitEnds, Proof, Beta, WaitAgain, Include, Settle, Ingest, Tick, vars
  <2>. QED BY <2>1 DEF DrawInv
<1>. QED BY <1>1, <1>2, <1>3

LEMMA DrawInvariant == Spec => []DrawInv
<1>1. Init => DrawInv
  BY DEF Init, DrawInv
<1>. QED BY <1>1, DrawKept, PTL DEF Spec

(* The contract and the SDK derive the same number of the range that was   *)
(* asked for, or both refuse, for every pair of words of any size.         *)
THEOREM DrawsAlwaysAgree == Spec => []DrawsAgree
BY DrawInvariant, DrawsFollow, PTL

(* For words of any size, every value of the range drawn has as many       *)
(* accepted candidates as any other.                                       *)
THEOREM DrawsAlwaysUniform == Spec => []DrawsUniform
BY DrawInvariant, DrawsFollow, PTL

-----------------------------------------------------------------------------
(* Requests *)

TxType == [call : Nat, seq : Nat, left : Nat]
RequestType ==
  [call : Nat, built : Nat, status : {"pending", "fulfilled", "refunded"}, cleaned : BOOLEAN]

Types ==
  /\ sequence \in Nat /\ rpc.sequence \in Nat
  /\ pool \subseteq TxType /\ tx \in TxType
  /\ requests \in Seq(RequestType)

(* The RPC server knows an earlier chain. *)
Behind ==
  /\ rpc.sequence <= sequence
  /\ \A id \in DOMAIN rpc.requests :
       id \in DOMAIN requests /\ rpc.requests[id].call = requests[id].call

(* No transaction is numbered beyond the account's next, and one with that *)
(* number belongs to a call that began after every request was included:   *)
(* getAccount() may answer a number that is used up, but none too early.   *)
Numbered ==
  /\ \A t \in pool \cup {tx} : t.seq <= sequence + 1 /\ t.call <= tx.call
  /\ \A id \in DOMAIN requests :
       requests[id].call <= requests[id].built /\ requests[id].built <= tx.call
  /\ \A t \in pool \cup {tx}, id \in DOMAIN requests :
       t.seq > sequence => requests[id].built < t.call

PaysInv ==
  /\ Types /\ Behind /\ Numbered /\ PaysOnce
  /\ at \in {"send", "poll"} => request = 0

LEMMA RequestFields ==
  ASSUME Types, NEW id \in DOMAIN requests
  PROVE  requests[id].call \in Nat /\ requests[id].built \in Nat
<1>1. requests[id] \in RequestType
  BY DEF Types
<1>. QED BY <1>1 DEF RequestType

LEMMA PaysInit == Init => PaysInv
BY DEF Init, NoTx, Chain, PaysInv, Types, TxType, Behind, Numbered, PaysOnce

-----------------------------------------------------------------------------
(* The program's steps *)

LEMMA BuildPays == ASSUME PaysInv, Build PROVE PaysInv'
<1> USE DEF PaysInv
<1>1. PICK lifetime \in Lifetimes :
        tx' = [call |-> tx.call + 1, seq |-> rpc.sequence + 1, left |-> lifetime]
  BY DEF Build
<1>2. UNCHANGED <<chainVars, rpc, request>> /\ request = 0 /\ at' = "send"
  BY DEF Build
<1>3. tx.call \in Nat /\ sequence \in Nat /\ rpc.sequence \in Nat /\ lifetime \in Nat
  BY ClientConstants DEF Types, TxType
<1>4. tx' \in TxType /\ tx'.call = tx.call + 1 /\ tx'.seq = rpc.sequence + 1
  BY <1>1, <1>3 DEF TxType
<1>5. Types' /\ Behind' /\ PaysOnce'
  BY <1>2, <1>4 DEF Types, Behind, PaysOnce, chainVars
<1>6. Numbered'
  <2>1. \A t \in pool : t.call \in Nat
    BY DEF Types, TxType
  <2>2. \A id \in DOMAIN requests : requests[id].call \in Nat /\ requests[id].built \in Nat
    BY RequestFields
  <2>3. \A t \in pool \cup {tx'} : t.seq <= sequence + 1 /\ t.call <= tx'.call
    BY <1>3, <1>4, <2>1 DEF Numbered, Behind
  <2>4. \A id \in DOMAIN requests :
          requests[id].call <= requests[id].built /\ requests[id].built < tx'.call
    BY <1>3, <1>4, <2>2 DEF Numbered
  <2>5. \A t \in pool \cup {tx'}, id \in DOMAIN requests :
          t.seq > sequence => requests[id].built < t.call
    BY <2>4 DEF Numbered
  <2>. QED BY <1>2, <1>3, <1>4, <2>2, <2>3, <2>4, <2>5 DEF Numbered, chainVars
<1>. QED BY <1>2, <1>5, <1>6

LEMMA SendPays == ASSUME PaysInv, SendTransaction PROVE PaysInv'
<1> USE DEF PaysInv
<1>1. pool' \subseteq pool \cup {tx} /\ request = 0 /\ request' = 0
  BY DEF SendTransaction
<1>2. UNCHANGED <<sequence, requests, rpc, tx>>
  BY DEF SendTransaction
<1>. QED BY <1>1, <1>2 DEF Types, Behind, Numbered, PaysOnce

(* The ways a call can end.  What it returns is its own request, and every *)
(* transaction that was given up before is older than that.                *)
LEMMA EndPays ==
  ASSUME PaysInv, Returns \/ FoundFailed \/ TimesOut \/ PollFails
  PROVE  PaysInv'
<1> USE DEF PaysInv
<1>1. UNCHANGED <<chainVars, rpc, tx>> /\ at' = "idle"
  BY DEF Returns, FoundFailed, TimesOut, PollFails
<1>2. Types' /\ Behind' /\ Numbered'
  BY <1>1 DEF Types, Behind, Numbered, chainVars
<1>3. request' # 0 => \A t \in pool : t.seq <= sequence
  <2>1. CASE Returns
    <3>1. PICK id \in DOMAIN requests : requests[id].call = tx.call
      BY <2>1 DEF Returns, Made, Behind
    <3>2. requests[id].built = tx.call
      <4>1. requests[id].built \in Nat /\ tx.call \in Nat
        BY RequestFields DEF Types, TxType
      <4>. QED BY <3>1, <4>1 DEF Numbered
    <3>3. ASSUME NEW t \in pool PROVE t.seq <= sequence
      <4>1. t.seq \in Nat /\ t.call \in Nat /\ tx.call \in Nat /\ sequence \in Nat
        BY DEF Types, TxType
      <4>. QED BY <3>2, <4>1 DEF Numbered
    <3>. QED BY <3>3
  <2>2. CASE FoundFailed \/ TimesOut \/ PollFails
    BY <2>2 DEF FoundFailed, TimesOut, PollFails, PaysOnce
  <2>. QED BY <2>1, <2>2
<1>4. PaysOnce'
  BY <1>1, <1>3 DEF PaysOnce, chainVars
<1>. QED BY <1>1, <1>2, <1>4

LEMMA WaitingPays ==
  ASSUME PaysInv, Wait \/ WaitEnds \/ Proof \/ Beta \/ WaitAgain \/ Derive
  PROVE  PaysInv'
<1>1. UNCHANGED <<chainVars, rpc, tx, request>> /\ at' \notin {"send", "poll"}
  BY DEF Wait, WaitEnds, Proof, Beta, WaitAgain, Derive
<1>. QED BY <1>1 DEF chainVars, PaysInv, Types, Behind, Numbered, PaysOnce

-----------------------------------------------------------------------------
(* The network's steps *)

(* An inclusion uses up the account's next number: whatever else is open   *)
(* can no longer be included.                                              *)
LEMMA IncludePays == ASSUME PaysInv, Include PROVE PaysInv'
<1> USE DEF PaysInv
<1>1. PICK t \in pool :
        /\ t.seq = sequence + 1 /\ sequence' = t.seq /\ pool' = pool \ {t}
        /\ \/ requests' = Append(requests, [call |-> t.call, built |-> tx.call,
                                              status |-> "pending", cleaned |-> FALSE])
           \/ UNCHANGED requests
        /\ UNCHANGED <<rpc, at, tx, request>>
  BY DEF Include
<1>2. /\ t \in TxType /\ t.call \in Nat /\ tx.call \in Nat /\ sequence \in Nat
      /\ rpc.sequence \in Nat /\ \A u \in pool \cup {tx} : u.seq \in Nat
  BY DEF Types, TxType
<1>3. \A u \in pool' \cup {tx'} :
        u.seq <= sequence' /\ u.seq <= sequence' + 1 /\ u.call <= tx'.call
  BY <1>1, <1>2 DEF Numbered
<1>4. rpc'.sequence <= sequence'
  BY <1>1, <1>2 DEF Behind
<1>5. sequence' \in Nat /\ pool' \subseteq TxType /\ tx' \in TxType /\ rpc'.sequence \in Nat
  BY <1>1, <1>2 DEF Types
<1>6. CASE UNCHANGED requests
  <2>1. Types' /\ Behind'
    BY <1>1, <1>4, <1>5, <1>6 DEF Types, Behind
  <2>2. Numbered'
    BY <1>1, <1>2, <1>3, <1>5, <1>6 DEF Numbered
  <2>3. PaysOnce'
    BY <1>1, <1>3, <1>6 DEF PaysOnce
  <2>. QED BY <1>1, <2>1, <2>2, <2>3
<1>7. CASE requests' = Append(requests, [call |-> t.call, built |-> tx.call,
                                           status |-> "pending", cleaned |-> FALSE])
  <2> DEFINE r == [call |-> t.call, built |-> tx.call, status |-> "pending",
                   cleaned |-> FALSE]
             new == Len(requests) + 1
  <2>1. r \in RequestType /\ r.call = t.call /\ r.built = tx.call
    BY <1>2 DEF RequestType
  <2>2. requests \in Seq(RequestType)
    BY DEF Types
  <2>3. requests' = Append(requests, r)
    BY <1>7
  <2> HIDE DEF r
  <2>4. /\ requests' \in Seq(RequestType)
        /\ DOMAIN requests' = DOMAIN requests \cup {new}
        /\ \A id \in DOMAIN requests : id \in Nat /\ id < new
        /\ requests'[new] = r /\ new \in Nat
        /\ \A id \in DOMAIN requests : requests'[id] = requests[id]
    BY <2>1, <2>2, <2>3
  <2> HIDE DEF new
  <2>5. Types' /\ Behind'
    BY <1>1, <1>4, <1>5, <2>4 DEF Types, Behind
  <2>6. Numbered'
    <3>1. t.call <= tx.call
      BY DEF Numbered
    <3>2. \A id \in DOMAIN requests' :
            requests'[id].call <= requests'[id].built /\ requests'[id].built <= tx'.call
      BY <1>1, <1>2, <2>1, <2>4, <3>1 DEF Numbered
    <3>3. \A u \in pool' \cup {tx'} : ~(u.seq > sequence')
      BY <1>1, <1>2, <1>3, <1>5
    <3>. QED BY <1>3, <3>2, <3>3 DEF Numbered
  <2>7. \A i, j \in DOMAIN requests' : i < j => requests'[i].built < requests'[j].call
    <3> SUFFICES ASSUME NEW i \in DOMAIN requests', NEW j \in DOMAIN requests', i < j
                 PROVE  requests'[i].built < requests'[j].call
      OBVIOUS
    <3>1. i \in DOMAIN requests
      BY <2>4
    <3>2. CASE j \in DOMAIN requests
      BY <2>4, <3>1, <3>2 DEF PaysOnce
    <3>3. CASE j = new
      <4>1. requests[i].built < t.call
        BY <1>1, <1>2, <3>1 DEF Numbered
      <4>. QED BY <2>1, <2>4, <3>1, <3>3, <4>1
    <3>. QED BY <2>4, <3>2, <3>3
  <2>8. PaysOnce'
    BY <1>3, <2>7 DEF PaysOnce
  <2>. QED BY <1>1, <2>5, <2>6, <2>8
<1>. QED BY <1>1, <1>6, <1>7

LEMMA SettlePays == ASSUME PaysInv, Settle PROVE PaysInv'
<1> USE DEF PaysInv
<1>1. UNCHANGED <<sequence, pool, rpc, at, tx, request>>
  BY DEF Settle
<1>2. requests \in Seq(RequestType)
  BY DEF Types
<1>3. PICK id \in DOMAIN requests :
        \/ \E s \in {"fulfilled", "refunded"} :
             requests' = [requests EXCEPT ![id].status = s]
        \/ requests' = [requests EXCEPT ![id].cleaned = TRUE]
  BY DEF Settle
<1>4. PICK r \in RequestType :
        /\ r.call = requests[id].call /\ r.built = requests[id].built
        /\ requests' = [requests EXCEPT ![id] = r]
  <2>1. requests[id] \in RequestType
    BY <1>2
  <2>2. ASSUME NEW s \in {"fulfilled", "refunded"},
               requests' = [requests EXCEPT ![id].status = s]
        PROVE  \E r \in RequestType :
                 /\ r.call = requests[id].call /\ r.built = requests[id].built
                 /\ requests' = [requests EXCEPT ![id] = r]
    <3>1. [requests[id] EXCEPT !.status = s] \in RequestType
      BY <2>1 DEF RequestType
    <3>. QED BY <2>1, <2>2, <3>1 DEF RequestType
  <2>3. ASSUME requests' = [requests EXCEPT ![id].cleaned = TRUE]
        PROVE  \E r \in RequestType :
                 /\ r.call = requests[id].call /\ r.built = requests[id].built
                 /\ requests' = [requests EXCEPT ![id] = r]
    <3>1. [requests[id] EXCEPT !.cleaned = TRUE] \in RequestType
      BY <2>1 DEF RequestType
    <3>. QED BY <2>1, <2>3, <3>1 DEF RequestType
  <2>. QED BY <1>3, <2>2, <2>3
<1>5. /\ requests' \in Seq(RequestType) /\ DOMAIN requests' = DOMAIN requests
      /\ \A i \in DOMAIN requests :
           requests'[i].call = requests[i].call /\ requests'[i].built = requests[i].built
  BY <1>2, <1>4
<1>. QED BY <1>1, <1>5 DEF Types, Behind, Numbered, PaysOnce

LEMMA TickPays == ASSUME PaysInv, Tick PROVE PaysInv'
<1> USE DEF PaysInv
<1>1. UNCHANGED <<sequence, requests, rpc, at, request>>
  BY DEF Tick
<1>2. ASSUME NEW u \in pool'
      PROVE  u \in TxType /\ \E t \in pool : u.seq = t.seq /\ u.call = t.call
  <2>1. PICK t \in pool : t.left > 1 /\ u = [t EXCEPT !.left = t.left - 1]
    BY DEF Tick
  <2>2. t \in TxType
    BY DEF Types
  <2>. QED BY <2>1, <2>2 DEF TxType
<1>3. tx' \in TxType /\ tx'.call = tx.call /\ tx'.seq = tx.seq
  <2>1. tx' = [tx EXCEPT !.left = IF tx.left > 0 THEN tx.left - 1 ELSE 0]
    BY DEF Tick
  <2>2. (IF tx.left > 0 THEN tx.left - 1 ELSE 0) \in Nat
    BY DEF Types, TxType
  <2>. QED BY <2>1, <2>2 DEF Types, TxType
<1>. QED BY <1>1, <1>2, <1>3 DEF Types, Behind, Numbered, PaysOnce

LEMMA IngestPays == ASSUME PaysInv, Ingest PROVE PaysInv'
<1>1. UNCHANGED <<chainVars, at, tx, request>> /\ rpc' = Chain
  BY DEF Ingest
<1>2. rpc'.sequence = sequence /\ rpc'.requests = requests
  BY <1>1 DEF Chain
<1>. QED BY <1>1, <1>2 DEF chainVars, PaysInv, Types, Behind, Numbered, PaysOnce

LEMMA PaysKept == PaysInv /\ [Next]_vars => PaysInv'
<1> SUFFICES ASSUME PaysInv, [Next]_vars PROVE PaysInv'
  OBVIOUS
<1>1. CASE UNCHANGED vars
  BY <1>1 DEF vars, chainVars, PaysInv, Types, Behind, Numbered, PaysOnce
<1>. QED
  BY <1>1, BuildPays, SendPays, EndPays, WaitingPays, IncludePays, SettlePays, TickPays,
     IngestPays
  DEF Next, ClientStep

(* A program that calls request() again after a timeout or an error pays   *)
(* at most once for calls that were open together, and for nothing more    *)
(* once it has an id: for any number of calls, whatever the clocks say and *)
(* however late the RPC server is.  It is getAccount() at the start of     *)
(* submitTx() that guarantees it, by numbering a retry like the            *)
(* transaction that it replaces.                                           *)
THEOREM CallsPayOnce == Spec => []PaysOnce
<1>1. PaysInv => PaysOnce
  BY DEF PaysInv
<1>. QED BY <1>1, PaysInit, PaysKept, PTL DEF Spec
=============================================================================
