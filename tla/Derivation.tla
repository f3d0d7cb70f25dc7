----------------------------- MODULE Derivation -----------------------------
(***************************************************************************)
(* Numbers from a request's output: reduce_uniform() of the contract and   *)
(* its off-chain copy in the JavaScript SDK, both fed with a hash of two   *)
(* candidates.  A candidate is one of Half * Half words and a limit one of *)
(* the words below Half; the hash is any pair of words.                    *)
(***************************************************************************)
EXTENDS Integers, FiniteSets

CONSTANT Half \* 2^64 in the code: the u64 numbers

ASSUME HalfWord == Half \in Nat \ {0}

WordLimit == Half * Half    \* 2^128: the u128 numbers
U64Max == Half - 1

Words == 0..(WordLimit - 1)
Maxes == 1..U64Max          \* checkMax()

Rejected == -1              \* "range derivation failed"

-----------------------------------------------------------------------------
(* lib.rs: u128 has no 2^128, so the remainder is computed from u128::MAX, *)
(* and a candidate is compared with the last accepted value.               *)

ContractRemainder(max) == ((WordLimit - 1) - max + 1) % max

(* Mutant: the last cycle is cut one short. *)
ContractAcceptsOne(c, max) == c <= (WordLimit - 1) - ContractRemainder(max) - 1

ContractAccepts(c, max) ==
  ContractRemainder(max) = 0 \/ c <= (WordLimit - 1) - ContractRemainder(max)

ContractReduce(hash, max) ==
  IF ContractAccepts(hash[1], max) THEN hash[1] % max
  ELSE IF ContractAccepts(hash[2], max) THEN hash[2] % max ELSE Rejected

ContractRange(hash, max) == IF max = 1 THEN 0 ELSE ContractReduce(hash, max)

-----------------------------------------------------------------------------
(* index.ts of the SDK: big integers. *)

SdkLimit(max) == WordLimit - (WordLimit % max)

(* Mutant: every candidate is reduced. *)
SdkAcceptsAll(c, max) == c >= 0 /\ max > 0

SdkAccepts(c, max) == c < SdkLimit(max)

SdkReduce(hash, max) ==
  IF SdkAccepts(hash[1], max) THEN hash[1] % max
  ELSE IF SdkAccepts(hash[2], max) THEN hash[2] % max ELSE Rejected

SdkRange(hash, max) == IF max = 1 THEN 0 ELSE SdkReduce(hash, max)

(* inclusiveSpan(): the ranges it does not refuse, and their sizes. *)
SpanOK(min, max) == min <= max /\ 0 <= min /\ max <= U64Max /\ max - min + 1 <= U64Max
Span(min, max) == max - min + 1

-----------------------------------------------------------------------------
(* Properties *)

(* Both compute the same number below max, or both refuse, for any hash.   *)
SameDraws(max) ==
  \A first, second \in Words :
    LET onchain == ContractRange(<<first, second>>, max) IN
    /\ onchain = SdkRange(<<first, second>>, max)
    /\ onchain \in 0..(max - 1) \cup {Rejected}

SameMaxes == {max \in Maxes : SameDraws(max)}

ContractAccepted(max) == {c \in Words : ContractAccepts(c, max)}
SdkAccepted(max)      == {c \in Words : SdkAccepts(c, max)}

Preimages(accepted, max, value) == {c \in accepted : c % max = value}

Even(accepted, max) ==
  /\ \A value \in 0..(max - 1) :
       Cardinality(Preimages(accepted, max, value)) = Cardinality(Preimages(accepted, max, 0))
  /\ Cardinality(Words \ accepted) < max

(* "An exactly uniform value in [0, max)" (lib.rs:870), by either sampler: *)
(* every value comes from as many accepted candidates as any other, and    *)
(* fewer than max of all candidates are rejected.                          *)
Uniform(max) == Even(ContractAccepted(max), max) /\ Even(SdkAccepted(max), max)

UniformMaxes == {max \in Maxes : Uniform(max)}
=============================================================================
