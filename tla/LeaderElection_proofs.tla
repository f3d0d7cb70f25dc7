------------------------ MODULE LeaderElection_proofs ------------------------
(***************************************************************************)
(* The lease is never lost under a leader (LeaderElection), for any number *)
(* of processes, boots, faults and any TTL, safety margin and drift.       *)
(*                                                                         *)
(* The inductive invariant follows the lease's remaining time through the  *)
(* two places where a process relies on it: while it is leader, and while  *)
(* a positive answer is on its way to the election that asked.             *)
(***************************************************************************)
EXTENDS LeaderElection, FiniteSetTheorems, TLAPS

(* The queue holds one election command, or none without an election.      *)
QueueOf(q, r) ==
  /\ r => \E i \in DOMAIN q : q[i] \in Elections
  /\ ~r => \A i \in DOMAIN q : q[i] \notin Elections
  /\ \A i, j \in DOMAIN q : q[i] \in Elections /\ q[j] \in Elections => i = j

(* n owns the key for d more ticks, or has had it deleted itself. *)
Backed(n, d) == revoked[n] \/ (HoldsLease(n) /\ lease.ttl >= d)

AnswerPending(n) ==
  queue[n] # <<>> /\ Head(queue[n]) \in Elections /\ answer[n] = "yes"

NodeInv(n) ==
  /\ QueueOf(queue[n], running[n])
  /\ queue[n] = <<>> => answer[n] = "none"
  /\ ~up[n] => queue[n] = <<>> /\ state[n] = "unknown"
  /\ IsLeader(n) => Backed(n, validFor[n] + Safety)
  /\ AnswerPending(n) /\ TTL - age[n] > Safety => Backed(n, TTL - age[n])

IInv == TypeOK /\ \A n \in Nodes : NodeInv(n)

-----------------------------------------------------------------------------
(* Queues *)

(* Appending keeps the commands that were there, and the head. *)
LEMMA AppendFacts ==
  ASSUME NEW q \in Seq(Ops), NEW op \in Ops
  PROVE  /\ Append(q, op) \in Seq(Ops) /\ Append(q, op) # <<>>
         /\ DOMAIN Append(q, op) = 1..(Len(q) + 1)
         /\ \A i \in DOMAIN q : i \in 1..Len(q) /\ Append(q, op)[i] = q[i]
         /\ Append(q, op)[Len(q) + 1] = op
         /\ q # <<>> => Head(Append(q, op)) = Head(q)
         /\ q = <<>> => Head(Append(q, op)) = op
OBVIOUS

(* Tail drops the head and shifts the rest. *)
LEMMA TailFacts ==
  ASSUME NEW q \in Seq(Ops), q # <<>>
  PROVE  /\ Tail(q) \in Seq(Ops) /\ Head(q) \in Ops
         /\ Head(q) = q[1] /\ 1 \in DOMAIN q
         /\ \A i \in DOMAIN Tail(q) : i + 1 \in DOMAIN q /\ Tail(q)[i] = q[i + 1]
         /\ \A i \in DOMAIN Tail(q) : i \in Nat \ {0}
OBVIOUS

(* A new election's command, in a queue that has none. *)
LEMMA QueueElection ==
  ASSUME NEW q \in Seq(Ops), NEW op \in Elections, QueueOf(q, FALSE)
  PROVE  QueueOf(Append(q, op), TRUE) /\ Append(q, op) \in Seq(Ops)
<1>1. op \in Ops
  BY DEF Elections, Ops
<1>2. \A i \in DOMAIN Append(q, op) :
        Append(q, op)[i] \in Elections => i = Len(q) + 1
  <2> SUFFICES ASSUME NEW i \in 1..(Len(q) + 1), Append(q, op)[i] \in Elections
               PROVE  i = Len(q) + 1
    BY <1>1, AppendFacts
  <2>1. CASE i \in 1..Len(q)
    <3>1. i \in DOMAIN q
      BY <2>1
    <3>. QED BY <1>1, <3>1, AppendFacts DEF QueueOf
  <2>. QED BY <2>1
<1>. QED BY <1>1, <1>2, AppendFacts DEF QueueOf

(* A release joining a queue. *)
LEMMA QueueRelease ==
  ASSUME NEW q \in Seq(Ops), NEW r \in BOOLEAN, NEW op \in Ops \ Elections,
         QueueOf(q, r)
  PROVE  QueueOf(Append(q, op), r) /\ Append(q, op) \in Seq(Ops)
<1>1. \A i \in DOMAIN Append(q, op) :
        Append(q, op)[i] \in Elections
          => i \in DOMAIN q /\ q[i] = Append(q, op)[i]
  <2> SUFFICES ASSUME NEW i \in 1..(Len(q) + 1), Append(q, op)[i] \in Elections
               PROVE  i \in DOMAIN q /\ q[i] = Append(q, op)[i]
    BY AppendFacts
  <2>1. CASE i \in 1..Len(q)
    BY <2>1, AppendFacts
  <2>2. CASE i = Len(q) + 1
    BY <2>2, AppendFacts
  <2>. QED BY <2>1, <2>2
<1>. QED BY <1>1, AppendFacts DEF QueueOf

(* The head leaves: with it goes the election command, if it was one. *)
LEMMA QueueTail ==
  ASSUME NEW q \in Seq(Ops), NEW r \in BOOLEAN, q # <<>>, QueueOf(q, r)
  PROVE  /\ Tail(q) \in Seq(Ops)
         /\ Head(q) \notin Elections => QueueOf(Tail(q), r)
         /\ Head(q) \in Elections => QueueOf(Tail(q), FALSE) /\ r
<1>1. \A i \in DOMAIN Tail(q) :
        i + 1 \in DOMAIN q /\ Tail(q)[i] = q[i + 1] /\ i \in Nat \ {0}
  BY TailFacts
<1>2. \A i, j \in DOMAIN Tail(q) : i + 1 = j + 1 => i = j
  BY <1>1
<1>3. \A i, j \in DOMAIN Tail(q) :
        Tail(q)[i] \in Elections /\ Tail(q)[j] \in Elections => i = j
  BY <1>1, <1>2 DEF QueueOf
<1>4. ASSUME Head(q) \in Elections PROVE QueueOf(Tail(q), FALSE) /\ r
  <2>1. q[1] \in Elections /\ 1 \in DOMAIN q
    BY <1>4, TailFacts
  <2>2. \A i \in DOMAIN Tail(q) : i + 1 # 1
    BY <1>1
  <2>3. \A i \in DOMAIN Tail(q) : Tail(q)[i] \notin Elections
    BY <1>1, <2>1, <2>2 DEF QueueOf
  <2>. QED BY <1>3, <2>1, <2>3 DEF QueueOf
<1>5. ASSUME Head(q) \notin Elections PROVE QueueOf(Tail(q), r)
  <2>1. ASSUME NEW i \in DOMAIN q, q[i] \in Elections
        PROVE  i - 1 \in DOMAIN Tail(q) /\ Tail(q)[i - 1] = q[i]
    <3>1. i # 1
      BY <1>5, <2>1, TailFacts
    <3>. QED BY <3>1
  <2>2. r => \E i \in DOMAIN Tail(q) : Tail(q)[i] \in Elections
    BY <2>1 DEF QueueOf
  <2>3. ~r => \A i \in DOMAIN Tail(q) : Tail(q)[i] \notin Elections
    BY <1>1 DEF QueueOf
  <2>. QED BY <1>3, <2>2, <2>3 DEF QueueOf
<1>. QED BY <1>4, <1>5, TailFacts

-----------------------------------------------------------------------------
(* Nodes *)

LeaseType == [owner : Tokens \cup {None}, ttl : 0..TTL]

(* A step that leaves node m alone. *)
Untouched(m) ==
  /\ up'[m] = up[m] /\ boot'[m] = boot[m] /\ state'[m] = state[m]
  /\ validFor'[m] = validFor[m] /\ running'[m] = running[m] /\ age'[m] = age[m]
  /\ queue'[m] = queue[m] /\ answer'[m] = answer[m]

KeepsBacking(m) == \A d \in 0..TTL : Backed(m, d) => Backed(m, d)'

(* The times a node relies on are within the TTL. *)
LEMMA Times ==
  ASSUME TypeOK, NEW m \in Nodes
  PROVE  /\ TTL \in Nat /\ Safety \in Nat /\ Drift \in Nat /\ Drift <= Safety
         /\ validFor[m] \in Nat /\ validFor[m] + Safety \in 0..TTL
         /\ age[m] \in 0..TTL /\ TTL - age[m] \in 0..TTL
         /\ lease.ttl \in 0..TTL /\ Token(m) \in Tokens /\ Token(m) # None
<1>1. /\ TTL \in Nat /\ Safety \in Nat /\ Drift \in Nat /\ Drift <= Safety
      /\ Token(m) \in Tokens /\ Token(m) # None
  BY Timing, NoneIsNoToken DEF TypeOK, Token, Tokens
<1>2. validFor[m] \in 0..(TTL - Safety) /\ age[m] \in 0..TTL /\ lease.ttl \in 0..TTL
  BY DEF TypeOK
<1>. QED BY <1>1, <1>2, Timing

LEMMA UntouchedInv ==
  ASSUME TypeOK, NEW m \in Nodes, NodeInv(m), Untouched(m), KeepsBacking(m)
  PROVE  NodeInv(m)'
<1>1. validFor[m] + Safety \in 0..TTL /\ TTL - age[m] \in 0..TTL
  BY Times
<1>2. QueueOf(queue[m], running[m])' /\ (queue[m] = <<>> => answer[m] = "none")'
      /\ (~up[m] => queue[m] = <<>> /\ state[m] = "unknown")'
  BY DEF NodeInv, Untouched, QueueOf
<1>3. (IsLeader(m) => Backed(m, validFor[m] + Safety))'
  BY <1>1 DEF NodeInv, Untouched, KeepsBacking, IsLeader, Backed, HoldsLease, Token
<1>4. (AnswerPending(m) /\ TTL - age[m] > Safety => Backed(m, TTL - age[m]))'
  BY <1>1 DEF NodeInv, Untouched, KeepsBacking, AnswerPending, Backed, HoldsLease,
              Token
<1>. QED BY <1>2, <1>3, <1>4 DEF NodeInv

(* What Redis does for one token takes no other token's lease away. *)
LEMMA RedisKeepsBacking ==
  ASSUME TypeOK, NEW tok \in Tokens, NEW op \in Ops, RedisRuns(tok, op),
         boot' = boot
  PROVE  /\ lease' \in LeaseType /\ revoked' \in [Nodes -> BOOLEAN]
         /\ \A m \in Nodes : KeepsBacking(m)
         /\ \A m \in Nodes : tok = Token(m) /\ Agrees(lease, tok, op)
                               => Backed(m, TTL)'
<1>1. lease \in LeaseType /\ TTL \in Nat /\ tok # None
  BY Timing, NoneIsNoToken DEF TypeOK, LeaseType
<1>2. Executes(lease, tok, op) \in LeaseType
  BY <1>1 DEF Executes, LeaseType, NoLease
<1>3. ASSUME NEW m \in Nodes PROVE KeepsBacking(m)
  <2> SUFFICES ASSUME NEW d \in 0..TTL, Backed(m, d) PROVE Backed(m, d)'
    BY DEF KeepsBacking
  <2>0. Token(m)' = Token(m)
    BY DEF Token
  <2>1. CASE tok # Token(m)
    <3>1. revoked'[m] = revoked[m]
      BY <2>1 DEF RedisRuns
    <3>2. lease.owner = Token(m) => lease' = lease
      BY <1>1, <2>1, Times DEF RedisRuns, Executes
    <3>. QED BY <2>0, <3>1, <3>2 DEF Backed, HoldsLease
  <2>2. CASE tok = Token(m)
    <3>1. CASE op = "renew"
      <4>1. revoked'[m] = revoked[m]
        BY <2>2, <3>1 DEF RedisRuns
      <4>2. lease' = IF lease.owner = tok THEN [lease EXCEPT !.ttl = TTL] ELSE lease
        BY <3>1 DEF RedisRuns, Executes
      <4>. QED BY <1>1, <2>0, <2>2, <4>1, <4>2 DEF Backed, HoldsLease, LeaseType
    <3>2. CASE op = "set"
      <4>1. revoked'[m] = (revoked[m] /\ lease.owner # None)
        BY <2>2, <3>2 DEF RedisRuns
      <4>2. lease' = IF lease.owner = None THEN [owner |-> tok, ttl |-> TTL] ELSE lease
        BY <3>2 DEF RedisRuns, Executes
      <4>3. CASE lease.owner = None
        <5>1. lease'.owner = tok /\ lease'.ttl = TTL
          BY <4>2, <4>3
        <5>. QED BY <1>1, <2>0, <2>2, <5>1 DEF Backed, HoldsLease
      <4>4. CASE lease.owner # None
        <5>1. lease' = lease /\ (revoked[m] => revoked'[m])
          BY <4>1, <4>2, <4>4
        <5>. QED BY <2>0, <5>1 DEF Backed, HoldsLease
      <4>. QED BY <4>3, <4>4
    <3>3. CASE op \in {"release", "exit"}
      <4>1. revoked'[m] = (revoked[m] \/ lease.owner = tok)
        BY <2>2, <3>3 DEF RedisRuns
      <4>2. Backed(m, d) => revoked[m] \/ lease.owner = tok
        BY <2>2 DEF Backed, HoldsLease
      <4>. QED BY <4>1, <4>2 DEF Backed
    <3>. QED BY <3>1, <3>2, <3>3 DEF Ops
  <2>. QED BY <2>1, <2>2
<1>4. ASSUME NEW m \in Nodes, tok = Token(m), Agrees(lease, tok, op)
      PROVE  Backed(m, TTL)'
  <2>0. Token(m)' = Token(m)
    BY DEF Token
  <2>1. lease'.owner = tok /\ lease'.ttl = TTL
    BY <1>1, <1>4 DEF RedisRuns, Executes, Agrees, LeaseType
  <2>. QED BY <1>1, <1>4, <2>0, <2>1 DEF Backed, HoldsLease
<1>5. revoked' \in [Nodes -> BOOLEAN]
  BY DEF RedisRuns, TypeOK, Ops
<1>. QED BY <1>2, <1>3, <1>4, <1>5 DEF RedisRuns

(* A finished election leaves a leader with no more than its answer's time.*)
LEMMA FinishedElection ==
  ASSUME TypeOK, NEW n \in Nodes, NEW ok \in BOOLEAN, FinishElection(n, ok)
  PROVE  /\ state' \in [Nodes -> {"unknown", "leader", "standby"}]
         /\ validFor' \in [Nodes -> 0..(TTL - Safety)]
         /\ running' \in [Nodes -> BOOLEAN] /\ age' \in [Nodes -> 0..TTL]
         /\ cooldown' = cooldown
         /\ \A m \in Nodes \ {n} :
              /\ state'[m] = state[m] /\ validFor'[m] = validFor[m]
              /\ running'[m] = running[m] /\ age'[m] = age[m]
         /\ ~running'[n] /\ state'[n] # "unknown"
         /\ state'[n] = "leader" /\ validFor'[n] > 0
              => ok /\ TTL - age[n] > Safety /\ validFor'[n] + Safety = TTL - age[n]
<1>1. TTL \in Nat /\ Safety \in Nat /\ age[n] \in 0..TTL /\ Safety <= TTL
  BY Timing DEF TypeOK
<1>2. /\ running' = [running EXCEPT ![n] = FALSE]
      /\ age' = [age EXCEPT ![n] = 0] /\ cooldown' = cooldown
  BY DEF FinishElection
<1>3. Positive(TTL - age[n] - Safety) \in 0..(TTL - Safety)
  BY <1>1 DEF Positive
<1>4. CASE ok
  <2>1. /\ state' = [state EXCEPT ![n] = "leader"]
        /\ validFor' = [validFor EXCEPT ![n] = Positive(TTL - age[n] - Safety)]
    BY <1>4 DEF FinishElection
  <2>2. validFor'[n] = Positive(TTL - age[n] - Safety)
    BY <2>1 DEF TypeOK
  <2>3. validFor'[n] > 0
          => TTL - age[n] > Safety /\ validFor'[n] + Safety = TTL - age[n]
    BY <1>1, <2>2 DEF Positive
  <2> HIDE DEF Positive
  <2>. QED BY <1>1, <1>2, <1>3, <1>4, <2>1, <2>3 DEF TypeOK
<1>5. CASE ~ok
  <2>1. /\ state' = [state EXCEPT ![n] = "standby"]
        /\ validFor' = [validFor EXCEPT ![n] = 0]
    BY <1>5 DEF FinishElection, StepDown
  <2>. QED BY <1>1, <1>2, <2>1 DEF TypeOK
<1>. QED BY <1>4, <1>5

(* The next command is sent, and no answer to it is there yet. *)
LEMMA SentNext ==
  ASSUME TypeOK, NEW n \in Nodes, NEW q \in Seq(Ops), SendNext(n, q)
  PROVE  /\ queue' \in [Nodes -> Seq(Ops)]
         /\ answer' \in [Nodes -> {"none", "yes", "no"}]
         /\ queue'[n] = q /\ answer'[n] = "none"
         /\ \A m \in Nodes \ {n} : queue'[m] = queue[m] /\ answer'[m] = answer[m]
BY DEF TypeOK, SendNext

LEMMA Enqueued ==
  ASSUME TypeOK, NEW n \in Nodes, NEW op \in Ops, Enqueue(n, op)
  PROVE  /\ queue' \in [Nodes -> Seq(Ops)]
         /\ queue'[n] = Append(queue[n], op) /\ queue'[n] # <<>>
         /\ queue[n] # <<>> => Head(queue'[n]) = Head(queue[n])
         /\ queue[n] = <<>> => Head(queue'[n]) = op
         /\ \A m \in Nodes \ {n} : queue'[m] = queue[m]
<1>1. queue[n] \in Seq(Ops)
  BY DEF TypeOK
<1>2. queue'[n] = Append(queue[n], op) /\ Append(queue[n], op) \in Seq(Ops)
  BY <1>1, AppendFacts DEF Enqueue, TypeOK
<1>. QED BY <1>1, <1>2, AppendFacts DEF Enqueue, TypeOK

LEMMA LeaseStill ==
  ASSUME lease' = lease, revoked' = revoked, boot' = boot, NEW m \in Nodes
  PROVE  KeepsBacking(m)
BY DEF KeepsBacking, Backed, HoldsLease, Token

LEMMA OneNodeMoves ==
  ASSUME IInv, TypeOK', NEW n \in Nodes, NodeInv(n)',
         \A m \in Nodes \ {n} : Untouched(m) /\ KeepsBacking(m)
  PROVE  IInv'
BY UntouchedInv DEF IInv

-----------------------------------------------------------------------------
(* Redis's steps *)

LEMMA AnsweredPreserves ==
  ASSUME IInv, NEW n \in Nodes, Answered(n) PROVE IInv'
<1>1. TypeOK /\ NodeInv(n)
  BY DEF IInv
<1> DEFINE q  == queue[n]
           op == Head(q)
<1>2. /\ q # <<>> /\ answer[n] = "none" /\ RedisRuns(Token(n), op)
      /\ answer' = [answer EXCEPT ![n] =
           IF Agrees(lease, Token(n), op) THEN "yes" ELSE "no"]
      /\ UNCHANGED <<strays, up, boot, local, queue, faults>>
  BY DEF Answered
<1>3. q \in Seq(Ops) /\ op \in Ops /\ Token(n) \in Tokens /\ boot' = boot
  BY <1>1, <1>2, TailFacts, Times DEF TypeOK
<1>4. /\ lease' \in LeaseType /\ revoked' \in [Nodes -> BOOLEAN]
      /\ \A m \in Nodes : KeepsBacking(m)
      /\ Agrees(lease, Token(n), op) => Backed(n, TTL)'
  BY <1>1, <1>2, <1>3, RedisKeepsBacking
<1>5. /\ answer' \in [Nodes -> {"none", "yes", "no"}]
      /\ answer'[n] = "yes" => Agrees(lease, Token(n), op)
      /\ \A m \in Nodes \ {n} : answer'[m] = answer[m]
  BY <1>1, <1>2 DEF TypeOK
<1>6. TypeOK'
  BY <1>1, <1>2, <1>4, <1>5 DEF TypeOK, LeaseType, local
<1>7. \A m \in Nodes \ {n} : Untouched(m)
  BY <1>2, <1>5 DEF Untouched, local
<1>8. NodeInv(n)'
  <2>1. validFor[n] + Safety \in 0..TTL /\ age[n] \in 0..TTL /\ TTL \in Nat
    BY <1>1, Times
  <2>2. (IsLeader(n) => Backed(n, validFor[n] + Safety))'
    BY <1>1, <1>2, <1>4, <2>1
       DEF NodeInv, IsLeader, KeepsBacking, local, Backed, HoldsLease
  <2>3. (AnswerPending(n) => Backed(n, TTL - age[n]))'
    <3>1. age'[n] \in 0..TTL /\ TTL \in Nat /\ lease'.ttl \in Nat
      BY <1>2, <1>4, <2>1 DEF local, LeaseType
    <3>2. AnswerPending(n)' => Backed(n, TTL)'
      BY <1>4, <1>5 DEF AnswerPending
    <3>3. Backed(n, TTL)' => Backed(n, TTL - age[n])'
      BY <3>1 DEF Backed
    <3>. QED BY <3>2, <3>3
  <2>4. QueueOf(queue[n], running[n])' /\ (queue[n] = <<>> => answer[n] = "none")'
        /\ (~up[n] => queue[n] = <<>> /\ state[n] = "unknown")'
    <3>1. queue' = queue /\ running' = running /\ up' = up /\ state' = state
      BY <1>2 DEF local
    <3>2. queue[n] # <<>>
      BY <1>2
    <3>. QED BY <1>1, <3>1, <3>2 DEF NodeInv, QueueOf
  <2>. QED BY <2>2, <2>3, <2>4 DEF NodeInv
<1>. QED BY <1>4, <1>6, <1>7, <1>8, OneNodeMoves

LEMMA StrayRunsPreserves ==
  ASSUME IInv, NEW s \in strays, StrayRuns(s) PROVE IInv'
<1>1. TypeOK /\ s \in Command
  BY DEF IInv, TypeOK
<1>2. s.token \in Tokens /\ s.op \in Ops
  BY <1>1 DEF Command
<1>3. /\ RedisRuns(s.token, s.op) /\ strays' = strays \ {s}
      /\ UNCHANGED <<up, boot, local, queue, answer, faults>>
  BY DEF StrayRuns
<1>4. /\ lease' \in LeaseType /\ revoked' \in [Nodes -> BOOLEAN]
      /\ \A m \in Nodes : KeepsBacking(m)
  BY <1>1, <1>2, <1>3, RedisKeepsBacking
<1>5. TypeOK'
  BY <1>1, <1>3, <1>4 DEF TypeOK, LeaseType, local
<1>6. \A m \in Nodes : Untouched(m)
  BY <1>3 DEF Untouched, local
<1>. QED BY <1>1, <1>4, <1>5, <1>6, UntouchedInv DEF IInv

(* A key that Redis may drop has no more than Drift ticks left, and the    *)
(* times nodes rely on are longer than Safety.                             *)
LEMMA ExpirePreserves ==
  ASSUME IInv, Expire PROVE IInv'
<1>1. TypeOK /\ TTL \in Nat
  BY Timing DEF IInv
<1>2. /\ lease.ttl <= Drift /\ lease' = NoLease
      /\ UNCHANGED <<strays, up, boot, local, queue, answer, faults, revoked>>
  BY DEF Expire
<1>3. TypeOK'
  BY <1>1, <1>2 DEF TypeOK, NoLease, local
<1>4. ASSUME NEW m \in Nodes PROVE NodeInv(m)'
  <2>1. /\ Drift \in Nat /\ Safety \in Nat /\ Drift <= Safety
        /\ validFor[m] \in Nat /\ age[m] \in 0..TTL /\ lease.ttl \in 0..TTL
    BY <1>1, Times
  <2>2. NodeInv(m)
    BY DEF IInv
  <2>3. (IsLeader(m) => Backed(m, validFor[m] + Safety))'
    <3>1. IsLeader(m) => revoked[m]
      BY <1>2, <2>1, <2>2 DEF NodeInv, Backed, IsLeader
    <3>. QED BY <1>2, <3>1 DEF Backed, IsLeader, local
  <2>4. (AnswerPending(m) /\ TTL - age[m] > Safety => Backed(m, TTL - age[m]))'
    <3>1. AnswerPending(m) /\ TTL - age[m] > Safety => revoked[m]
      BY <1>1, <1>2, <2>1, <2>2 DEF NodeInv, Backed
    <3>. QED BY <1>2, <3>1 DEF Backed, AnswerPending, local
  <2>. QED BY <1>2, <2>2, <2>3, <2>4 DEF NodeInv, QueueOf, local
<1>. QED BY <1>3, <1>4 DEF IInv

(* Time runs alike for the key and for those who rely on it. *)
LEMMA TickPreserves ==
  ASSUME IInv, Tick PROVE IInv'
<1>1. TypeOK /\ TTL \in Nat /\ Safety \in Nat /\ Cooldown \in Nat /\ Safety <= TTL
  BY Timing DEF IInv
<1>2. /\ lease.owner # None => lease.ttl > 0
      /\ lease' = [lease EXCEPT !.ttl = Positive(@ - 1)]
      /\ validFor' = [n \in Nodes |-> Positive(validFor[n] - 1)]
      /\ cooldown' = [n \in Nodes |-> Positive(cooldown[n] - 1)]
      /\ age' = [n \in Nodes |->
           IF running[n] /\ age[n] < TTL THEN age[n] + 1 ELSE age[n]]
      /\ UNCHANGED <<strays, up, boot, state, running, queue, answer, faults, revoked>>
  BY DEF Tick
<1>3. TypeOK'
  <2>1. lease' \in LeaseType
    <3>1. lease \in LeaseType
      BY <1>1 DEF TypeOK, LeaseType
    <3>2. Positive(lease.ttl - 1) \in 0..TTL
      BY <1>1, <3>1 DEF LeaseType, Positive
    <3>. QED BY <1>2, <3>1, <3>2 DEF LeaseType
  <2>2. validFor' \in [Nodes -> 0..(TTL - Safety)]
    BY <1>1, <1>2 DEF TypeOK, Positive
  <2>3. cooldown' \in [Nodes -> 0..Cooldown]
    BY <1>1, <1>2 DEF TypeOK, Positive
  <2>4. age' \in [Nodes -> 0..TTL]
    BY <1>1, <1>2 DEF TypeOK
  <2>. QED BY <1>1, <1>2, <2>1, <2>2, <2>3, <2>4 DEF TypeOK, LeaseType
<1>4. ASSUME NEW m \in Nodes PROVE NodeInv(m)'
  <2>1. /\ validFor[m] \in Nat /\ age[m] \in 0..TTL /\ lease.ttl \in 0..TTL
        /\ Token(m) # None /\ Token(m)' = Token(m)
    BY <1>1, <1>2, Times DEF Token
  <2>2. NodeInv(m)
    BY DEF IInv
  <2>3. /\ lease'.owner = lease.owner
        /\ HoldsLease(m) => lease'.ttl = lease.ttl - 1
    <3>1. lease'.owner = lease.owner /\ lease'.ttl = Positive(lease.ttl - 1)
      BY <1>1, <1>2 DEF TypeOK
    <3>2. HoldsLease(m) => lease.ttl > 0
      BY <1>2, <2>1 DEF HoldsLease
    <3>. QED BY <2>1, <3>1, <3>2 DEF Positive
  <2>4. (IsLeader(m) => Backed(m, validFor[m] + Safety))'
    <3>1. validFor'[m] > 0 => validFor[m] > 0 /\ validFor'[m] = validFor[m] - 1
      BY <1>2, <2>1 DEF Positive
    <3>. QED
      BY <1>1, <1>2, <2>1, <2>2, <2>3, <3>1 DEF NodeInv, IsLeader, Backed, HoldsLease
  <2>5. (AnswerPending(m) /\ TTL - age[m] > Safety => Backed(m, TTL - age[m]))'
    <3> SUFFICES ASSUME AnswerPending(m)', TTL - age'[m] > Safety
                 PROVE  Backed(m, TTL - age[m])'
      OBVIOUS
    <3>1. AnswerPending(m)
      BY <1>2 DEF AnswerPending
    <3>2. running[m]
      BY <1>1, <2>2, <3>1, QueueTail DEF AnswerPending, NodeInv, TypeOK
    <3>3. age'[m] = age[m] + 1
      BY <1>1, <1>2, <2>1, <3>2
    <3>. QED
      BY <1>1, <1>2, <2>1, <2>2, <2>3, <3>1, <3>3 DEF NodeInv, Backed, HoldsLease
  <2>. QED BY <1>2, <2>2, <2>4, <2>5 DEF NodeInv, QueueOf
<1>. QED BY <1>3, <1>4 DEF IInv

-----------------------------------------------------------------------------
(* Steps of a node *)

(* What a node's step must do to preserve the invariant when it leaves the *)
(* lease alone: keep the types, touch no other node and end neither as a   *)
(* leader it was not, nor with an answer it had not.                       *)
LEMMA LocalStep ==
  ASSUME IInv, NEW n \in Nodes, TypeOK', \A m \in Nodes \ {n} : Untouched(m),
         lease' = lease, revoked' = revoked, boot' = boot, NodeInv(n)'
  PROVE  IInv'
BY LeaseStill, OneNodeMoves

LEMMA RunElectionPreserves ==
  ASSUME IInv, NEW n \in Nodes, RunElection(n) PROVE IInv'
<1>1. TypeOK /\ NodeInv(n) /\ queue[n] \in Seq(Ops) /\ TTL \in Nat
  BY Timing DEF IInv, TypeOK
<1>2. /\ up[n] /\ ~running[n]
      /\ running' = [running EXCEPT ![n] = TRUE]
      /\ age' = [age EXCEPT ![n] = 0]
      /\ Enqueue(n, "renew")
      /\ UNCHANGED <<lease, strays, up, boot, state, validFor, cooldown, answer,
                     faults, revoked>>
  BY DEF RunElection
<1>3. "renew" \in Ops /\ "renew" \in Elections
  BY DEF Ops, Elections
<1>4. /\ queue' \in [Nodes -> Seq(Ops)] /\ queue'[n] # <<>>
      /\ queue'[n] = Append(queue[n], "renew")
      /\ queue[n] # <<>> => Head(queue'[n]) = Head(queue[n])
      /\ \A m \in Nodes \ {n} : queue'[m] = queue[m]
  BY <1>1, <1>2, <1>3, Enqueued
<1>5. TypeOK'
  <2>1. age' \in [Nodes -> 0..TTL]
    BY <1>1, <1>2 DEF TypeOK
  <2>2. running' \in [Nodes -> BOOLEAN]
    BY <1>1, <1>2 DEF TypeOK
  <2>. QED BY <1>1, <1>2, <1>4, <2>1, <2>2 DEF TypeOK
<1>6. \A m \in Nodes \ {n} : Untouched(m)
  BY <1>1, <1>2, <1>4 DEF Untouched, TypeOK
<1>7. NodeInv(n)'
  <2>1. running'[n] = TRUE
    BY <1>1, <1>2 DEF TypeOK
  <2>2. QueueOf(queue[n], FALSE)
    BY <1>1, <1>2 DEF NodeInv, QueueOf
  <2>3. QueueOf(queue[n], running[n])'
    BY <1>1, <1>3, <1>4, <2>1, <2>2, QueueElection DEF QueueOf
  <2>4. ~AnswerPending(n)'
    <3>1. CASE queue[n] = <<>>
      BY <1>1, <1>2, <3>1 DEF NodeInv, AnswerPending
    <3>2. CASE queue[n] # <<>>
      <4>1. Head(queue[n]) \notin Elections
        BY <1>1, <2>2, <3>2, TailFacts DEF QueueOf
      <4>. QED BY <1>4, <3>2, <4>1 DEF AnswerPending
    <3>. QED BY <3>1, <3>2
  <2>5. (IsLeader(n) => Backed(n, validFor[n] + Safety))'
    BY <1>1, <1>2 DEF NodeInv, IsLeader, Backed, HoldsLease, Token
  <2>. QED BY <1>2, <1>4, <2>3, <2>4, <2>5 DEF NodeInv
<1>. QED BY <1>2, <1>5, <1>6, <1>7, LocalStep

LEMMA RenewalRefusedPreserves ==
  ASSUME IInv, NEW n \in Nodes, RenewalRefused(n) PROVE IInv'
<1>1. TypeOK /\ NodeInv(n) /\ queue[n] \in Seq(Ops) /\ running[n] \in BOOLEAN
  BY DEF IInv, TypeOK
<1> DEFINE q == Append(Tail(queue[n]), "set")
<1>2. /\ queue[n] # <<>> /\ Head(queue[n]) = "renew" /\ SendNext(n, q)
      /\ UNCHANGED <<lease, strays, up, boot, local, faults, revoked>>
  BY DEF RenewalRefused
<1>3. "set" \in Elections /\ Head(queue[n]) \in Elections
  BY <1>2 DEF Elections
<1>4. QueueOf(Tail(queue[n]), FALSE) /\ Tail(queue[n]) \in Seq(Ops) /\ running[n]
  BY <1>1, <1>2, <1>3, QueueTail DEF NodeInv
<1>5. QueueOf(q, TRUE) /\ q \in Seq(Ops)
  BY <1>3, <1>4, QueueElection
<1>6. /\ queue' \in [Nodes -> Seq(Ops)]
      /\ answer' \in [Nodes -> {"none", "yes", "no"}]
      /\ queue'[n] = q /\ answer'[n] = "none"
      /\ \A m \in Nodes \ {n} : queue'[m] = queue[m] /\ answer'[m] = answer[m]
  BY <1>1, <1>2, <1>5, SentNext
<1>7. TypeOK'
  BY <1>1, <1>2, <1>6 DEF TypeOK, local
<1>8. \A m \in Nodes \ {n} : Untouched(m)
  BY <1>2, <1>6 DEF Untouched, local
<1>9. NodeInv(n)'
  <2>1. QueueOf(queue[n], running[n])'
    BY <1>2, <1>4, <1>5, <1>6 DEF QueueOf, local
  <2>2. (IsLeader(n) => Backed(n, validFor[n] + Safety))'
    BY <1>1, <1>2 DEF NodeInv, IsLeader, Backed, HoldsLease, Token, local
  <2>3. up[n]' = TRUE
    BY <1>1, <1>2 DEF NodeInv, local, TypeOK
  <2>. QED BY <1>6, <2>1, <2>2, <2>3 DEF NodeInv, AnswerPending
<1>. QED BY <1>2, <1>7, <1>8, <1>9, LocalStep

(* The end of an election, and whichever way its command left the queue:   *)
(* the new deadline is the one the answer paid for.                        *)
LEMMA ElectionOver ==
  ASSUME IInv, NEW n \in Nodes, NEW ok \in BOOLEAN, NEW q \in Seq(Ops),
         FinishElection(n, ok), SendNext(n, q), QueueOf(q, FALSE), up[n],
         ok => AnswerPending(n),
         strays' \in SUBSET Command, faults' \in 0..MaxFaults,
         UNCHANGED <<lease, up, boot, revoked>>
  PROVE  IInv'
<1>1. TypeOK /\ NodeInv(n)
  BY DEF IInv
<1>2. /\ state' \in [Nodes -> {"unknown", "leader", "standby"}]
      /\ validFor' \in [Nodes -> 0..(TTL - Safety)]
      /\ running' \in [Nodes -> BOOLEAN] /\ age' \in [Nodes -> 0..TTL]
      /\ cooldown' = cooldown
      /\ \A m \in Nodes \ {n} :
           /\ state'[m] = state[m] /\ validFor'[m] = validFor[m]
           /\ running'[m] = running[m] /\ age'[m] = age[m]
      /\ ~running'[n]
      /\ state'[n] = "leader" /\ validFor'[n] > 0
           => ok /\ TTL - age[n] > Safety /\ validFor'[n] + Safety = TTL - age[n]
  BY <1>1, FinishedElection
<1>3. /\ queue' \in [Nodes -> Seq(Ops)]
      /\ answer' \in [Nodes -> {"none", "yes", "no"}]
      /\ queue'[n] = q /\ answer'[n] = "none"
      /\ \A m \in Nodes \ {n} : queue'[m] = queue[m] /\ answer'[m] = answer[m]
  BY <1>1, SentNext
<1>4. TypeOK'
  BY <1>1, <1>2, <1>3 DEF TypeOK
<1>5. \A m \in Nodes \ {n} : Untouched(m)
  BY <1>2, <1>3 DEF Untouched
<1>6. NodeInv(n)'
  <2>1. QueueOf(queue[n], running[n])'
    BY <1>2, <1>3 DEF QueueOf
  <2>2. (IsLeader(n) => Backed(n, validFor[n] + Safety))'
    <3> SUFFICES ASSUME IsLeader(n)' PROVE Backed(n, validFor[n] + Safety)'
      OBVIOUS
    <3>1. ok /\ TTL - age[n] > Safety /\ validFor'[n] + Safety = TTL - age[n]
      BY <1>2 DEF IsLeader
    <3>2. Backed(n, TTL - age[n])
      BY <1>1, <3>1 DEF NodeInv
    <3>. QED BY <3>1, <3>2 DEF Backed, HoldsLease, Token
  <2>. QED BY <1>3, <2>1, <2>2 DEF NodeInv, AnswerPending
<1>. QED BY <1>4, <1>5, <1>6, LocalStep

(* A node with commands waiting is up. *)
LEMMA Waiting ==
  ASSUME IInv, NEW n \in Nodes, queue[n] # <<>>
  PROVE  /\ up[n] /\ queue[n] \in Seq(Ops) /\ Head(queue[n]) \in Ops
         /\ running[n] \in BOOLEAN /\ QueueOf(queue[n], running[n])
BY TailFacts DEF IInv, NodeInv, TypeOK

LEMMA ElectionEndsPreserves ==
  ASSUME IInv, NEW n \in Nodes, ElectionEnds(n) PROVE IInv'
<1>1. /\ queue[n] # <<>> /\ Head(queue[n]) \in Elections
      /\ FinishElection(n, answer[n] = "yes")
      /\ SendNext(n, Tail(queue[n]))
      /\ UNCHANGED <<lease, strays, up, boot, faults, revoked>>
  BY DEF ElectionEnds
<1>2. up[n] /\ QueueOf(Tail(queue[n]), FALSE) /\ Tail(queue[n]) \in Seq(Ops)
  BY <1>1, Waiting, QueueTail
<1>3. strays' \in SUBSET Command /\ faults' \in 0..MaxFaults
  BY <1>1 DEF IInv, TypeOK
<1>4. answer[n] = "yes" => AnswerPending(n)
  BY <1>1 DEF AnswerPending
<1>. QED BY <1>1, <1>2, <1>3, <1>4, ElectionOver

(* Stepping down. *)
LEMMA StepDownPreserves ==
  ASSUME IInv, NEW n \in Nodes, up[n], StepDown(n),
         UNCHANGED <<lease, strays, up, boot, cooldown, running, age, queue,
                     answer, faults, revoked>>
  PROVE  IInv'
<1>1. TypeOK /\ NodeInv(n) /\ TTL - Safety \in Nat
  BY Timing DEF IInv
<1>2. /\ state' = [state EXCEPT ![n] = "standby"]
      /\ validFor' = [validFor EXCEPT ![n] = 0]
  BY DEF StepDown
<1>3. TypeOK'
  <2>1. validFor' \in [Nodes -> 0..(TTL - Safety)]
    BY <1>1, <1>2 DEF TypeOK
  <2>. QED BY <1>1, <1>2, <2>1 DEF TypeOK
<1>4. \A m \in Nodes \ {n} : Untouched(m)
  BY <1>1, <1>2 DEF Untouched, TypeOK
<1>5. NodeInv(n)'
  <2>1. ~IsLeader(n)'
    BY <1>1, <1>2 DEF IsLeader, TypeOK
  <2>2. (AnswerPending(n) /\ TTL - age[n] > Safety => Backed(n, TTL - age[n]))'
    BY <1>1 DEF NodeInv, AnswerPending, Backed, HoldsLease, Token
  <2>. QED BY <1>1, <2>1, <2>2 DEF NodeInv, QueueOf
<1>. QED BY <1>3, <1>4, <1>5, LocalStep

(* A release joins the queue; the node may step down with it. *)
LEMMA ReleaseQueued ==
  ASSUME IInv, NEW n \in Nodes, up[n], NEW op \in {"release", "exit"},
         Enqueue(n, op), StepDown(n) \/ UNCHANGED <<state, validFor>>,
         cooldown' \in [Nodes -> 0..Cooldown],
         UNCHANGED <<lease, strays, up, boot, running, age, answer, faults, revoked>>
  PROVE  IInv'
<1>1. TypeOK /\ NodeInv(n) /\ queue[n] \in Seq(Ops) /\ TTL - Safety \in Nat
      /\ running[n] \in BOOLEAN
  <2>1. TypeOK /\ NodeInv(n)
    BY DEF IInv
  <2>2. queue[n] \in Seq(Ops) /\ running[n] \in BOOLEAN
    BY <2>1 DEF TypeOK
  <2>. QED BY <2>1, <2>2, Timing
<1>2. op \in Ops \ Elections
  BY DEF Ops, Elections
<1>3. /\ queue' \in [Nodes -> Seq(Ops)] /\ queue'[n] # <<>>
      /\ queue'[n] = Append(queue[n], op)
      /\ queue[n] # <<>> => Head(queue'[n]) = Head(queue[n])
      /\ queue[n] = <<>> => Head(queue'[n]) = op
      /\ \A m \in Nodes \ {n} : queue'[m] = queue[m]
  BY <1>1, <1>2, Enqueued
<1>4. /\ state' \in [Nodes -> {"unknown", "leader", "standby"}]
      /\ validFor' \in [Nodes -> 0..(TTL - Safety)]
      /\ \A m \in Nodes \ {n} : state'[m] = state[m] /\ validFor'[m] = validFor[m]
      /\ IsLeader(n)' => IsLeader(n) /\ validFor'[n] = validFor[n]
  <2>1. CASE StepDown(n)
    <3>1. /\ state' = [state EXCEPT ![n] = "standby"]
          /\ validFor' = [validFor EXCEPT ![n] = 0]
      BY <2>1 DEF StepDown
    <3>. QED BY <1>1, <3>1 DEF TypeOK, IsLeader
  <2>2. CASE UNCHANGED <<state, validFor>>
    BY <1>1, <2>2 DEF TypeOK, IsLeader
  <2>. QED BY <2>1, <2>2
<1>5. TypeOK'
  BY <1>1, <1>3, <1>4 DEF TypeOK
<1>6. \A m \in Nodes \ {n} : Untouched(m)
  BY <1>3, <1>4 DEF Untouched
<1>7. NodeInv(n)'
  <2>1. QueueOf(queue[n], running[n])'
    BY <1>1, <1>2, <1>3, QueueRelease DEF NodeInv, QueueOf
  <2>2. (IsLeader(n) => Backed(n, validFor[n] + Safety))'
    BY <1>1, <1>4 DEF NodeInv, Backed, HoldsLease, Token
  <2>3. AnswerPending(n)' => AnswerPending(n)
    BY <1>2, <1>3 DEF AnswerPending
  <2>4. (AnswerPending(n) /\ TTL - age[n] > Safety => Backed(n, TTL - age[n]))'
    BY <1>1, <2>3 DEF NodeInv, Backed, HoldsLease, Token
  <2>. QED BY <1>3, <2>1, <2>2, <2>4 DEF NodeInv
<1>. QED BY <1>5, <1>6, <1>7, LocalStep

(* A process that has stopped relies on nothing. *)
LEMMA StopsPreserves ==
  ASSUME IInv, NEW n \in Nodes, Stops(n), strays' \in SUBSET Command,
         faults' \in 0..MaxFaults, UNCHANGED <<lease, boot, revoked>>
  PROVE  IInv'
<1>1. TypeOK /\ TTL \in Nat /\ TTL - Safety \in Nat /\ Cooldown \in Nat
  BY Timing DEF IInv
<1>2. /\ up' = [up EXCEPT ![n] = FALSE]
      /\ state' = [state EXCEPT ![n] = "unknown"]
      /\ validFor' = [validFor EXCEPT ![n] = 0]
      /\ cooldown' = [cooldown EXCEPT ![n] = 0]
      /\ running' = [running EXCEPT ![n] = FALSE]
      /\ age' = [age EXCEPT ![n] = 0]
      /\ SendNext(n, <<>>)
  BY DEF Stops
<1>3. <<>> \in Seq(Ops)
  OBVIOUS
<1>4. /\ queue' \in [Nodes -> Seq(Ops)]
      /\ answer' \in [Nodes -> {"none", "yes", "no"}]
      /\ queue'[n] = <<>> /\ answer'[n] = "none"
      /\ \A m \in Nodes \ {n} : queue'[m] = queue[m] /\ answer'[m] = answer[m]
  BY <1>1, <1>2, <1>3, SentNext
<1>5. TypeOK'
  <2>1. /\ validFor' \in [Nodes -> 0..(TTL - Safety)]
        /\ cooldown' \in [Nodes -> 0..Cooldown] /\ age' \in [Nodes -> 0..TTL]
    BY <1>1, <1>2 DEF TypeOK
  <2>2. /\ up' \in [Nodes -> BOOLEAN] /\ running' \in [Nodes -> BOOLEAN]
        /\ state' \in [Nodes -> {"unknown", "leader", "standby"}]
    BY <1>1, <1>2 DEF TypeOK
  <2>. QED BY <1>1, <1>4, <2>1, <2>2 DEF TypeOK
<1>6. \A m \in Nodes \ {n} : Untouched(m)
  BY <1>1, <1>2, <1>4 DEF Untouched, TypeOK
<1>7. NodeInv(n)'
  <2>1. ~up'[n] /\ state'[n] = "unknown" /\ ~running'[n]
    BY <1>1, <1>2 DEF TypeOK
  <2>. QED BY <1>4, <2>1 DEF NodeInv, QueueOf, IsLeader, AnswerPending
<1>. QED BY <1>5, <1>6, <1>7, LocalStep

LEMMA RestartPreserves ==
  ASSUME IInv, NEW n \in Nodes, Restart(n) PROVE IInv'
<1>1. TypeOK /\ NodeInv(n)
  BY DEF IInv
<1>2. /\ ~up[n] /\ boot[n] < MaxBoots
      /\ up' = [up EXCEPT ![n] = TRUE]
      /\ boot' = [boot EXCEPT ![n] = @ + 1]
      /\ revoked' = [revoked EXCEPT ![n] = FALSE]
      /\ UNCHANGED <<lease, strays, local, queue, answer, faults>>
  BY DEF Restart
<1>3. TypeOK'
  <2>1. boot' \in [Nodes -> 1..MaxBoots]
    BY <1>1, <1>2, Timing DEF TypeOK
  <2>2. up' \in [Nodes -> BOOLEAN] /\ revoked' \in [Nodes -> BOOLEAN]
    BY <1>1, <1>2 DEF TypeOK
  <2>. QED BY <1>1, <1>2, <2>1, <2>2 DEF TypeOK, local
<1>4. \A m \in Nodes \ {n} : Untouched(m) /\ KeepsBacking(m)
  <2> SUFFICES ASSUME NEW m \in Nodes \ {n} PROVE Untouched(m) /\ KeepsBacking(m)
    OBVIOUS
  <2>1. up'[m] = up[m] /\ boot'[m] = boot[m] /\ revoked'[m] = revoked[m]
    BY <1>1, <1>2 DEF TypeOK
  <2>. QED
    BY <1>2, <2>1 DEF Untouched, KeepsBacking, Backed, HoldsLease, Token, local
<1>5. NodeInv(n)'
  <2>1. queue'[n] = <<>> /\ state'[n] = "unknown" /\ up'[n] = TRUE
    BY <1>1, <1>2 DEF NodeInv, TypeOK, local
  <2>. QED
    BY <1>1, <1>2, <2>1 DEF NodeInv, QueueOf, IsLeader, AnswerPending, local
<1>. QED BY <1>3, <1>4, <1>5, OneNodeMoves

LEMMA AfterReleasePreserves ==
  ASSUME IInv, NEW n \in Nodes, queue[n] # <<>>, Head(queue[n]) \notin Elections,
         AfterRelease(n), strays' \in SUBSET Command, faults' \in 0..MaxFaults,
         UNCHANGED <<lease, up, boot, revoked>>
  PROVE  IInv'
<1> DEFINE rest == Tail(queue[n])
<1>1. TypeOK /\ NodeInv(n) /\ up[n] /\ running[n] \in BOOLEAN
  BY Waiting DEF IInv
<1>2. QueueOf(rest, running[n]) /\ rest \in Seq(Ops)
  BY Waiting, QueueTail
<1> HIDE DEF rest
<1>3. CASE SendNext(n, rest) /\ UNCHANGED local
  <2>1. /\ queue' \in [Nodes -> Seq(Ops)]
        /\ answer' \in [Nodes -> {"none", "yes", "no"}]
        /\ queue'[n] = rest /\ answer'[n] = "none"
        /\ \A m \in Nodes \ {n} : queue'[m] = queue[m] /\ answer'[m] = answer[m]
    BY <1>1, <1>2, <1>3, SentNext
  <2>2. TypeOK'
    BY <1>1, <1>3, <2>1 DEF TypeOK, local
  <2>3. \A m \in Nodes \ {n} : Untouched(m)
    BY <1>3, <2>1 DEF Untouched, local
  <2>4. NodeInv(n)'
    <3>1. QueueOf(queue[n], running[n])'
      BY <1>2, <1>3, <2>1 DEF QueueOf, local
    <3>2. (IsLeader(n) => Backed(n, validFor[n] + Safety))'
      BY <1>1, <1>3 DEF NodeInv, IsLeader, Backed, HoldsLease, Token, local
    <3>. QED BY <1>1, <2>1, <3>1, <3>2 DEF NodeInv, AnswerPending
  <2>. QED BY <2>2, <2>3, <2>4, LocalStep
<1>4. CASE /\ rest # <<>> /\ Head(rest) \in Elections
           /\ FinishElection(n, FALSE) /\ SendNext(n, Tail(rest))
  <2>1. QueueOf(Tail(rest), FALSE) /\ Tail(rest) \in Seq(Ops)
    BY <1>1, <1>2, <1>4, QueueTail
  <2>. QED BY <1>1, <1>4, <2>1, ElectionOver
<1>. QED BY <1>3, <1>4 DEF AfterRelease, rest

LEMMA ReleaseEndsPreserves ==
  ASSUME IInv, NEW n \in Nodes, ReleaseEnds(n) PROVE IInv'
<1>1. strays' \in SUBSET Command /\ faults' \in 0..MaxFaults
  BY DEF ReleaseEnds, IInv, TypeOK
<1>2. CASE Head(queue[n]) = "release" /\ AfterRelease(n) /\ UNCHANGED up
  <2>1. Head(queue[n]) \notin Elections
    BY <1>2 DEF Elections
  <2>. QED BY <1>1, <1>2, <2>1, AfterReleasePreserves DEF ReleaseEnds
<1>3. CASE Stops(n)
  BY <1>1, <1>3, StopsPreserves DEF ReleaseEnds
<1>. QED BY <1>2, <1>3 DEF ReleaseEnds

LEMMA AbandonedType ==
  ASSUME IInv, NEW n \in Nodes, Abandons(n) PROVE strays' \in SUBSET Command
<1>1. TypeOK
  BY DEF IInv
<1>2. CASE UNCHANGED strays
  BY <1>1, <1>2 DEF TypeOK
<1>3. CASE /\ queue[n] # <<>>
           /\ strays' = strays \cup {[token |-> Token(n), op |-> Head(queue[n])]}
  <2>1. Token(n) \in Tokens /\ Head(queue[n]) \in Ops
    BY <1>1, <1>3, Times, Waiting
  <2>. QED BY <1>1, <1>3, <2>1 DEF TypeOK, Command
<1>. QED BY <1>2, <1>3 DEF Abandons

LEMMA CommandFailsPreserves ==
  ASSUME IInv, NEW n \in Nodes, CommandFails(n) PROVE IInv'
<1>1. /\ queue[n] # <<>> /\ faults < MaxFaults /\ faults' = faults + 1
      /\ Abandons(n) /\ UNCHANGED <<lease, boot, revoked>>
  BY DEF CommandFails
<1>2. strays' \in SUBSET Command /\ faults' \in 0..MaxFaults
  <2>1. TypeOK
    BY DEF IInv
  <2>2. faults \in 0..MaxFaults /\ MaxFaults \in Nat
    BY <2>1, Timing DEF TypeOK
  <2>. QED BY <1>1, <2>2, AbandonedType
<1>3. /\ up[n] /\ queue[n] \in Seq(Ops) /\ Head(queue[n]) \in Ops
      /\ running[n] \in BOOLEAN /\ QueueOf(queue[n], running[n])
  BY <1>1, Waiting
<1>4. CASE Head(queue[n]) \in Elections
  <2>1. FinishElection(n, FALSE) /\ SendNext(n, Tail(queue[n])) /\ UNCHANGED up
    BY <1>4 DEF CommandFails, Elections
  <2>2. QueueOf(Tail(queue[n]), FALSE) /\ Tail(queue[n]) \in Seq(Ops)
    BY <1>1, <1>3, <1>4, QueueTail
  <2>. QED BY <1>1, <1>2, <1>3, <2>1, <2>2, ElectionOver
<1>5. CASE Head(queue[n]) = "release"
  <2>1. AfterRelease(n) /\ UNCHANGED up /\ Head(queue[n]) \notin Elections
    BY <1>5 DEF CommandFails, Elections
  <2>. QED BY <1>1, <1>2, <2>1, AfterReleasePreserves
<1>6. CASE Head(queue[n]) = "exit"
  <2>1. Stops(n)
    BY <1>6 DEF CommandFails, Elections
  <2>. QED BY <1>1, <1>2, <2>1, StopsPreserves
<1>. QED BY <1>3, <1>4, <1>5, <1>6 DEF Ops, Elections

LEMMA CrashPreserves ==
  ASSUME IInv, NEW n \in Nodes, Crash(n) PROVE IInv'
<1>1. Stops(n) /\ Abandons(n) /\ UNCHANGED <<lease, boot, faults, revoked>>
  BY DEF Crash
<1>2. strays' \in SUBSET Command /\ faults' \in 0..MaxFaults
  BY <1>1, AbandonedType DEF IInv, TypeOK
<1>. QED BY <1>1, <1>2, StopsPreserves

LEMMA NodeStepPreserves ==
  ASSUME IInv, NEW n \in Nodes, NodeStep(n) PROVE IInv'
<1>1. CASE RunElection(n)
  BY <1>1, RunElectionPreserves
<1>2. CASE RunElectionInCooldown(n)
  BY <1>2, StepDownPreserves DEF RunElectionInCooldown
<1>3. CASE RenewalRefused(n)
  BY <1>3, RenewalRefusedPreserves
<1>4. CASE ElectionEnds(n)
  BY <1>4, ElectionEndsPreserves
<1>5. CASE NoticeDeadline(n)
  BY <1>5, StepDownPreserves DEF NoticeDeadline
<1>6. CASE Relinquish(n)
  <2>1. cooldown' \in [Nodes -> 0..Cooldown]
    <3>1. cooldown' = [cooldown EXCEPT ![n] = Cooldown]
      BY <1>6 DEF Relinquish
    <3>2. Cooldown \in 0..Cooldown /\ cooldown \in [Nodes -> 0..Cooldown]
      BY Timing DEF IInv, TypeOK
    <3>. QED BY <3>1, <3>2
  <2>. QED BY <1>6, <2>1, ReleaseQueued DEF Relinquish
<1>7. CASE Signal(n)
  <2>1. cooldown' \in [Nodes -> 0..Cooldown]
    BY <1>7 DEF Signal, IInv, TypeOK, local
  <2>. QED BY <1>7, <2>1, ReleaseQueued DEF Signal, local
<1>8. CASE ReleaseEnds(n)
  BY <1>8, ReleaseEndsPreserves
<1>9. CASE CommandFails(n)
  BY <1>9, CommandFailsPreserves
<1>10. CASE Crash(n)
  BY <1>10, CrashPreserves
<1>11. CASE Restart(n)
  BY <1>11, RestartPreserves
<1>. QED
  BY <1>1, <1>2, <1>3, <1>4, <1>5, <1>6, <1>7, <1>8, <1>9, <1>10, <1>11 DEF NodeStep

-----------------------------------------------------------------------------
(* Theorems *)

LEMMA InitInv ==
  ASSUME Init PROVE IInv
<1>1. TypeOK
  <2>1. <<>> \in Seq(Ops)
    OBVIOUS
  <2>. QED BY <2>1, Timing DEF Init, TypeOK, NoLease
<1>2. \A n \in Nodes : NodeInv(n)
  BY DEF Init, NodeInv, QueueOf, IsLeader, AnswerPending
<1>. QED BY <1>1, <1>2 DEF IInv

LEMMA NextPreserves ==
  ASSUME IInv, [Next]_vars PROVE IInv'
<1>1. ASSUME NEW n \in Nodes, NodeStep(n) PROVE IInv'
  BY <1>1, NodeStepPreserves
<1>2. ASSUME NEW n \in Nodes, Answered(n) PROVE IInv'
  BY <1>2, AnsweredPreserves
<1>3. ASSUME NEW s \in strays, StrayRuns(s) PROVE IInv'
  BY <1>3, StrayRunsPreserves
<1>4. CASE Expire
  BY <1>4, ExpirePreserves
<1>5. CASE Tick
  BY <1>5, TickPreserves
<1>6. CASE UNCHANGED vars
  <2>1. TypeOK'
    BY <1>6 DEF IInv, TypeOK, vars, local
  <2>2. \A m \in Nodes : Untouched(m) /\ KeepsBacking(m)
    BY <1>6 DEF Untouched, KeepsBacking, Backed, HoldsLease, Token, vars, local
  <2>. QED BY <2>1, <2>2, UntouchedInv DEF IInv
<1>. QED BY <1>1, <1>2, <1>3, <1>4, <1>5, <1>6 DEF Next

THEOREM Inductive == Spec => []IInv
<1>1. Init => IInv
  BY InitInv
<1>2. IInv /\ [Next]_vars => IInv'
  BY NextPreserves
<1>. QED BY <1>1, <1>2, PTL DEF Spec

(* Every variable of leader.ts and of Redis keeps its type. *)
THEOREM TypeCorrect == Spec => []TypeOK
<1>1. IInv => TypeOK
  BY DEF IInv
<1>. QED BY <1>1, Inductive, PTL

(* isLeader() never outlives the lease: only the node's own release can    *)
(* take the key away from under it.                                        *)
THEOREM LeaseNeverLost == Spec => []LeaseHeld
<1>1. IInv => LeaseHeld
  BY DEF IInv, NodeInv, Backed, LeaseHeld
<1>. QED BY <1>1, Inductive, PTL

(* Two nodes are leaders at the same time only after one has released.     *)
THEOREM LeadersExclude == Spec => []SoleLeader
<1>1. IInv => SoleLeader
  <2> SUFFICES ASSUME IInv, NEW m \in Nodes, NEW n \in Nodes, m # n,
                      IsLeader(m), IsLeader(n), ~revoked[m], ~revoked[n]
               PROVE  FALSE
    BY DEF SoleLeader
  <2>1. HoldsLease(m) /\ HoldsLease(n)
    BY DEF IInv, NodeInv, Backed
  <2>. QED BY <2>1 DEF HoldsLease, Token
<1>. QED BY <1>1, Inductive, PTL

(* Each running election has exactly one command with Redis.               *)
THEOREM ElectionsDoNotPileUp == Spec => []OneElectionCommand
<1>1. IInv => OneElectionCommand
  <2> SUFFICES ASSUME IInv, NEW n \in Nodes
               PROVE  Cardinality({i \in DOMAIN queue[n] : queue[n][i] \in Elections})
                        = IF running[n] THEN 1 ELSE 0
    BY DEF OneElectionCommand
  <2> DEFINE E == {i \in DOMAIN queue[n] : queue[n][i] \in Elections}
  <2>1. QueueOf(queue[n], running[n]) /\ running[n] \in BOOLEAN
    BY DEF IInv, NodeInv, TypeOK
  <2>2. CASE running[n]
    <3>1. PICK i \in E : TRUE
      BY <2>1, <2>2 DEF QueueOf
    <3>2. E = {i}
      BY <2>1, <3>1 DEF QueueOf
    <3>. QED BY <2>2, <3>2, FS_Singleton
  <2>3. CASE ~running[n]
    <3>1. E = {}
      BY <2>1, <2>3 DEF QueueOf
    <3>. QED BY <2>3, <3>1, FS_EmptySet
  <2>. QED BY <2>1, <2>2, <2>3
<1>. QED BY <1>1, Inductive, PTL
=============================================================================
