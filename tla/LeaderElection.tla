--------------------------- MODULE LeaderElection ---------------------------
(***************************************************************************)
(* Leader election over Redis (oracle-worker/src/leader.ts, redisLock.ts). *)
(* Worker processes on separate hosts compete for one key with an expiry.  *)
(* A process suspends at every `await' of a Redis command, so elections,   *)
(* a voluntary release and a signal handler interleave inside a process;   *)
(* commands are lost, answered late, or executed after their sender gave   *)
(* up on them; processes crash and restart with a new token.               *)
(*                                                                         *)
(* Time is kept in remaining ticks.  All hosts' monotonic clocks run at    *)
(* one rate; Redis may drop the key up to Drift ticks early by that clock. *)
(***************************************************************************)
EXTENDS Integers, Sequences, FiniteSets

CONSTANTS
  Nodes,       \* worker processes
  TTL,         \* LOCK_TTL_MS
  Safety,      \* LEASE_SAFETY_MS
  Cooldown,    \* RELINQUISH_COOLDOWN_MS
  Drift,       \* how early the key may expire by the workers' clocks
  MaxWait,     \* the deadlines of the commands one election waits for
  MaxBoots,    \* bound: boots of each process
  MaxFaults,   \* bound: commands that fail or are abandoned
  ListenersFail, \* does the environment make listeners keep crashing?
  Signals,       \* does it send SIGTERM or SIGINT?
  None

ASSUME Timing ==
  /\ TTL \in Nat /\ Safety \in Nat /\ Cooldown \in Nat /\ Drift \in Nat
  /\ MaxWait \in Nat /\ MaxFaults \in Nat /\ MaxBoots \in Nat \ {0}
  /\ Drift <= Safety
  /\ Safety <= TTL

ASSUME Switches == ListenersFail \in BOOLEAN /\ Signals \in BOOLEAN

Ops == {"renew", "set", "release", "exit"}
Elections == {"renew", "set"}

(* INSTANCE_TOKEN is drawn anew by each boot of a process. *)
Tokens == Nodes \X (1..MaxBoots)

ASSUME NoneIsNoToken == None \notin Tokens

VARIABLES
  lease,     \* the Redis key: its value, and the ticks left before it expires
  strays,    \* commands Redis may still execute though their sender gave up
  up,        \* is the process running?
  boot,      \* which boot of it
  state,     \* state of leader.ts
  validFor,  \* ticks left before leaseValidUntil
  cooldown,  \* ticks left before cooldownUntil
  running,   \* is a runElection() suspended?
  age,       \* ticks since that election read sentAt
  queue,     \* RedisClient's commands, the head being in flight
  answer,    \* Redis's answer to the head: "none" while there is none
  faults,    \* commands that have failed so far
  revoked    \* history: did Redis delete the key on this boot's own request?

local == <<state, validFor, cooldown, running, age>>
vars == <<lease, strays, up, boot, local, queue, answer, faults, revoked>>

Token(n) == <<n, boot[n]>>
NoLease == [owner |-> None, ttl |-> 0]

-----------------------------------------------------------------------------
(* The Redis server: RENEW_LUA, SET NX PX and RELEASE_LUA. *)

(* Mutant: a release that deletes the key whoever owns it. *)
ExecutesPlainDel(l, tok, op) ==
  CASE op = "renew" -> IF l.owner = tok THEN [l EXCEPT !.ttl = TTL] ELSE l
    [] op = "set"   -> IF l.owner = None THEN [owner |-> tok, ttl |-> TTL] ELSE l
    [] OTHER        -> NoLease

Executes(l, tok, op) ==
  CASE op = "renew" -> IF l.owner = tok THEN [l EXCEPT !.ttl = TTL] ELSE l
    [] op = "set"   -> IF l.owner = None THEN [owner |-> tok, ttl |-> TTL] ELSE l
    [] OTHER        -> IF l.owner = tok THEN NoLease ELSE l

(* renewed === 1, acquired === "OK"; a release's result is ignored. *)
Agrees(l, tok, op) ==
  \/ op = "renew" /\ l.owner = tok
  \/ op = "set" /\ l.owner = None

RedisRuns(tok, op) ==
  /\ lease' = Executes(lease, tok, op)
  /\ revoked' = [n \in Nodes |->
       IF tok # Token(n) THEN revoked[n]
       ELSE CASE op \in {"release", "exit"} -> revoked[n] \/ lease.owner = tok
              [] op = "set" -> revoked[n] /\ lease.owner # None
              [] OTHER -> revoked[n]]

Answered(n) ==
  /\ queue[n] # <<>> /\ answer[n] = "none"
  /\ RedisRuns(Token(n), Head(queue[n]))
  /\ answer' = [answer EXCEPT ![n] =
       IF Agrees(lease, Token(n), Head(queue[n])) THEN "yes" ELSE "no"]
  /\ UNCHANGED <<strays, up, boot, local, queue, faults>>

StrayRuns(s) ==
  /\ RedisRuns(s.token, s.op)
  /\ strays' = strays \ {s}
  /\ UNCHANGED <<up, boot, local, queue, answer, faults>>

Expire ==
  /\ lease.owner # None
  /\ lease.ttl <= Drift
  /\ lease' = NoLease
  /\ UNCHANGED <<strays, up, boot, local, queue, answer, faults, revoked>>

-----------------------------------------------------------------------------
(* leader.ts.  Each helper gives the local state of n after a step.        *)

Positive(i) == IF i > 0 THEN i ELSE 0

(* demote() and the other ways into standby. *)
StepDown(n) ==
  /\ state' = [state EXCEPT ![n] = "standby"]
  /\ validFor' = [validFor EXCEPT ![n] = 0]

(* Mutants: no safety margin; a deadline counted from the answer instead   *)
(* of from sentAt; a `running' that a failed attempt leaves set.           *)
FinishElectionNoMargin(n, ok) ==
  /\ IF ok
     THEN /\ state' = [state EXCEPT ![n] = "leader"]
          /\ validFor' = [validFor EXCEPT ![n] = Positive(TTL - age[n])]
     ELSE StepDown(n)
  /\ running' = [running EXCEPT ![n] = FALSE]
  /\ age' = [age EXCEPT ![n] = 0]
  /\ UNCHANGED cooldown

FinishElectionFromAnswer(n, ok) ==
  /\ IF ok
     THEN /\ state' = [state EXCEPT ![n] = "leader"]
          /\ validFor' = [validFor EXCEPT ![n] = TTL - Safety]
     ELSE StepDown(n)
  /\ running' = [running EXCEPT ![n] = FALSE]
  /\ age' = [age EXCEPT ![n] = 0]
  /\ UNCHANGED cooldown

FinishElectionStuck(n, ok) ==
  /\ IF ok
     THEN /\ state' = [state EXCEPT ![n] = "leader"]
          /\ validFor' = [validFor EXCEPT ![n] = Positive(TTL - age[n] - Safety)]
     ELSE StepDown(n)
  /\ running' = [running EXCEPT ![n] = ~ok]
  /\ age' = [age EXCEPT ![n] = 0]
  /\ UNCHANGED cooldown

(* What runElection() does once tryAcquire() has its result. *)
FinishElection(n, ok) ==
  /\ IF ok
     THEN /\ state' = [state EXCEPT ![n] = "leader"]
          /\ validFor' = [validFor EXCEPT ![n] = Positive(TTL - age[n] - Safety)]
     ELSE StepDown(n)
  /\ running' = [running EXCEPT ![n] = FALSE]
  /\ age' = [age EXCEPT ![n] = 0]
  /\ UNCHANGED cooldown

(* A command goes to the tail of the queue; Redis sees it once it is head. *)
Enqueue(n, op) == queue' = [queue EXCEPT ![n] = Append(@, op)]

(* The head is done with; the next command, if any, is sent. *)
SendNext(n, q) ==
  /\ queue' = [queue EXCEPT ![n] = q]
  /\ answer' = [answer EXCEPT ![n] = "none"]

(* Mutant: the timers do not look at `running'. *)
RunElectionAgain(n) ==
  /\ up[n] /\ cooldown[n] = 0 /\ Len(queue[n]) < 3
  /\ running' = [running EXCEPT ![n] = TRUE]
  /\ age' = [age EXCEPT ![n] = 0]
  /\ Enqueue(n, "renew")
  /\ UNCHANGED <<lease, strays, up, boot, state, validFor, cooldown, answer,
                 faults, revoked>>

(* The poll or heartbeat timer calls runElection(). *)
RunElection(n) ==
  /\ up[n] /\ ~running[n] /\ cooldown[n] = 0
  /\ running' = [running EXCEPT ![n] = TRUE]
  /\ age' = [age EXCEPT ![n] = 0]
  /\ Enqueue(n, "renew")
  /\ UNCHANGED <<lease, strays, up, boot, state, validFor, cooldown, answer,
                 faults, revoked>>

RunElectionInCooldown(n) ==
  /\ up[n] /\ ~running[n] /\ cooldown[n] > 0
  /\ state[n] # "standby"
  /\ StepDown(n)
  /\ UNCHANGED <<lease, strays, up, boot, cooldown, running, age, queue,
                 answer, faults, revoked>>

(* acquireOrRenew(): a refused renewal is followed by SET NX. *)
RenewalRefused(n) ==
  /\ queue[n] # <<>> /\ Head(queue[n]) = "renew" /\ answer[n] = "no"
  /\ SendNext(n, Append(Tail(queue[n]), "set"))
  /\ UNCHANGED <<lease, strays, up, boot, local, faults, revoked>>

ElectionEnds(n) ==
  /\ queue[n] # <<>> /\ Head(queue[n]) \in Elections
  /\ \/ answer[n] = "yes"
     \/ answer[n] = "no" /\ Head(queue[n]) = "set"
  /\ FinishElection(n, answer[n] = "yes")
  /\ SendNext(n, Tail(queue[n]))
  /\ UNCHANGED <<lease, strays, up, boot, faults, revoked>>

(* isLeader() finds that the deadline has passed. *)
NoticeDeadline(n) ==
  /\ up[n] /\ state[n] = "leader" /\ validFor[n] = 0
  /\ StepDown(n)
  /\ UNCHANGED <<lease, strays, up, boot, cooldown, running, age, queue,
                 answer, faults, revoked>>

(* relinquishLeadership(), up to its await.  The supervisor awaits it, so  *)
(* a second one does not start before the first release is over.           *)
Relinquish(n) ==
  /\ ListenersFail
  /\ up[n] /\ state[n] = "leader"
  /\ \A i \in DOMAIN queue[n] : queue[n][i] # "release"
  /\ cooldown' = [cooldown EXCEPT ![n] = Cooldown]
  /\ StepDown(n)
  /\ Enqueue(n, "release")
  /\ UNCHANGED <<lease, strays, up, boot, running, age, answer, faults, revoked>>

(* The SIGTERM and SIGINT handler, up to its await; one per boot.          *)
Signal(n) ==
  /\ Signals
  /\ up[n] /\ boot[n] < MaxBoots
  /\ \A i \in DOMAIN queue[n] : queue[n][i] # "exit"
  /\ Enqueue(n, "exit")
  /\ UNCHANGED <<lease, strays, up, boot, local, answer, faults, revoked>>

(* The process is gone; Redis may execute what it had sent, or not. *)
Stops(n) ==
  /\ up' = [up EXCEPT ![n] = FALSE]
  /\ state' = [state EXCEPT ![n] = "unknown"]
  /\ validFor' = [validFor EXCEPT ![n] = 0]
  /\ cooldown' = [cooldown EXCEPT ![n] = 0]
  /\ running' = [running EXCEPT ![n] = FALSE]
  /\ age' = [age EXCEPT ![n] = 0]
  /\ SendNext(n, <<>>)

(* release() is over: its result does not matter, and the socket is        *)
(* closed, which may fail the election command queued behind it.           *)
AfterRelease(n) ==
  LET rest == Tail(queue[n])
  IN \/ SendNext(n, rest) /\ UNCHANGED local
     \/ /\ rest # <<>> /\ Head(rest) \in Elections
        /\ FinishElection(n, FALSE)
        /\ SendNext(n, Tail(rest))

ReleaseEnds(n) ==
  /\ queue[n] # <<>> /\ answer[n] # "none"
  /\ \/ Head(queue[n]) = "release" /\ AfterRelease(n) /\ UNCHANGED up
     \/ Head(queue[n]) = "exit" /\ Stops(n)
  /\ UNCHANGED <<lease, strays, boot, faults, revoked>>

(* The head's sender stops waiting: Redis may never see the command, or    *)
(* may execute it later.                                                   *)
Abandons(n) ==
  \/ UNCHANGED strays
  \/ /\ queue[n] # <<>> /\ answer[n] = "none"
     /\ strays' = strays \cup {[token |-> Token(n), op |-> Head(queue[n])]}

(* The head times out, or its connection breaks.  A failed election fails  *)
(* closed; a failed release counts as done.                                *)
CommandFails(n) ==
  /\ queue[n] # <<>>
  /\ faults < MaxFaults
  /\ faults' = faults + 1
  /\ Abandons(n)
  /\ CASE Head(queue[n]) \in Elections ->
            FinishElection(n, FALSE) /\ SendNext(n, Tail(queue[n])) /\ UNCHANGED up
       [] Head(queue[n]) = "release" -> AfterRelease(n) /\ UNCHANGED up
       [] OTHER -> Stops(n)
  /\ UNCHANGED <<lease, boot, revoked>>

Crash(n) ==
  /\ up[n] /\ boot[n] < MaxBoots
  /\ Stops(n)
  /\ Abandons(n)
  /\ UNCHANGED <<lease, boot, faults, revoked>>

Restart(n) ==
  /\ ~up[n] /\ boot[n] < MaxBoots
  /\ up' = [up EXCEPT ![n] = TRUE]
  /\ boot' = [boot EXCEPT ![n] = @ + 1]
  /\ revoked' = [revoked EXCEPT ![n] = FALSE]
  /\ UNCHANGED <<lease, strays, local, queue, answer, faults>>

(* A tick.  Redis does not keep a key past its time, and the commands of   *)
(* an election do not outlive their deadlines.                             *)
Tick ==
  /\ lease.owner # None => lease.ttl > 0
  /\ \A n \in Nodes : running[n] => age[n] < MaxWait
  /\ lease' = [lease EXCEPT !.ttl = Positive(@ - 1)]
  /\ validFor' = [n \in Nodes |-> Positive(validFor[n] - 1)]
  /\ cooldown' = [n \in Nodes |-> Positive(cooldown[n] - 1)]
  /\ age' = [n \in Nodes |-> IF running[n] /\ age[n] < TTL THEN age[n] + 1 ELSE age[n]]
  /\ UNCHANGED <<strays, up, boot, state, running, queue, answer, faults, revoked>>

-----------------------------------------------------------------------------
Init ==
  /\ lease = NoLease
  /\ strays = {}
  /\ up = [n \in Nodes |-> TRUE]
  /\ boot = [n \in Nodes |-> 1]
  /\ state = [n \in Nodes |-> "unknown"]
  /\ validFor = [n \in Nodes |-> 0]
  /\ cooldown = [n \in Nodes |-> 0]
  /\ running = [n \in Nodes |-> FALSE]
  /\ age = [n \in Nodes |-> 0]
  /\ queue = [n \in Nodes |-> <<>>]
  /\ answer = [n \in Nodes |-> "none"]
  /\ faults = 0
  /\ revoked = [n \in Nodes |-> FALSE]

NodeStep(n) ==
  \/ RunElection(n) \/ RunElectionInCooldown(n)
  \/ RenewalRefused(n) \/ ElectionEnds(n) \/ NoticeDeadline(n)
  \/ Relinquish(n) \/ Signal(n) \/ ReleaseEnds(n)
  \/ CommandFails(n) \/ Crash(n) \/ Restart(n)

Next ==
  \/ \E n \in Nodes : NodeStep(n) \/ Answered(n)
  \/ \E s \in strays : StrayRuns(s)
  \/ Expire
  \/ Tick

Spec == Init /\ [][Next]_vars

(* Time passes, Redis answers, timers fire and processes are restarted by  *)
(* their service manager.  Crashes, signals, relinquishing and failing     *)
(* commands are never forced to happen.                                    *)
FairSpec ==
  /\ Spec
  /\ WF_vars(Tick) /\ WF_vars(Expire)
  /\ \A n \in Nodes :
       /\ WF_vars(RunElection(n)) /\ WF_vars(Answered(n))
       /\ WF_vars(RenewalRefused(n)) /\ WF_vars(ElectionEnds(n))
       /\ WF_vars(ReleaseEnds(n)) /\ WF_vars(Restart(n))

-----------------------------------------------------------------------------
(* Properties *)

(* isLeader() *)
IsLeader(n) == up[n] /\ state[n] = "leader" /\ validFor[n] > 0

HoldsLease(n) == lease.owner = Token(n)

Command == [token : Tokens, op : Ops]

(* Type invariant. *)
TypeOK ==
  /\ lease \in [owner : Tokens \cup {None}, ttl : 0..TTL]
  /\ strays \in SUBSET Command
  /\ up \in [Nodes -> BOOLEAN]
  /\ boot \in [Nodes -> 1..MaxBoots]
  /\ state \in [Nodes -> {"unknown", "leader", "standby"}]
  /\ validFor \in [Nodes -> 0..(TTL - Safety)]
  /\ cooldown \in [Nodes -> 0..Cooldown]
  /\ running \in [Nodes -> BOOLEAN]
  /\ age \in [Nodes -> 0..TTL]
  /\ queue \in [Nodes -> Seq(Ops)]
  /\ answer \in [Nodes -> {"none", "yes", "no"}]
  /\ faults \in 0..MaxFaults
  /\ revoked \in [Nodes -> BOOLEAN]

(* The lease is never taken from under a node whose isLeader() is true:    *)
(* not by expiry, a late answer, a lost renewal, a stray command of its    *)
(* own or of an earlier boot, or another node.  Only a release it sent     *)
(* itself can end it.                                                      *)
LeaseHeld == \A n \in Nodes : IsLeader(n) => HoldsLease(n) \/ revoked[n]

(* Two nodes are leaders at once only while one of them has released.      *)
SoleLeader ==
  \A m, n \in Nodes :
    IsLeader(m) /\ IsLeader(n) /\ m # n => revoked[m] \/ revoked[n]

(* The poll timer and the heartbeat never pile elections up: an election   *)
(* has exactly one command with Redis, and no command is left without one. *)
OneElectionCommand ==
  \A n \in Nodes :
    Cardinality({i \in DOMAIN queue[n] : queue[n][i] \in Elections})
      = IF running[n] THEN 1 ELSE 0

(* Through crashes, shutdown signals and commands of an earlier boot, some *)
(* node is leader again and again, as long as commands are answered.       *)
LeaderReturns == []<>(\E n \in Nodes : IsLeader(n))

(* leader.ts:350 says of isLeader(): "True only while we hold the lease".  *)
LeaderHoldsLease == \A n \in Nodes : IsLeader(n) => HoldsLease(n)

(* leader.ts:268 says a node that relinquishes will "stay out of the       *)
(* election for RELINQUISH_COOLDOWN_MS".                                   *)
StaysOutOfElection ==
  [][\A n \in Nodes :
       state[n] # "leader" /\ state'[n] = "leader" => cooldown[n] = 0]_vars
=============================================================================
