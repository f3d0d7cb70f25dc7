-------------------------- MODULE Supervisor_proofs --------------------------
(***************************************************************************)
(* A leader is supervised (Supervisor), for any number of nodes, boots,    *)
(* faults and restarts and any timing in which the cooldown outlasts the   *)
(* election that may be under way when it begins.                          *)
(*                                                                         *)
(* The election's steps, taken with their callbacks, are steps of          *)
(* LeaderElection: its invariant is an invariant here.  On top of it, the  *)
(* proof follows a node from the moment its supervisor gives up until its  *)
(* timer has had one chance to demote it.                                  *)
(***************************************************************************)
EXTENDS Supervisor, LeaderElection_proofs

Elapsed(n) == Cooldown - cooldown[n]

(* A node that leads without a live loop has only just given up.           *)
InNameAlone(n) == state[n] = "leader" /\ loop[n] \in {"off", "relinquishing"}

SupInv(n) ==
  /\ ~up[n] => loop[n] = "off"
  /\ loop[n] = "relinquishing" <=> ~Released(n)
  /\ loop[n] = "relinquishing" => Elapsed(n) <= MaxWait
  /\ running[n] /\ cooldown[n] \in 1..(Cooldown - 1) => ~polled[n]
  /\ InNameAlone(n) =>
       /\ ~running[n]
       /\ Elapsed(n) <= MaxWait \/ Elapsed(n) <= 1
       /\ Elapsed(n) = 0 \/ ~polled[n]

HAInv == IInv /\ HATypeOK /\ \A n \in Nodes : SupInv(n)

-----------------------------------------------------------------------------
(* Commands other than a release, in a queue without one. *)
NoRelease(q) == \A i \in DOMAIN q : q[i] # "release"

LEMMA NoReleaseAppend ==
  ASSUME NEW q \in Seq(Ops), NEW op \in Ops \ {"release"}, NoRelease(q)
  PROVE  NoRelease(Append(q, op))
<1>1. ASSUME NEW i \in 1..(Len(q) + 1) PROVE Append(q, op)[i] # "release"
  <2>1. CASE i \in 1..Len(q)
    BY <2>1, AppendFacts DEF NoRelease
  <2>2. CASE i = Len(q) + 1
    BY <2>2, AppendFacts
  <2>. QED BY <2>1, <2>2
<1>. QED BY <1>1, AppendFacts DEF NoRelease

LEMMA NoReleaseTail ==
  ASSUME NEW q \in Seq(Ops), q # <<>>, NoRelease(q)
  PROVE  NoRelease(Tail(q)) /\ Tail(q) \in Seq(Ops)
BY TailFacts DEF NoRelease

-----------------------------------------------------------------------------
(* What a step of the election does to a node at most: it neither queues a *)
(* release nor moves the cooldown, and only an election that ends makes a  *)
(* leader.                                                                 *)
Gentle(m) ==
  /\ Released(m) => Released(m)'
  /\ up'[m] => cooldown'[m] = cooldown[m]
  /\ running'[m] => running[m]
  /\ state'[m] = "leader" => state[m] = "leader" \/ (running[m] /\ ~running'[m])

LEMMA GentleUnmoved ==
  ASSUME NEW m \in Nodes, state'[m] = state[m], running'[m] = running[m],
         queue'[m] = queue[m], cooldown'[m] = cooldown[m]
  PROVE  Gentle(m)
BY DEF Gentle, Released

(* The other nodes are not affected by a node's step. *)
LEMMA GentleOthers ==
  ASSUME IInv, NEW n \in Nodes, Gentle(n),
         \A m \in Nodes \ {n} : /\ state'[m] = state[m] /\ running'[m] = running[m]
                                /\ queue'[m] = queue[m] /\ cooldown'[m] = cooldown[m]
  PROVE  \A m \in Nodes : Gentle(m)
BY GentleUnmoved

LEMMA GentleStops ==
  ASSUME IInv, NEW n \in Nodes, Stops(n) PROVE \A m \in Nodes : Gentle(m)
<1>1. TypeOK
  BY DEF IInv
<1>2. /\ up'[n] = FALSE /\ state'[n] = "unknown" /\ running'[n] = FALSE
      /\ queue'[n] = <<>>
  BY <1>1 DEF Stops, SendNext, TypeOK
<1>3. Gentle(n)
  BY <1>2 DEF Gentle, Released
<1>4. \A m \in Nodes \ {n} : /\ state'[m] = state[m] /\ running'[m] = running[m]
                             /\ queue'[m] = queue[m] /\ cooldown'[m] = cooldown[m]
  BY <1>1 DEF Stops, SendNext, TypeOK
<1>. QED BY <1>3, <1>4, GentleOthers

LEMMA GentleFinish ==
  ASSUME IInv, NEW n \in Nodes, NEW ok \in BOOLEAN, NEW q, running[n],
         FinishElection(n, ok), SendNext(n, q),
         NoRelease(queue[n]) => NoRelease(q)
  PROVE  \A m \in Nodes : Gentle(m)
<1>1. TypeOK
  BY DEF IInv
<1>2. /\ running'[n] = FALSE /\ cooldown' = cooldown /\ queue'[n] = q
      /\ \A m \in Nodes \ {n} : /\ state'[m] = state[m] /\ running'[m] = running[m]
                                /\ queue'[m] = queue[m]
  BY <1>1 DEF FinishElection, StepDown, SendNext, TypeOK
<1>3. Gentle(n)
  BY <1>2 DEF Gentle, Released, NoRelease
<1>. QED BY <1>2, <1>3, GentleOthers

(* An election command in the queue belongs to a running election. *)
LEMMA ElectionIsRunning ==
  ASSUME IInv, NEW n \in Nodes, NEW i \in DOMAIN queue[n], queue[n][i] \in Elections
  PROVE  running[n]
BY DEF IInv, NodeInv, QueueOf

LEMMA GentleAfterRelease ==
  ASSUME IInv, NEW n \in Nodes, queue[n] # <<>>, AfterRelease(n)
  PROVE  \A m \in Nodes : Gentle(m)
<1> DEFINE rest == Tail(queue[n])
<1>1. queue[n] \in Seq(Ops) /\ TypeOK
  BY Waiting DEF IInv
<1>2. rest \in Seq(Ops) /\ (NoRelease(queue[n]) => NoRelease(rest))
  BY <1>1, NoReleaseTail, TailFacts
<1>3. \A i \in DOMAIN rest : i + 1 \in DOMAIN queue[n] /\ rest[i] = queue[n][i + 1]
  BY <1>1, TailFacts
<1> HIDE DEF rest
<1>4. CASE SendNext(n, rest) /\ UNCHANGED local
  <2>1. queue'[n] = rest /\ \A m \in Nodes \ {n} : queue'[m] = queue[m]
    BY <1>1, <1>4 DEF SendNext, TypeOK
  <2>2. Gentle(n)
    BY <1>2, <1>4, <2>1 DEF Gentle, Released, NoRelease, local
  <2>. QED BY <1>4, <2>1, <2>2, GentleOthers DEF local
<1>5. CASE /\ rest # <<>> /\ Head(rest) \in Elections
           /\ FinishElection(n, FALSE) /\ SendNext(n, Tail(rest))
  <2>1. 1 \in DOMAIN rest /\ rest[1] \in Elections
    BY <1>2, <1>5, TailFacts
  <2>2. running[n]
    BY <1>3, <2>1, ElectionIsRunning
  <2>3. NoRelease(queue[n]) => NoRelease(Tail(rest))
    BY <1>2, <1>5, NoReleaseTail
  <2>. QED BY <1>5, <2>2, <2>3, GentleFinish
<1>. QED BY <1>4, <1>5 DEF AfterRelease, rest

(* A command joins the queue, and nothing else changes. *)
LEMMA GentleEnqueue ==
  ASSUME IInv, NEW n \in Nodes, NEW op \in Ops \ {"release"}, Enqueue(n, op),
         UNCHANGED <<state, running, cooldown>>
  PROVE  \A m \in Nodes : Gentle(m)
<1>1. queue \in [Nodes -> Seq(Ops)]
  BY DEF IInv, TypeOK
<1>2. /\ queue'[n] = Append(queue[n], op)
      /\ \A m \in Nodes \ {n} : queue'[m] = queue[m]
  BY <1>1 DEF Enqueue
<1>3. NoRelease(queue[n]) => NoRelease(queue'[n])
  BY <1>1, <1>2, NoReleaseAppend
<1>4. Gentle(n)
  BY <1>3 DEF Gentle, Released, NoRelease
<1>. QED BY <1>2, <1>4, GentleOthers

(* The election's steps that ElectionStep takes.                           *)
ElectionMoves(n) ==
  \/ Answered(n) \/ RenewalRefused(n) \/ ElectionEnds(n)
  \/ NoticeDeadline(n) \/ Signal(n) \/ ReleaseEnds(n)
  \/ CommandFails(n) \/ Crash(n) \/ Restart(n)

LEMMA GentleElection ==
  ASSUME IInv, NEW n \in Nodes, ElectionMoves(n) PROVE \A m \in Nodes : Gentle(m)
<1>1. TypeOK
  BY DEF IInv
<1>2. CASE Answered(n)
  BY <1>2, GentleUnmoved DEF Answered, local
<1>3. CASE RenewalRefused(n)
  <2>1. queue[n] # <<>> /\ queue[n] \in Seq(Ops) /\ "set" \in Ops \ {"release"}
    BY <1>3, Waiting DEF RenewalRefused, Ops
  <2>2. /\ queue'[n] = Append(Tail(queue[n]), "set")
        /\ \A m \in Nodes \ {n} : queue'[m] = queue[m]
        /\ UNCHANGED local
    BY <1>1, <1>3 DEF RenewalRefused, SendNext, TypeOK
  <2>3. NoRelease(queue[n]) => NoRelease(queue'[n])
    BY <2>1, <2>2, NoReleaseTail, NoReleaseAppend
  <2>4. Gentle(n)
    BY <2>2, <2>3 DEF Gentle, Released, NoRelease, local
  <2>. QED BY <2>2, <2>4, GentleOthers DEF local
<1>4. CASE ElectionEnds(n)
  <2>1. /\ queue[n] # <<>> /\ Head(queue[n]) \in Elections
        /\ FinishElection(n, answer[n] = "yes") /\ SendNext(n, Tail(queue[n]))
    BY <1>4 DEF ElectionEnds
  <2>2. queue[n] \in Seq(Ops)
    BY <2>1, Waiting
  <2>3. running[n]
    BY <2>1, <2>2, TailFacts, ElectionIsRunning
  <2>4. NoRelease(queue[n]) => NoRelease(Tail(queue[n]))
    BY <2>1, <2>2, NoReleaseTail
  <2>. QED BY <2>1, <2>3, <2>4, GentleFinish
<1>5. CASE NoticeDeadline(n)
  <2>1. /\ state'[n] = "standby" /\ \A m \in Nodes \ {n} : state'[m] = state[m]
        /\ UNCHANGED <<cooldown, running, queue>>
    BY <1>1, <1>5 DEF NoticeDeadline, StepDown, TypeOK
  <2>2. Gentle(n)
    BY <2>1 DEF Gentle, Released
  <2>. QED BY <2>1, <2>2, GentleOthers
<1>6. CASE Signal(n)
  BY <1>6, GentleEnqueue DEF Signal, local, Ops
<1>7. CASE ReleaseEnds(n)
  BY <1>7, GentleAfterRelease, GentleStops DEF ReleaseEnds
<1>8. CASE CommandFails(n)
  <2>1. queue[n] # <<>> /\ queue[n] \in Seq(Ops) /\ Head(queue[n]) \in Ops
    BY <1>8, Waiting DEF CommandFails
  <2>2. CASE Head(queue[n]) \in Elections
    <3>1. FinishElection(n, FALSE) /\ SendNext(n, Tail(queue[n]))
      BY <1>8, <2>2 DEF CommandFails, Elections
    <3>2. running[n]
      BY <2>1, <2>2, TailFacts, ElectionIsRunning
    <3>3. NoRelease(queue[n]) => NoRelease(Tail(queue[n]))
      BY <2>1, NoReleaseTail
    <3>. QED BY <3>1, <3>2, <3>3, GentleFinish
  <2>3. CASE Head(queue[n]) = "release"
    <3>1. AfterRelease(n)
      BY <1>8, <2>3 DEF CommandFails, Elections
    <3>. QED BY <2>1, <3>1, GentleAfterRelease
  <2>4. CASE Head(queue[n]) = "exit"
    <3>1. Stops(n)
      BY <1>8, <2>4 DEF CommandFails, Elections
    <3>. QED BY <3>1, GentleStops
  <2>. QED BY <2>1, <2>2, <2>3, <2>4 DEF Ops, Elections
<1>9. CASE Crash(n)
  BY <1>9, GentleStops DEF Crash
<1>10. CASE Restart(n)
  BY <1>10, GentleUnmoved DEF Restart, local
<1>. QED
  BY <1>2, <1>3, <1>4, <1>5, <1>6, <1>7, <1>8, <1>9, <1>10 DEF ElectionMoves

-----------------------------------------------------------------------------
(* Callbacks *)

(* The loops after a gentle step with its callbacks. *)
LEMMA CallbacksPreserve ==
  ASSUME IInv, IInv', HATypeOK, NEW n \in Nodes, SupInv(n), Gentle(n),
         loop'[n] = LoopAfter(n), polled'[n] = polled[n]
  PROVE  SupInv(n)'
<1>1. /\ loop[n] \in Loops /\ up[n] \in BOOLEAN /\ up'[n] \in BOOLEAN
      /\ cooldown[n] \in 0..Cooldown
  <2>1. TypeOK /\ TypeOK'
    BY DEF IInv
  <2>. QED BY <2>1 DEF HATypeOK, TypeOK
<1>2. CASE ~up'[n]
  <2>1. queue'[n] = <<>> /\ state'[n] = "unknown" /\ ~running'[n]
    BY <1>2 DEF IInv, NodeInv, QueueOf
  <2>2. loop'[n] = "off"
    BY <1>2, <2>1 DEF LoopAfter, Becomes
  <2>. QED BY <2>1, <2>2 DEF SupInv, InNameAlone, Released
<1>3. CASE up'[n]
  <2>1. cooldown'[n] = cooldown[n]
    BY <1>3 DEF Gentle
  <2>2. CASE loop[n] = "off" /\ Becomes(n)
    <3>1. loop'[n] = "session"
      BY <1>3, <2>2 DEF LoopAfter
    <3>. QED
      BY <1>3, <2>1, <2>2, <3>1 DEF SupInv, InNameAlone, Gentle, Elapsed
  <2>3. CASE loop[n] = "relinquishing" /\ Released(n)'
    <3>1. loop'[n] = "off"
      BY <1>3, <2>3 DEF LoopAfter
    <3>. QED
      BY <1>1, <1>3, <2>1, <2>3, <3>1, Timing, CooldownOutlastsElections
      DEF SupInv, InNameAlone, Gentle, Elapsed
  <2>4. CASE /\ ~(loop[n] = "off" /\ Becomes(n))
             /\ ~(loop[n] = "relinquishing" /\ Released(n)')
    <3>1. loop'[n] = loop[n]
      BY <1>3, <2>4 DEF LoopAfter
    <3>2. loop[n] = "relinquishing" <=> ~Released(n)'
      BY <2>4 DEF SupInv, Gentle
    <3>3. InNameAlone(n)' =>
            /\ ~running'[n]
            /\ Elapsed(n) <= MaxWait \/ Elapsed(n) <= 1
            /\ Elapsed(n) = 0 \/ ~polled[n]
      BY <1>1, <2>4, <3>1, Timing, CooldownOutlastsElections
      DEF SupInv, InNameAlone, Gentle, Elapsed, Becomes
    <3>. QED
      BY <1>3, <2>1, <3>1, <3>2, <3>3 DEF SupInv, Gentle, Elapsed
  <2>. QED BY <2>2, <2>3, <2>4
<1>. QED BY <1>1, <1>2, <1>3

(* The election's invariant says these of a node. *)
LEMMA NodeTypes ==
  ASSUME IInv, NEW m \in Nodes
  PROVE  /\ up[m] \in BOOLEAN /\ running[m] \in BOOLEAN
         /\ cooldown[m] \in 0..Cooldown /\ queue[m] \in Seq(Ops)
         /\ ~up[m] => state[m] = "unknown"
BY DEF IInv, TypeOK, NodeInv

LEMMA ElectionStepPreserves ==
  ASSUME HAInv, IInv', NEW n \in Nodes, ElectionStep(n)
  PROVE  \A m \in Nodes : SupInv(m)'
<1>1. \A m \in Nodes : Gentle(m)
  BY GentleElection DEF HAInv, ElectionStep, ElectionMoves
<1>2. \A m \in Nodes : loop'[m] = LoopAfter(m) /\ polled'[m] = polled[m]
  BY DEF ElectionStep, Callbacks
<1>. QED BY <1>1, <1>2, CallbacksPreserve DEF HAInv

LEMMA RedisStepPreserves ==
  ASSUME HAInv, IInv', RedisStep
  PROVE  \A m \in Nodes : SupInv(m)'
<1>1. UNCHANGED <<local, queue>>
  BY DEF RedisStep, Expire, StrayRuns
<1>2. \A m \in Nodes : Gentle(m)
  BY <1>1, GentleUnmoved DEF local
<1>3. \A m \in Nodes : loop'[m] = LoopAfter(m) /\ polled'[m] = polled[m]
  BY DEF RedisStep, Callbacks
<1>. QED BY <1>2, <1>3, CallbacksPreserve DEF HAInv

(* A timer starts no election in a cooldown, and demotes a leader there.   *)
LEMMA TimerPreserves ==
  ASSUME HAInv, IInv', NEW n \in Nodes, Timer(n)
  PROVE  \A m \in Nodes : SupInv(m)'
<1>1. /\ IInv /\ TypeOK /\ HATypeOK /\ \A m \in Nodes : SupInv(m)
      /\ up[n] /\ ~running[n] /\ up' = up /\ cooldown' = cooldown
      /\ cooldown[n] \in 0..Cooldown
  BY NodeTypes DEF HAInv, IInv, Timer, RunElection, RunElectionInCooldown
<1>2. \A m \in Nodes : loop'[m] = LoopAfter(m)
  BY DEF Timer, Callbacks
<1>3. \A m \in Nodes \ {n} : SupInv(m)'
  <2> SUFFICES ASSUME NEW m \in Nodes \ {n} PROVE SupInv(m)'
    OBVIOUS
  <2>1. polled'[m] = polled[m]
    BY DEF HAInv, HATypeOK, Timer
  <2>2. /\ state'[m] = state[m] /\ running'[m] = running[m]
        /\ queue'[m] = queue[m]
    BY <1>1 DEF Timer, RunElection, RunElectionInCooldown, Enqueue, StepDown, TypeOK
  <2>. QED BY <1>1, <1>2, <2>1, <2>2, GentleUnmoved, CallbacksPreserve
<1>4. CASE RunElection(n)
  <2>1. cooldown[n] = 0 /\ UNCHANGED state /\ queue'[n] = Append(queue[n], "renew")
    BY <1>1, <1>4 DEF RunElection, Enqueue, TypeOK
  <2>2. loop[n] # "relinquishing" /\ ~InNameAlone(n)
    BY <1>1, <2>1, Timing, CooldownOutlastsElections DEF SupInv, Elapsed
  <2>3. loop'[n] = loop[n]
    BY <1>1, <1>2, <2>1, <2>2 DEF LoopAfter, Becomes
  <2>4. Released(n)'
    <3>1. NoRelease(queue[n]) /\ queue[n] \in Seq(Ops)
      BY <1>1, <2>2, NodeTypes DEF SupInv, Released, NoRelease
    <3>2. "renew" \in Ops \ {"release"}
      BY DEF Ops
    <3>. QED BY <2>1, <3>1, <3>2, NoReleaseAppend DEF Released, NoRelease
  <2>5. SupInv(n)'
    BY <1>1, <2>1, <2>2, <2>3, <2>4 DEF SupInv, InNameAlone
  <2>. QED BY <1>3, <2>5
<1>5. CASE RunElectionInCooldown(n)
  <2>1. state'[n] = "standby" /\ UNCHANGED <<running, queue>>
    BY <1>1, <1>5 DEF RunElectionInCooldown, StepDown, TypeOK
  <2>2. loop'[n] = loop[n]
    BY <1>1, <1>2, <2>1 DEF LoopAfter, Becomes, Released, SupInv
  <2>3. SupInv(n)'
    BY <1>1, <2>1, <2>2 DEF SupInv, InNameAlone, Released, Elapsed
  <2>. QED BY <1>3, <2>3
<1>. QED BY <1>4, <1>5 DEF Timer

(* Before the second tick of a cooldown the timer has demoted the node,    *)
(* and before the end of it the release is over.                           *)
LEMMA TimersTickPreserves ==
  ASSUME HAInv, IInv', TimersTick
  PROVE  \A m \in Nodes : SupInv(m)'
<1> SUFFICES ASSUME NEW m \in Nodes PROVE SupInv(m)'
  OBVIOUS
<1>1. /\ SupInv(m) /\ cooldown[m] \in 0..Cooldown
      /\ running[m] \in BOOLEAN /\ up[m] \in BOOLEAN
      /\ ~up[m] => state[m] = "unknown"
  BY NodeTypes DEF HAInv
<1>2. /\ state' = state /\ up' = up /\ running' = running /\ queue' = queue
      /\ cooldown'[m] = Positive(cooldown[m] - 1)
      /\ polled'[m] = FALSE
      /\ polled[m] \/ Idles(m)
      /\ ReleaseInTime(m)
  BY DEF TimersTick, Tick
<1>3. loop'[m] = loop[m]
  BY <1>1, <1>2 DEF TimersTick, Callbacks, LoopAfter, Becomes, SupInv, Released
<1>4. ASSUME loop[m] = "relinquishing"
      PROVE  cooldown'[m] = cooldown[m] - 1 /\ Elapsed(m)' <= MaxWait
  BY <1>1, <1>2, <1>4, Timing, CooldownOutlastsElections
  DEF SupInv, ReleaseInTime, Elapsed, Positive
<1>5. ASSUME InNameAlone(m) PROVE Elapsed(m)' <= 1
  <2>1. polled[m]
    BY <1>1, <1>2, <1>5 DEF SupInv, InNameAlone, Idles
  <2>2. Elapsed(m) = 0
    BY <1>1, <1>5, <2>1 DEF SupInv
  <2>. QED
    BY <1>1, <1>2, <2>2, Timing, CooldownOutlastsElections DEF Elapsed, Positive
<1>. QED
  BY <1>1, <1>2, <1>3, <1>4, <1>5 DEF SupInv, InNameAlone, Released

-----------------------------------------------------------------------------
(* The loop's own steps *)

LEMMA SupervisorUnmoved ==
  ASSUME NEW m \in Nodes, SupInv(m), up'[m] = up[m], state'[m] = state[m],
         running'[m] = running[m], queue'[m] = queue[m],
         cooldown'[m] = cooldown[m], loop'[m] = loop[m], polled'[m] = polled[m]
  PROVE  SupInv(m)'
BY DEF SupInv, InNameAlone, Elapsed, Released

(* A loop that ends because isLeader() was false leaves no leader.         *)
LEMMA LoopEnds ==
  ASSUME HAInv, NEW n \in Nodes, loop[n] \in {"session", "backoff"}, AsksIsLeader(n),
         loop' = [loop EXCEPT ![n] = IF IsLeader(n) THEN "session" ELSE "off"],
         UNCHANGED polled
  PROVE  \A m \in Nodes : SupInv(m)'
<1>1. /\ TypeOK /\ loop \in [Nodes -> Loops] /\ \A m \in Nodes : SupInv(m)
      /\ up[n] /\ Released(n)
  BY DEF HAInv, IInv, HATypeOK, SupInv
<1>2. /\ UNCHANGED <<up, running, queue, cooldown>>
      /\ \A m \in Nodes \ {n} : state'[m] = state[m]
      /\ IsLeader(n) \/ state'[n] # "leader"
  <2>1. CASE state[n] = "leader" /\ validFor[n] = 0
    BY <1>1, <2>1 DEF AsksIsLeader, NoticeDeadline, StepDown, TypeOK
  <2>2. CASE ~(state[n] = "leader" /\ validFor[n] = 0)
    <3>1. validFor[n] \in 0..(TTL - Safety)
      BY <1>1 DEF TypeOK
    <3>2. UNCHANGED vars
      BY <2>2 DEF AsksIsLeader
    <3>. QED BY <1>1, <2>2, <3>1, <3>2, Timing DEF IsLeader, vars, local
  <2>. QED BY <2>1, <2>2
<1>3. \A m \in Nodes \ {n} : SupInv(m)'
  BY <1>1, <1>2, SupervisorUnmoved
<1>4. SupInv(n)'
  <2>1. /\ loop'[n] \in {"session", "off"}
        /\ loop'[n] = "off" => state'[n] # "leader"
    BY <1>1, <1>2
  <2>. QED BY <1>1, <1>2, <2>1 DEF SupInv, InNameAlone, Released
<1>. QED BY <1>3, <1>4

(* relinquish(): the cooldown begins and the release is queued.            *)
LEMMA StepsAsidePreserves ==
  ASSUME HAInv, NEW n \in Nodes, loop[n] = "session", StepsAside(n), UNCHANGED polled
  PROVE  \A m \in Nodes : SupInv(m)'
<1>1. /\ TypeOK /\ loop \in [Nodes -> Loops] /\ \A m \in Nodes : SupInv(m)
      /\ Released(n) /\ up[n]
  BY DEF HAInv, IInv, HATypeOK, SupInv
<1>2. CASE state[n] = "leader"
  <2>1. /\ Relinquish(n) /\ loop' = [loop EXCEPT ![n] = "relinquishing"]
    BY <1>2 DEF StepsAside
  <2>2. /\ UNCHANGED <<up, running>>
        /\ state'[n] = "standby" /\ cooldown'[n] = Cooldown
        /\ queue'[n] = Append(queue[n], "release")
        /\ loop'[n] = "relinquishing"
        /\ \A m \in Nodes \ {n} : /\ state'[m] = state[m] /\ queue'[m] = queue[m]
                                  /\ cooldown'[m] = cooldown[m] /\ loop'[m] = loop[m]
    BY <1>1, <2>1 DEF Relinquish, StepDown, Enqueue, TypeOK
  <2>3. ~Released(n)'
    <3>1. queue[n] \in Seq(Ops) /\ "release" \in Ops /\ Len(queue[n]) + 1 \in 1..(Len(queue[n]) + 1)
      BY <1>1 DEF TypeOK, Ops
    <3>. QED BY <2>2, <3>1, AppendFacts DEF Released
  <2>4. SupInv(n)'
    BY <1>1, <2>2, <2>3, Timing DEF SupInv, InNameAlone, Elapsed
  <2>5. \A m \in Nodes \ {n} : SupInv(m)'
    BY <1>1, <2>2, SupervisorUnmoved
  <2>. QED BY <2>4, <2>5
<1>3. CASE state[n] # "leader"
  <2>1. /\ UNCHANGED vars /\ loop'[n] = "off"
        /\ \A m \in Nodes \ {n} : loop'[m] = loop[m]
    BY <1>1, <1>3 DEF StepsAside
  <2>2. SupInv(n)'
    BY <1>1, <1>3, <2>1 DEF SupInv, InNameAlone, Released, vars, local
  <2>3. \A m \in Nodes \ {n} : SupInv(m)'
    BY <1>1, <2>1, SupervisorUnmoved DEF vars, local
  <2>. QED BY <2>2, <2>3
<1>. QED BY <1>2, <1>3

LEMMA SupervisorStepPreserves ==
  ASSUME HAInv, NEW n \in Nodes, SupervisorStep(n)
  PROVE  \A m \in Nodes : SupInv(m)'
<1>1. loop \in [Nodes -> Loops] /\ \A m \in Nodes : SupInv(m)
  BY DEF HAInv, HATypeOK
<1>2. CASE SessionEnds(n)
  <2>1. loop' = [loop EXCEPT ![n] = IF IsLeader(n) THEN "session" ELSE "off"]
    BY <1>1, <1>2 DEF SessionEnds
  <2>. QED BY <1>2, <2>1, LoopEnds DEF SessionEnds
<1>3. CASE BackoffEnds(n)
  <2>1. loop' = [loop EXCEPT ![n] = IF IsLeader(n) THEN "session" ELSE "off"]
    BY <1>3 DEF BackoffEnds
  <2>. QED BY <1>3, <2>1, LoopEnds DEF BackoffEnds
<1>4. CASE SessionCrashes(n)
  <2>1. loop[n] = "session" /\ UNCHANGED polled
        /\ \/ StepsAside(n)
           \/ loop' = [loop EXCEPT ![n] = "backoff"] /\ UNCHANGED vars
    BY <1>4 DEF SessionCrashes
  <2>2. CASE StepsAside(n)
    BY <2>1, <2>2, StepsAsidePreserves
  <2>3. CASE loop' = [loop EXCEPT ![n] = "backoff"] /\ UNCHANGED vars
    <3>1. loop'[n] = "backoff" /\ \A m \in Nodes \ {n} : loop'[m] = loop[m]
      BY <1>1, <2>3
    <3>2. SupInv(n)'
      BY <1>1, <2>1, <2>3, <3>1 DEF SupInv, InNameAlone, Released, vars, local
    <3>3. \A m \in Nodes \ {n} : SupInv(m)'
      BY <1>1, <2>1, <2>3, <3>1, SupervisorUnmoved DEF vars, local
    <3>. QED BY <3>2, <3>3
  <2>. QED BY <2>1, <2>2, <2>3
<1>. QED BY <1>2, <1>3, <1>4 DEF SupervisorStep

-----------------------------------------------------------------------------
(* Types *)

LEMMA CallbackTypes ==
  ASSUME HATypeOK, TypeOK', Callbacks, polled' \in [Nodes -> BOOLEAN]
  PROVE  HATypeOK'
<1>1. \A n \in Nodes : LoopAfter(n) \in Loops
  BY DEF LoopAfter, Loops, HATypeOK
<1>2. \A n \in Nodes : CurrentAfter(n) \in BOOLEAN
  BY DEF CurrentAfter, HATypeOK
<1>3. crashes' \in [Nodes -> 0..MaxRestarts]
  BY RestartBounds DEF Callbacks, HATypeOK
<1>. QED BY <1>1, <1>2, <1>3 DEF Callbacks, HATypeOK

LEMMA SupervisorTypes ==
  ASSUME HATypeOK, TypeOK', NEW n \in Nodes, SupervisorStep(n)
  PROVE  HATypeOK'
<1>1. CASE SessionEnds(n) \/ BackoffEnds(n)
  BY <1>1 DEF SessionEnds, BackoffEnds, HATypeOK, Loops
<1>2. CASE SessionCrashes(n)
  <2>1. transient' \in 0..MaxTransient
    BY <1>2, RestartBounds DEF SessionCrashes, HATypeOK
  <2>2. PICK recent \in Recent(n) :
          IF GivesUp(recent)
          THEN crashes' = [crashes EXCEPT ![n] = 0] /\ StepsAside(n)
          ELSE /\ crashes' = [crashes EXCEPT ![n] = recent]
               /\ loop' = [loop EXCEPT ![n] = "backoff"]
               /\ UNCHANGED <<vars, current>>
    BY <1>2 DEF SessionCrashes
  <2>3. recent \in Nat
    BY <2>2, RestartBounds DEF Recent, HATypeOK
  <2>4. crashes' \in [Nodes -> 0..MaxRestarts]
    BY <2>2, <2>3, RestartBounds DEF GivesUp, HATypeOK
  <2>5. loop' \in [Nodes -> Loops] /\ current' \in [Nodes -> BOOLEAN]
    BY <2>2 DEF StepsAside, HATypeOK, Loops
  <2>. QED BY <1>2, <2>1, <2>4, <2>5 DEF SessionCrashes, HATypeOK
<1>. QED BY <1>1, <1>2 DEF SupervisorStep

-----------------------------------------------------------------------------
(* Theorems *)

(* A step of the supervised system is one of the election, or none.        *)
LEMMA ElectionTakesStep ==
  ASSUME [HANext]_haVars PROVE [Next]_vars
<1>1. ASSUME NEW n \in Nodes, Timer(n) PROVE Next
  BY <1>1 DEF Timer, Next, NodeStep
<1>2. ASSUME NEW n \in Nodes, ElectionStep(n) PROVE Next
  BY <1>2 DEF ElectionStep, Next, NodeStep
<1>3. ASSUME NEW n \in Nodes, AsksIsLeader(n) PROVE Next \/ UNCHANGED vars
  BY <1>3 DEF AsksIsLeader, Next, NodeStep
<1>4. ASSUME NEW n \in Nodes, SupervisorStep(n) PROVE Next \/ UNCHANGED vars
  <2>1. CASE SessionEnds(n) \/ BackoffEnds(n)
    BY <1>3, <2>1 DEF SessionEnds, BackoffEnds
  <2>2. CASE SessionCrashes(n)
    BY <2>2 DEF SessionCrashes, StepsAside, Next, NodeStep
  <2>. QED BY <1>4, <2>1, <2>2 DEF SupervisorStep
<1>5. CASE RedisStep
  BY <1>5 DEF RedisStep, Next
<1>6. CASE TimersTick
  BY <1>6 DEF TimersTick, Next
<1>7. CASE UNCHANGED haVars
  BY <1>7 DEF haVars
<1>. QED BY <1>1, <1>2, <1>4, <1>5, <1>6, <1>7 DEF HANext

LEMMA HAInitInv ==
  ASSUME HAInit PROVE HAInv
<1>1. IInv
  BY InitInv DEF HAInit
<1>2. HATypeOK
  BY <1>1, RestartBounds DEF HAInit, HATypeOK, IInv, Loops
<1>3. \A n \in Nodes : SupInv(n)
  BY DEF HAInit, Init, SupInv, InNameAlone, Released
<1>. QED BY <1>1, <1>2, <1>3 DEF HAInv

LEMMA HANextPreserves ==
  ASSUME HAInv, [HANext]_haVars PROVE HAInv'
<1>1. IInv' /\ TypeOK'
  BY ElectionTakesStep, NextPreserves DEF HAInv, IInv
<1>2. ASSUME NEW n \in Nodes, Timer(n) PROVE HAInv'
  <2>1. polled' \in [Nodes -> BOOLEAN] /\ Callbacks
    BY <1>2 DEF Timer, HAInv, HATypeOK
  <2>. QED BY <1>1, <1>2, <2>1, CallbackTypes, TimerPreserves DEF HAInv
<1>3. ASSUME NEW n \in Nodes, ElectionStep(n) PROVE HAInv'
  <2>1. polled' \in [Nodes -> BOOLEAN] /\ Callbacks
    BY <1>3 DEF ElectionStep, HAInv, HATypeOK
  <2>. QED BY <1>1, <1>3, <2>1, CallbackTypes, ElectionStepPreserves DEF HAInv
<1>4. ASSUME NEW n \in Nodes, SupervisorStep(n) PROVE HAInv'
  BY <1>1, <1>4, SupervisorTypes, SupervisorStepPreserves DEF HAInv
<1>5. CASE RedisStep
  <2>1. polled' \in [Nodes -> BOOLEAN] /\ Callbacks
    BY <1>5 DEF RedisStep, HAInv, HATypeOK
  <2>. QED BY <1>1, <1>5, <2>1, CallbackTypes, RedisStepPreserves DEF HAInv
<1>6. CASE TimersTick
  <2>1. polled' \in [Nodes -> BOOLEAN] /\ Callbacks
    BY <1>6 DEF TimersTick, HAInv, HATypeOK
  <2>. QED BY <1>1, <1>6, <2>1, CallbackTypes, TimersTickPreserves DEF HAInv
<1>7. CASE UNCHANGED haVars
  <2>1. HATypeOK'
    BY <1>1, <1>7 DEF HAInv, HATypeOK, haVars, supervisorVars
  <2>2. \A m \in Nodes : SupInv(m)'
    BY <1>7, SupervisorUnmoved DEF HAInv, haVars, supervisorVars, vars, local
  <2>. QED BY <1>1, <2>1, <2>2 DEF HAInv
<1>. QED BY <1>2, <1>3, <1>4, <1>5, <1>6, <1>7 DEF HANext

(* The invariant that follows a node through giving up.                    *)
THEOREM HAInductive == HASpec => []HAInv
<1>1. HAInit => HAInv
  BY HAInitInv
<1>2. HAInv /\ [HANext]_haVars => HAInv'
  BY HANextPreserves
<1>. QED BY <1>1, <1>2, PTL DEF HASpec

(* The supervised election is an election: whatever the supervisors do,    *)
(* they only ever take LeaderElection's steps.                             *)
THEOREM SupervisedElectionIsElection == HASpec => Spec
<1>1. HAInit => Init
  BY DEF HAInit
<1>2. [HANext]_haVars => [Next]_vars
  BY ElectionTakesStep
<1>. QED BY <1>1, <1>2, PTL DEF HASpec, Spec

(* Hence the leases of supervised nodes exclude each other.                *)
THEOREM SupervisedLeadersExclude ==
  HASpec => [](LeaseHeld /\ SoleLeader /\ OneElectionCommand)
BY SupervisedElectionIsElection, LeaseNeverLost, LeadersExclude,
   ElectionsDoNotPileUp, PTL

(* The supervisors' variables keep their types; no loop counts more than   *)
(* maxRestarts crashes.                                                    *)
THEOREM HATypeCorrect == HASpec => []HATypeOK
<1>1. HAInv => HATypeOK
  BY DEF HAInv
<1>. QED BY <1>1, HAInductive, PTL

(* No leader is left without a loop outside the cooldown after it gave up. *)
THEOREM LeadersAreSupervised == HASpec => []LeaderSupervised
<1>1. HAInv => LeaderSupervised
  <2> SUFFICES ASSUME HAInv, NEW n \in Nodes, IsLeader(n), loop[n] = "off"
               PROVE  cooldown[n] # 0
    BY DEF LeaderSupervised
  <2>1. SupInv(n) /\ InNameAlone(n)
    BY DEF HAInv, IsLeader, InNameAlone
  <2>. QED BY <2>1, Timing, CooldownOutlastsElections DEF SupInv, Elapsed
<1>. QED BY <1>1, HAInductive, PTL

(* A supervisor that gave up waits for exactly its own release, and no     *)
(* longer than the deadline of a command.                                  *)
ReleaseAwaited ==
  \A n \in Nodes :
    /\ loop[n] = "relinquishing" <=> ~Released(n)
    /\ loop[n] = "relinquishing" => Elapsed(n) <= MaxWait

THEOREM ReleasesAreAwaited == HASpec => []ReleaseAwaited
<1>1. HAInv => ReleaseAwaited
  BY DEF HAInv, SupInv, ReleaseAwaited
<1>. QED BY <1>1, HAInductive, PTL
=============================================================================
