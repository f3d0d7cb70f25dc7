----------------------------- MODULE Supervisor -----------------------------
(***************************************************************************)
(* The listener supervisor (oracle-worker/src/supervisor.ts) of every      *)
(* worker, wired to the election as index.ts wires it: the election's      *)
(* callbacks start and stop it, and it gives the lease up when its         *)
(* listener keeps crashing.  The election is LeaderElection, whose steps   *)
(* this module takes with the callbacks they make; Relinquish is taken by  *)
(* the supervisor alone.                                                   *)
(*                                                                         *)
(* A tick is one period of the timers: every process that is not waiting   *)
(* for Redis runs runElection() once between two ticks.                    *)
(***************************************************************************)
EXTENDS LeaderElection

CONSTANTS
  Broken,       \* nodes whose listener sessions always end in a crash
  MaxRestarts,  \* opts.maxRestarts
  MaxTransient  \* bound: crashes of the other nodes' sessions

ASSUME BrokenNodes == Broken \subseteq Nodes
ASSUME PromptElections == MaxWait < TTL - Safety
ASSUME CooldownOutlastsElections == MaxWait < Cooldown /\ 1 < Cooldown
ASSUME RestartBounds == MaxRestarts \in Nat /\ MaxTransient \in Nat

VARIABLES
  loop,      \* where the supervisor's loop is suspended
  current,   \* is its session the newest, this.session === session?
  crashes,   \* crashTimes.length, of those within the window
  transient, \* crashes of sessions of nodes that are not broken
  polled     \* has runElection() been called since the last tick?

supervisorVars == <<loop, current, crashes, transient>>
haVars == <<vars, supervisorVars, polled>>

Loops == {"off", "session", "backoff", "relinquishing"}

-----------------------------------------------------------------------------
(* onBecomeLeader() and onLoseLeadership(), which the election calls.      *)

Becomes(n) == state[n] # "leader" /\ state'[n] = "leader"
Resigns(n) == state[n] = "leader" /\ state'[n] # "leader"

Released(n) == \A i \in DOMAIN queue[n] : queue[n][i] # "release"

(* start() begins a loop unless one is live; the loop that relinquishes    *)
(* goes on when the release is over, and ends.                             *)
LoopAfter(n) ==
  CASE ~up'[n] -> "off"
    [] loop[n] = "off" /\ Becomes(n) -> "session"
    [] loop[n] = "relinquishing" /\ Released(n)' -> "off"
    [] OTHER -> loop[n]

(* start() and stop() both take a new session number; only a loop that     *)
(* start() begins is current at once.                                      *)
CurrentAfter(n) ==
  IF Becomes(n) \/ Resigns(n) \/ ~up'[n]
  THEN Becomes(n) /\ loop[n] = "off"
  ELSE current[n]

Callbacks ==
  /\ loop' = [n \in Nodes |-> LoopAfter(n)]
  /\ current' = [n \in Nodes |-> CurrentAfter(n)]
  /\ crashes' = [n \in Nodes |-> IF up'[n] THEN crashes[n] ELSE 0]
  /\ UNCHANGED transient

-----------------------------------------------------------------------------
(* The loop.                                                               *)

(* isLeader() demotes a leader whose deadline has passed.                  *)
AsksIsLeader(n) ==
  IF state[n] = "leader" /\ validFor[n] = 0 THEN NoticeDeadline(n) ELSE UNCHANGED vars

(* Mutant: a session that ends without a crash ends the loop.              *)
SessionEndsLoop(n) ==
  /\ loop[n] = "session" /\ ~current[n]
  /\ loop' = [loop EXCEPT ![n] = "off"]
  /\ AsksIsLeader(n)
  /\ UNCHANGED <<current, crashes, transient, polled>>

(* The listener sees isCurrent() false and returns: a leader's loop goes   *)
(* on with the newest session, another one ends.                           *)
SessionEnds(n) ==
  /\ loop[n] = "session" /\ ~current[n]
  /\ IF IsLeader(n)
     THEN current' = [current EXCEPT ![n] = TRUE] /\ UNCHANGED loop
     ELSE loop' = [loop EXCEPT ![n] = "off"] /\ UNCHANGED current
  /\ AsksIsLeader(n)
  /\ UNCHANGED <<crashes, transient, polled>>

(* crashTimes with the new crash; those that left the window are dropped.  *)
Recent(n) == IF n \in Broken THEN {crashes[n] + 1} ELSE 1..(crashes[n] + 1)

(* Mutant: one restart too many. *)
GivesUpLate(recent) == recent > MaxRestarts + 1

GivesUp(recent) == recent > MaxRestarts

(* Mutant: the crash is only logged, and the lease kept. *)
StepsAsideNever(n) ==
  /\ loop' = [loop EXCEPT ![n] = "backoff"]
  /\ UNCHANGED <<vars, current>>

(* relinquish(), which returns at once on a node that does not lead.       *)
StepsAside(n) ==
  IF state[n] = "leader"
  THEN /\ Relinquish(n)
       /\ loop' = [loop EXCEPT ![n] = "relinquishing"]
       /\ current' = [current EXCEPT ![n] = FALSE]
  ELSE /\ loop' = [loop EXCEPT ![n] = "off"]
       /\ UNCHANGED <<vars, current>>

SessionCrashes(n) ==
  /\ loop[n] = "session"
  /\ n \notin Broken => transient < MaxTransient
  /\ transient' = transient + (IF n \in Broken THEN 0 ELSE 1)
  /\ \E recent \in Recent(n) :
       IF GivesUp(recent)
       THEN crashes' = [crashes EXCEPT ![n] = 0] /\ StepsAside(n)
       ELSE /\ crashes' = [crashes EXCEPT ![n] = recent]
            /\ loop' = [loop EXCEPT ![n] = "backoff"]
            /\ UNCHANGED <<vars, current>>
  /\ UNCHANGED polled

BackoffEnds(n) ==
  /\ loop[n] = "backoff"
  /\ IF IsLeader(n)
     THEN /\ loop' = [loop EXCEPT ![n] = "session"]
          /\ current' = [current EXCEPT ![n] = TRUE]
     ELSE /\ loop' = [loop EXCEPT ![n] = "off"]
          /\ current' = [current EXCEPT ![n] = FALSE]
  /\ AsksIsLeader(n)
  /\ UNCHANGED <<crashes, transient, polled>>

-----------------------------------------------------------------------------
(* The election's steps, with the callbacks they make.                     *)

Timer(n) ==
  /\ ~polled[n]
  /\ RunElection(n) \/ RunElectionInCooldown(n)
  /\ polled' = [polled EXCEPT ![n] = TRUE]
  /\ Callbacks

ElectionStep(n) ==
  /\ \/ Answered(n) \/ RenewalRefused(n) \/ ElectionEnds(n)
     \/ NoticeDeadline(n) \/ Signal(n) \/ ReleaseEnds(n)
     \/ CommandFails(n) \/ Crash(n) \/ Restart(n)
  /\ Callbacks
  /\ UNCHANGED polled

RedisStep ==
  /\ Expire \/ \E s \in strays : StrayRuns(s)
  /\ Callbacks
  /\ UNCHANGED polled

(* A process whose timer has nothing to do need not be seen to poll.       *)
Idles(n) == ~up[n] \/ running[n] \/ (cooldown[n] > 0 /\ state[n] = "standby")

(* A release does not outlive its deadline either.                         *)
ReleaseInTime(n) == Released(n) \/ Cooldown - cooldown[n] < MaxWait

TimersTick ==
  /\ \A n \in Nodes : (polled[n] \/ Idles(n)) /\ ReleaseInTime(n)
  /\ Tick
  /\ polled' = [n \in Nodes |-> FALSE]
  /\ Callbacks

HAInit ==
  /\ Init
  /\ loop = [n \in Nodes |-> "off"]
  /\ current = [n \in Nodes |-> FALSE]
  /\ crashes = [n \in Nodes |-> 0]
  /\ transient = 0
  /\ polled = [n \in Nodes |-> FALSE]

SupervisorStep(n) == SessionEnds(n) \/ SessionCrashes(n) \/ BackoffEnds(n)

HANext ==
  \/ \E n \in Nodes : Timer(n) \/ ElectionStep(n) \/ SupervisorStep(n)
  \/ RedisStep
  \/ TimersTick

HASpec == HAInit /\ [][HANext]_haVars

(* As in LeaderElection; a session that is no longer current returns, a    *)
(* back-off ends, and a broken node's session crashes.                     *)
FairHASpec ==
  /\ HASpec
  /\ WF_haVars(TimersTick) /\ WF_haVars(RedisStep)
  /\ \A n \in Nodes :
       /\ WF_haVars(Timer(n)) /\ WF_haVars(SessionEnds(n)) /\ WF_haVars(BackoffEnds(n))
       /\ WF_haVars(ElectionStep(n) /\ Answered(n))
       /\ WF_haVars(ElectionStep(n) /\ (RenewalRefused(n) \/ ElectionEnds(n)))
       /\ WF_haVars(ElectionStep(n) /\ ReleaseEnds(n))
       /\ WF_haVars(ElectionStep(n) /\ Restart(n))
  /\ \A n \in Broken : WF_haVars(SessionCrashes(n))

-----------------------------------------------------------------------------
(* Properties *)

HATypeOK ==
  /\ TypeOK
  /\ loop \in [Nodes -> Loops]
  /\ current \in [Nodes -> BOOLEAN]
  /\ crashes \in [Nodes -> 0..MaxRestarts]
  /\ transient \in 0..MaxTransient
  /\ polled \in [Nodes -> BOOLEAN]

(* A leader has a supervisor that keeps its listener running, whatever     *)
(* happened while the loop was suspended; only in the cooldown after it    *)
(* gave up can a node lead in name alone, until its timer demotes it.      *)
LeaderSupervised ==
  \A n \in Nodes : IsLeader(n) /\ cooldown[n] = 0 => loop[n] # "off"

(* isCurrent() of the session that runs on n.                              *)
Serves(n) == loop[n] = "session" /\ current[n] /\ IsLeader(n)

(* A node whose listener always crashes does not keep the lease from the   *)
(* others: one that works serves again and again.                          *)
ServiceReturns == []<>(\E n \in Nodes \ Broken : Serves(n))
=============================================================================
