------------------------------ MODULE Listener ------------------------------
(***************************************************************************)
(* Where a worker's requests come from (oracle-worker/src): the listener   *)
(* sessions of index.ts, which the supervisor starts and ends with the     *)
(* lease, the event pages of listener.ts and its reconciliation against    *)
(* the contract's state.  Everything in a session is awaited, so requests  *)
(* are handled one after another; the handler is that of Fulfiller.        *)
(*                                                                         *)
(* Each request is the only event of a ledger of its own: a ledger's       *)
(* number is the request's id, and the newest ledger the newest id.        *)
(***************************************************************************)
EXTENDS Fulfiller

CONSTANTS
  MaxScan,         \* RECONCILE_MAX_SCAN
  PageLimit,       \* events in a page of getEvents
  Retention,       \* ledgers the RPC keeps events of
  StartupLookback, \* STARTUP_LOOKBACK_LEDGERS
  ResyncLookback,  \* ledgers looked back after a refused cursor
  MaxPollFailures  \* LISTENER_MAX_POLL_FAILURES

ASSUME ListenerConstants ==
  /\ {MaxScan, PageLimit, Retention, MaxPollFailures} \subseteq Nat \ {0}
  /\ {StartupLookback, ResyncLookback} \subseteq Nat

VARIABLES
  phase,      \* where the session is
  current,    \* isCurrent() of the session, but for the lease
  queue,      \* the requests it goes through, in the order of their ids:
              \* a page's, or those found pending
  lastCursor, \* position after the last page, or None
  lastLedger, \* where to start without a cursor, or None
  sweep,      \* olderSweepCursor
  failures    \* consecutivePollFailures

positionVars == <<lastCursor, lastLedger, failures>>
sessionVars == <<phase, current, queue, sweep>>
vars == <<fulfillerVars, positionVars, sessionVars>>

Handing == {"recovering", "events", "reconciling"}
Phases == Handing \cup {"off", "start", "init", "poll", "periodic", "crashed"}

(* isCurrent() *)
IsCurrent == current /\ leader

-----------------------------------------------------------------------------
(* findPendingRequests() *)

Counter == Cardinality(Issued)
AtLeastOne(n) == IF n >= 1 THEN n ELSE 1

Floor == AtLeastOne(Counter - MaxScan + 1)

(* Mutant: the sweep over older ids starts from the top in every pass. *)
OlderTopAlways == Floor - 1

OlderTop == IF sweep # None /\ sweep < Floor THEN sweep ELSE Floor - 1
OlderBottom == AtLeastOne(OlderTop - MaxScan + 1)

Scanned ==
  Floor..Counter \cup (IF Floor > 1 THEN OlderBottom..OlderTop ELSE {})

SweepAfter == IF Floor > 1 /\ OlderBottom > 1 THEN OlderBottom - 1 ELSE None

Found == {id \in Scanned : status[id] = "pending"}

(* reconcile(): an RPC error loses the pass, and nothing else. *)
Reconcile(next, failed) ==
  \/ /\ queue' = Found
     /\ sweep' = SweepAfter
     /\ phase' = next
     /\ UNCHANGED setbacks
  \/ /\ Setback
     /\ phase' = failed
     /\ UNCHANGED <<queue, sweep>>

-----------------------------------------------------------------------------
(* pollRequestEvents() *)

Oldest == AtLeastOne(Counter - Retention + 1)

Clamp(ledger) ==
  LET kept == IF ledger < Oldest + 1 THEN Oldest + 1 ELSE ledger IN
  IF kept > Counter THEN Counter ELSE kept

(* The first ledger of the next page. *)
Start ==
  IF lastCursor # None THEN lastCursor + 1
  ELSE IF lastLedger # None THEN Clamp(lastLedger) ELSE Counter

(* The RPC refuses a cursor that points before the events it keeps. *)
Refused == lastCursor # None /\ Start < Oldest

PageEnd == IF Start + PageLimit - 1 < Counter THEN Start + PageLimit - 1 ELSE Counter

Page == {id \in 1..Counter : id \in Start..PageEnd}

PollSucceeds ==
  /\ ~Refused
  /\ queue' = Page
  /\ lastCursor' = PageEnd
  /\ lastLedger' = IF Page # {} THEN PageEnd
                   ELSE IF lastCursor = None THEN Start ELSE lastLedger
  /\ failures' = 0
  /\ phase' = "events"
  /\ UNCHANGED setbacks

(* An error that names the cursor or the ledger drops the cursor, and      *)
(* looks a little back if the chain's head can be read.                    *)
Resync ==
  /\ lastCursor' = None
  /\ lastLedger' \in {lastLedger, Clamp(Counter - ResyncLookback)}

PollFails ==
  /\ \/ Refused /\ Resync /\ UNCHANGED setbacks
     \/ Setback /\ Resync
     \/ Setback /\ UNCHANGED <<lastCursor, lastLedger>>
  /\ failures' = failures + 1
  /\ queue' = {}
  /\ phase' = IF failures' >= MaxPollFailures THEN "crashed" ELSE "events"

-----------------------------------------------------------------------------
(* runListenerSession() and startListenerLoop() *)

(* The supervisor goes on with a new session while the node leads. *)
SessionOver ==
  /\ phase' = IF leader THEN "start" ELSE "off"
  /\ current' = leader

StartSession ==
  /\ phase = "start"
  /\ Reconcile("recovering", "recovering")
  /\ UNCHANGED <<chainVars, leader, task, sends, sent, positionVars, current>>

NextAfter ==
  [recovering |-> "init", events |-> "periodic", reconciling |-> "poll"]

HandNext ==
  /\ phase \in Handing /\ IsCurrent
  /\ \E id \in queue :
       /\ \A other \in queue : id <= other
       /\ Handle(id)
       /\ queue' = queue \ {id}
  /\ UNCHANGED <<positionVars, phase, current, sweep>>

(* What is left of the queue when the session is no longer current is lost. *)
HandingEnds ==
  /\ phase \in Handing /\ task = Idle
  /\ queue = {} \/ ~IsCurrent
  /\ queue' = {}
  /\ IF phase = "recovering" /\ ~IsCurrent
     THEN SessionOver
     ELSE phase' = NextAfter[phase] /\ UNCHANGED current
  /\ UNCHANGED <<fulfillerVars, positionVars, sweep>>

InitListener ==
  /\ phase = "init"
  /\ \/ /\ lastLedger' = Clamp(Counter - StartupLookback)
        /\ lastCursor' = None
        /\ failures' = 0
        /\ phase' = "poll"
        /\ UNCHANGED <<setbacks, current>>
     \/ Setback /\ SessionOver /\ UNCHANGED positionVars
  /\ UNCHANGED <<chainVars, leader, task, sends, sent, queue, sweep>>

Poll ==
  /\ phase = "poll"
  /\ IF IsCurrent
     THEN (PollSucceeds \/ PollFails) /\ UNCHANGED current
     ELSE SessionOver /\ UNCHANGED <<positionVars, queue, setbacks>>
  /\ UNCHANGED <<chainVars, leader, task, sends, sent, sweep>>

SessionCrashes ==
  /\ phase = "crashed"
  /\ SessionOver
  /\ UNCHANGED <<fulfillerVars, positionVars, queue, sweep>>

PeriodicNotDue ==
  /\ phase = "periodic"
  /\ phase' = "poll"
  /\ UNCHANGED <<fulfillerVars, positionVars, current, queue, sweep>>

Periodic ==
  /\ phase = "periodic" /\ IsCurrent
  /\ Reconcile("reconciling", "poll")
  /\ UNCHANGED <<chainVars, leader, task, sends, sent, positionVars, current>>

SessionStep ==
  \/ StartSession \/ HandNext \/ HandingEnds \/ InitListener
  \/ Poll \/ SessionCrashes \/ Periodic

-----------------------------------------------------------------------------
(* onBecomeLeader() and onLoseLeadership(), as in Supervisor. *)

BecomeLeader ==
  /\ GainLease
  /\ phase' = IF phase = "off" THEN "start" ELSE phase
  /\ current' = (phase = "off")
  /\ UNCHANGED <<positionVars, queue, sweep>>

LoseLeadership ==
  /\ LoseLease
  /\ current' = FALSE
  /\ UNCHANGED <<positionVars, phase, queue, sweep>>

Restart ==
  /\ Reboot
  /\ phase' = "off" /\ current' = FALSE /\ queue' = {}
  /\ lastCursor' = None /\ lastLedger' = None /\ failures' = 0
  /\ sweep' = None

Init ==
  /\ FulfillerInit
  /\ phase = "off" /\ current = FALSE /\ queue = {}
  /\ lastCursor = None /\ lastLedger = None /\ failures = 0
  /\ sweep = None

Serving == HandlerStep /\ UNCHANGED <<positionVars, sessionVars>>

Next ==
  \/ SessionStep \/ PeriodicNotDue \/ Serving
  \/ ChainStep /\ UNCHANGED <<positionVars, sessionVars>>
  \/ BecomeLeader \/ LoseLeadership \/ Restart

Spec == Init /\ [][Next]_vars

(* The process runs, a standby becomes leader, and the interval between    *)
(* reconciliations ends now and then.  Nothing else is forced to happen.   *)
FairSpec ==
  /\ Spec
  /\ WF_vars(SessionStep \/ PeriodicNotDue) /\ SF_vars(Periodic)
  /\ WF_vars(Serving) /\ WF_vars(BecomeLeader)

-----------------------------------------------------------------------------
(* Properties *)

TypeOK ==
  /\ FulfillerTypeOK
  /\ phase \in Phases
  /\ current \in BOOLEAN
  /\ queue \subseteq Ids
  /\ lastCursor \in 0..MaxId \cup {None}
  /\ lastLedger \in 0..MaxId \cup {None}
  /\ sweep \in Ids \cup {None}
  /\ failures \in 0..MaxPollFailures

(* No request is forgotten: although events are skipped by a resync, aged  *)
(* out, dropped with the rest of a page or given up on after an error, and *)
(* old ids are looked at in turns, every request is fulfilled or refunded  *)
(* in the end, or the worker has spent its allowance on it.                *)
EveryRequestServed ==
  \A id \in Ids : status[id] = "pending" ~> status[id] # "pending" \/ Exhausted(id)
=============================================================================
