# TLA+ models of Stellar-VRF

Formal models of the Soroban VRF oracle contract and of the off-chain worker
that serves it, checked with TLC on small instances and, where a proof is in
reach, proved with TLAPS for every value of the constants. Paths below are
relative to the repository.

## 1. The system

A consumer asks the contract for randomness and pays a fee into its escrow. The
contract binds the request to a future round of the drand beacon. A worker
process, the leader of a small cluster, waits for that round, builds a VRF proof
over the request and the beacon, and submits `fulfill()`. The contract verifies
the proof, stores the output, pays the oracle and calls the consumer back. If
nobody fulfills, the requester takes the fee back after a timeout.

| Component | Source | State | Operations |
|---|---|---|---|
| VRF contract | `soroban-contract/src/lib.rs` | instance keys (oracle and drand keys, counter, fee), per-request keys, token balances | `request`, `request_with_callback`, `fulfill`, `timeout_refund`, `cleanup_proof`, `rotate_oracle_keys`, `rotate_drand_pk`, getters and `derive_*` |
| Leader election | `oracle-worker/src/leader.ts`, `redisLock.ts` | Redis key with expiry; `state`, `leaseValidUntil`, `cooldownUntil`, `running`, the client's command queue | elections, heartbeat, `isLeader`, `relinquishLeadership`, signal handlers |
| File backend of the election | `leader.ts`, `fileMutex.ts` | lock file, mutex file | acquire, refresh, break stale, release |
| Supervisor | `supervisor.ts`, wired in `index.ts` | `session`, `running`, `crashTimes` | `start`, `stop`, restart with back-off, relinquish |
| Main loop | `index.ts` | ids being processed | `handleRequest`, `reconcile`, `runListenerSession` |
| Fulfiller | `fulfiller.ts`, `fulfillErrors.ts`, `retry.ts`, `resourceGuard.ts` | one send per attempt, its outcome | simulate, authorise, sign, send, poll, retry |
| Fee guard | `feeGuard.ts`, `spendLedger.ts` | hourly spend windows (Redis, file, memory), unresolved transactions, cached balance | `authorizeSend`, `settleSend`, `resolvePending` |
| Send caps | `sendAttempts.ts` | sends per request, bounded table | `tryReserve`, `park`, `clear` |
| Listener | `listener.ts` | event cursor, last ledger, older-id cursor | poll, resync, `findPendingRequests` |
| Drand client, prover | `drand.ts`, `vrf.ts` | none | wait for a round, fetch and verify it, build a proof |
| Consumer example | `consumer-example/src/lib.rs` | pending samples, results | `request_sample`, `on_vrf`, `refund_sample` |
| JavaScript client | `sdk/js/src/index.ts` | the account's sequence number, one call at a time | `request`, `waitForFulfillment`, `getProof`, `deriveRandomInRange` and its offline copies |
| Rust SDK, dashboards, scripts | `sdk/`, `dashboard/`, `playground/`, `*.mjs` | none shared | client-side calls |

How they interact: the contract calls the fee token and the consumer (a
synchronous callback inside `fulfill()`); the election calls `onBecomeLeader` and
`onLoseLeadership`, which start and stop the supervisor, which runs listener
sessions and may call `relinquishLeadership()` back; the listener and the
reconciliation hand requests to `handleRequest`, which asks `isLeader()`, the fee
guard and the send caps before and during `submitFulfillment()`; processes on
several hosts share the Redis lease and the Redis spend windows.

What is hard: callbacks in the middle of a call, with rollback to a savepoint;
one transaction-wide budget; two entry points that settle one request; key
rotations between a request and its fulfillment; every `await` in the worker, at
which timers, signal handlers and callbacks run; commands and transactions whose
outcome is unknown; leases that expire by somebody else's clock; crashes.

What makes each component correct:

- contract: the escrow covers exactly the pending requests; one outcome per
  request, final; an output belongs to its request and could not be known when
  the request was made; no consumer and no oracle can block settlement;
- election: no two leaders; a leader holds the lease; a leader is found again;
  a node that gives up leadership stays out for its cooldown;
- file backend: its critical section is exclusive; a dead holder is replaced;
- supervisor: one listener loop at a time; a leader has a running loop or gives
  up leadership;
- fulfiller, fee guard, send caps: fees spent in a window stay under the budget,
  every reservation is settled or kept, no request is sent more often than its cap;
- listener and main loop: every pending request is handed to the fulfiller in
  the end, and never twice at once;
- client: a program that calls `request()` again does not pay for both calls, and an abandoned one cannot
  land after another has returned an id; waiting ends; a number drawn on chain and its offline copy are the same, in range and uniform;
- consumer: a sample is set at most once, from its own request's output.

## 2. Modules

    VRFService             what the contract promises
       ^ refined by
    VRFOracle              the contract             <- MCVRFOracle (2 .cfg), VRFOracle_proofs, VRFService_proofs

    LeaderElection         leader.ts + redisLock.ts <- MCLeaderElection (4 .cfg), LeaderElection_proofs
       ^ extended by
    Supervisor             supervisor.ts and the callbacks of index.ts
                                                    <- MCSupervisor (1 .cfg), Supervisor_proofs
    FileMutex              fileMutex.ts             <- MCFileMutex (1 .cfg)
       ^ extended by
    FileLock               leader.ts, one host      <- MCFileLock (1 .cfg), FileLock_proofs

    FeeGuard               feeGuard.ts, spendLedger.ts, one attempt of fulfiller.ts
                                                    <- MCFeeGuard (1 .cfg), FeeGuard_proofs
    Fulfiller              handleRequest(), fulfiller.ts, retry.ts, fulfillErrors.ts, sendAttempts.ts
       ^ extended by, refined by
    Listener               listener.ts, sessions of index.ts
                                                    <- MCListener (1 .cfg), Listener_proofs

    Derivation             reduce_uniform() and its copy in the JavaScript client
       ^ extended by
    Client                 sdk/js/src/index.ts      <- MCClient (1 .cfg), Client_proofs

A proof module also holds the theorems of the module that its own extends: `FileLock_proofs` those of the mutex, `Listener_proofs` those of `Fulfiller`,
`Client_proofs` those of the derivation.

`FeeGuard` and `Fulfiller` look at the same transactions from two sides: the first at many sends at once and their money, the second at one
worker's control flow, in which the fee guard is a gate that opens or not.

### VRFOracle

The whole contract state is one record, `ledger`: each of its fields is a
`DataKey` of the source, a per-request key being a function of the request id and
an absent entry `None` (or `FALSE` for flags read with `unwrap_or(false)`).
`CallbackContract` and `CallbackFn` are written and removed together and can only
be the requester and `on_vrf`, so they are one Boolean, `Callback`. `Balance` is the fee
token. Three fields are history and no entry point reads them: `Context0` and
`MadeAt` record what a request was made with, `Donated` what others sent to the
contract unasked.

`CanX(s, ..)` is the conjunction of the checks of entry point `X` on ledger `s`,
`AfterX(s, ..)` the ledger it leaves; the action `X` combines them. A panic
leaves the ledger alone, so a call that panics is no step.

`fulfill()` is the only call that is not one step. Without a callback `Fulfill`
runs from its checks to the removal of the `Fulfilling` key. With one
(`FulfillInvokesCallback`) it performs the effects and the payment, pushes a frame with
a savepoint, and then any of these happens: the consumer makes calls of its own
(`TokenTransfer`, and every entry point of this contract when `ReentryAllowed`);
`CallbackReturns`; `CallbackFails`, which undoes what the callback did;
`BudgetExhausted`, which undoes the whole transaction. `committed` is the ledger
after the last completed transaction, the only one others see.

Signatures, VRF points and hashes are injective constructors: the value records
what it was made from. That is what `verify_*` and `derive_*` decide, given a
sound curve and a collision-free hash (the alpha preimage is a fixed-width prefix,
the context, and a fixed-width suffix, hence unambiguous). A key of the real drand
group signs a round once drand publishes it; any other key signs any round at any time.
`ProofsAt` lets a caller submit every proof some prover could build; a proof
whose fields do not fit together at all fails one of the equalities and is not enumerated.

Abstracted: storage TTLs and archival (entries never expire), event emission, the
resource cost of a call, arithmetic saturation (`saturating_add` on rounds that would take
the ledger clock near 2^64 seconds). The counter's width is `MaxRequestId`, at which
`checked_add` fails.

### LeaderElection

One process per node with the variables of `leader.ts`. `queue[n]` is the client's
single-flight command queue, its head being with Redis, and `answer[n]` the reply
not yet read. An election is suspended between `RunElection` and `ElectionEnds`; in
that time `Relinquish`, `Signal`, `NoticeDeadline`, time, the other node and failures may
step. `CommandFails` covers a timeout and a broken connection; the command may then be lost, or
executed later (`strays`), by a Redis that may by then have given the key away. `Crash`,
or `process.exit` at the end of a signal handler, loses the local state; `Restart` boots with a new token.

Time is kept in ticks remaining to each deadline: `validFor` to `leaseValidUntil`, `cooldown`
to `cooldownUntil`, `lease.ttl` to the expiry of the key; `age` is the time since an election read
`sentAt`. Redis may drop the key up to `Drift` ticks before a host's clock says so: that is the
clock-rate drift the safety margin is for, and the assumption `Drift <= Safety` is what
the code relies on. `MaxWait` bounds an election's commands, each of which has a deadline.
`revoked` is history: Redis deleted the key at this boot's own request.

Redis itself is modelled as one atomic server that loses nothing. A failover of Redis that loses the
key is outside the model, as it is outside the lease's guarantees.

### FileMutex and FileLock

`withFileMutex` as its file-system calls, one step each: `Create` (flag `wx`), `Stat`, `Rename`,
`Check`, `Link`, `Bury` (`breakIfStale`), `Retry` (deadline and sleep), then `Leave`, `Compare`, `Unlink`
(`finally`). A file is identified by the call that created it; once that call is over or its process is killed,
its files are nobody's (`Disown`), which stands for the random token of each call. Time is in ticks; critical sections
end within `Hold`, shorter than `Stale`, which is what fileMutex.ts:10-11 relies on. Nothing is assumed of the speed of breakers.

`FileLock` extends it with the lock file: an election or a release enters the mutex, reads the file, decides, and
creates, rewrites or removes it, again one file-system call per step, so that a kill can leave a file that is open and empty
(`Torn`). A process is busy from start to end, because all of it is synchronous; `IsLeader` therefore
speaks of idle processes. An idle process may start an election or a release at any time, which covers the poll, the heartbeat, the
cooldown, relinquishing and signals. The wall clock that stamps the lock file is taken not to jump.

### Supervisor

Extends `LeaderElection` with the supervisor of every node. The election's steps are taken with the callbacks they make: `Callbacks` starts a loop when
a step makes the node leader (`Becomes`), takes a new session number when it stops being leader (`Resigns`), and leaves a live loop alone, as
`start()` does. `loop[n]` says where `loop()` is suspended (in a session, in a back-off, in `relinquish()`), `current[n]` whether its session is the newest.
`SessionEnds`, `SessionCrashes`, `BackoffEnds` are its resumptions; each asks `isLeader()`, which demotes a leader whose deadline has passed. `Relinquish` of the
election happens only when a crash exceeds `MaxRestarts` (`StepsAside`). The sessions of a node in `Broken` always end in a crash; those of the others may
crash `MaxTransient` times. `Recent` leaves open which earlier crashes still lie in the window, except on a broken node, which crashes faster than the window forgets.

`CooldownOutlastsElections` says that the cooldown is longer than an election waits and than one period of the timers, as 60 s against three commands of 5 s in the code; with a shorter one a node that is still leader in name when it gave up could stay so, without a loop, after its cooldown.
A tick is one period of the timers: `TimersTick` waits until every node that has something to do has polled once. It also bounds a release by its deadline.

### FeeGuard

One element of `Sends` is one attempt of `submitFulfillment()`: `Check` (`check()`, which records nothing), `Build` (account, simulation, assembly), `CheckBalance`,
`ReserveUnpaid` and `ReserveCovered` (`authorizeSend()`, one step per await), `Withdraw` or `Send`, then an answer (`Rejected`,
`Confirmed`) or none (`NoAnswer`), `ResolvePending`, and the releases that `settleSend()` awaits. A retry is a send that was checked early, so what `check()` found may be stale. Sends are independent of one another except for what
they share: the two ledgers, the account's sequence number and its balance, and the clock. Hence one set of sends stands for concurrent
requests, retries and several processes alike; `Crash` kills any of them. `Include` is the network: a ledger takes a transaction if its sequence
number is the account's next and its `maxTime` has not passed, and charges at most its maximum fee. `doubtful` is history: the sends that a ledger's failure or a kill took out of the code's hands, the only ones that may leave entries behind.

The three implementations of `SpendLedger` (Redis, file, memory) are one map from sends to entries: all add an entry atomically if the window's sum allows
it (a Lua script, a file mutex, one turn of the event loop), and all remove by id. A call may fail without effect, or after it took effect (`TryReserve`). `unpaid` is `ledger`, `covered` is `paidLedger`.

Assumed: transactions of distinct sends differ (the hash covers sequence number, time bounds and fee); the RPC
node never shows an older account after a newer one; the network rejects for good what it answers `TRY_AGAIN_LATER` or a listed code; nobody else
spends the account's balance; one clock for the window and the network.
Assumed too, for the file backend: its mutex excludes. Finding 3 says when it does not, and then a reservation of one process may overwrite another's.
A sum of fees is the number of their units (`Units`, `Total`): a cardinality, about which the prover knows enough, where a fold over a set would need induction over data.
Abstracted: the balance that `check()` reads may be cached, so its floor refuses or admits freely (`authorizeSend()` reads it afresh); an on-chain fee that cannot be read lets a paid request
fall through to the list and the budget, so any funding that can be admitted is possible; a Redis command that is executed long
after its caller gave up on it is taken to be executed at once or never; what an attempt does after its outcome (retry, give up) is left to `Fulfiller`.

### Fulfiller

One worker. `task` is the handler: the request in it, the await it is suspended at (`beacon`, `context`, `submit`, `send`, `confirm`) and the attempt. The two nested
retry loops (`withFulfillRetry` around the loop of `submitFulfillment`) are one counter up to their product, `MaxAttempts`, because both resume at the same
place. `sends` is the map of `SendAttemptTracker`; `sent` is history, the transactions this process really sent. A handler's steps are one
action per outcome of each await. An error is what `fulfillErrors.ts` makes of it (`Classes`, `FailsAs`): the request is settled and forgotten,
or parked at its full allowance, or tried again. A parked or capped request is only skipped; `Clear` and a restart forget the count.

Around the handler: new requests, settlement by another node or a refund, transactions that land after the worker gave up on them (`loose`), the lease, restarts.
Everything that goes wrong counts as one of `MaxSetbacks`, so that liveness speaks of what happens once errors cease and the runs stay finite.

`isRequestFulfilled()` answers false when it cannot be read (`SeenUnfulfilled`); `Evicted` leaves open which of the other entries is the oldest.

### Listener

Extends `Fulfiller` with where requests come from. A session is one thread of control: it reconciles against the contract's state (`StartSession`), initialises its position (`InitListener`),
then polls a page of events, hands its requests on one by one, smallest id first (`HandNext`; `queue` is the set of those that are left), and now and then reconciles again (`Periodic`). `current` is `isCurrent()`, which
becomes false with the lease and ends the session at its next check; a new session of the same process inherits `lastCursor`, `lastLedger`
and `olderSweepCursor` (module variables of `listener.ts`). A reconciliation covers the newest `MaxScan` ids and the next `MaxScan` older ones in turn. A page may be refused because its cursor is
older than what the RPC keeps; then the cursor is dropped, with a look back of `ResyncLookback` ledgers if the chain's head can be read, and what lies between is left to the reconciliation.

Each request is the only event of a ledger of its own, so that ledger numbers are ids. Every step is a step of `Fulfiller` or leaves its variables alone
(the handler is entered with `Handle` only, an RPC error of the listener's own is `ListenerSetback`), so what is proved of `Fulfiller` holds of the composition; `WorkerIsFulfiller` proves that.

### Derivation and Client

`Derivation` has both halves of the range derivation: the contract's, in u128 arithmetic where 2^128 does not exist, and the client's, in big integers. The width
is given by the constant `Half`, 2^64 in the code: the u64 limits are the numbers below it, the u128 candidates those below its square. The hash is any pair of words. `Uniform` is the reference definition, asked of each of the two samplers: every value has as many accepted preimages as any other, and fewer candidates are rejected than there are values.

`Client` is a program that calls `request()` until an id comes back, `waitForFulfillment()` with it, and derives a number. It is alone with its account. A tick is a polling interval;
the network may include a transaction at any time within its time bounds, or never. An RPC error may end any call, after the send too. What the RPC answers is `rpc`, the chain as of the last ledger it has ingested (`Ingest`), which may be any time ago;
the account's sequence number comes from there too. No timing is assumed: time bounds and polls both last 120 s in the code, but by different clocks, and `latestLedgerCloseTime` is never consulted, so `Lifetimes` is any set and a call may give up on a transaction that
has landed unseen or will land yet. `built`, in a request, is history: how many calls had been begun when it was made.

## 3. Runs

| Run | Asks | Instance |
|---|---|---|
| `contract` | escrow, outcomes, timing, irrevocability, callbacks, and that committed ledgers implement `VRFService` | 2 addresses, 2 requests, one token each, drand period 2, 9 seconds |
| `contract_settles` | the two rotations against a request; the re-entry guard, if the host allowed re-entry; can a requester always settle | 1 request, period 1, `ReentryAllowed`, fair; 4 G2 keys of which one is unusable and one is drand's, 2 Ed25519 keys of which one is zero, a context too long |
| `election` | no two leaders, no lease lost | 2 nodes, TTL 3, one failing command, relinquishing |
| `election_returns` | crashes, signals, tokens of an earlier boot; is a leader found again | 2 nodes, TTL 4, 2 boots, fair |
| `election_shutdown` | finding 1 | 2 nodes, signals |
| `election_relinquish` | finding 2 | 2 nodes, relinquishing |
| `ha` | is a leader ever left without a listener; does a node with a broken listener let the other one serve | 2 supervised nodes, one broken, 1 restart, 1 transient crash, 1 failing command, TTL 4, cooldown 4, fair |
| `file_mutex_breakers` | finding 3 | 3 processes, 1 kill |
| `file` | exclusion until a kill, one acting leader on a host, are elections won again after a kill | 2 processes, 1 kill, TTL 4, fair |
| `fee_guard` | is every fee on record, the loss bounded, the balance above its floor, every reservation returned | 2 sends with any funding, fees 1 and 2, on-chain fee 1, both budgets 1, window 3, validity 1, 5 clock readings |
| `oracle` | is a request ever forgotten or sent too often | 3 requests, allowance 2, 3 attempts, 2 setbacks; scans of 1, pages of 2, retention 2; fair |
| `sdk` | can a program that tries again pay twice, does waiting end, do draws agree and are they uniform | 3 calls, 2 RPC errors, 2 polls, time bounds of 1 or 3 intervals, an RPC that lags as it likes; words of 6 bits, every range and hash; fair |

Why the bounds are enough. Requests are independent but for the counter, the
escrow and the nesting of callbacks, and each of these relates two requests; a
third adds nothing new. Two addresses give an oracle and a requester that may swap roles through
rotation. `MaxTime` lets a request made in the first ticks be fulfilled, time out and be refunded, with the
boundary tick on each side. Two nodes suffice for the lease: a third competitor sees the key
exactly as the second does. TTL 3 or 4 leaves room for an election that is answered at once, late, and
after its lease expired; one failing command at any point is enough for a stray, and a second boot for a command of an earlier boot.
`ha` has a node whose listener never works and one whose listener works most of the time, the least that makes giving up worthwhile. Its cooldown of 4 is longer than a lease, as twice the TTL is in the code; one restart is enough
for a crash that is retried and one that is not.
`file` stops at two processes and one kill because beyond that the mutex itself fails (finding 3): with three processes, or with a second
kill between `Rename` and `Link`, two processes write the lock file and both become leader.
`fee_guard` has two sends because each property relates two at most: two that compete for a budget of one, or for one sequence number. A fee of 2 has an unpaid and a
covered part, one of 1 only one of them. The window is long enough for an entry to be made, to outlive its transaction's validity and to leave.
In `oracle` no mechanism alone sees all three requests: a scan covers one id and one older id, a page two events, the RPC keeps two ledgers. So each request can be missed by the events and by the newest window, and must be found by the sweep.
Two setbacks are a lost answer and a restart, or a lost lease and an error after it; an allowance of two is spent within three attempts.
`sdk` has three calls, up to two abandoned before one succeeds, so that the transactions of earlier calls may land during a later one; time bounds are shorter or longer than the polls, so it may be dead, landed unseen, or still open when its call gives up. Six bits give 64 words and bounds up to 7, hence powers of two and others, one candidate rejected and both.
The contract's runs, `fee_guard` and `sdk` set `CHECK_DEADLOCK FALSE`: when the clock has reached `MaxTime`, or the program has its number, there may be nothing left to
do. Everywhere else time goes on, and TLC checks that no state is a dead end.

Fairness. `FairSpec` of the contract: ledgers close infinitely often (strongly, since a ledger
does not close inside a transaction); a callback ends, because it is metered; a requester keeps
submitting transactions that call `timeout_refund()` (a refund made inside a callback does not count: it may be rolled back). Nothing is assumed of the oracle, of other users or of how callbacks end. `FairSpec` of the election:
clocks advance, Redis answers and expires keys, the election timer fires (`setInterval`),
a process that received its answer runs, and the service manager restarts a dead one. No fault is forced. For a leader to exist at all
the time an election waits must be less than the TTL minus the safety margin, `MaxWait + Safety < TTL`; in the code three
commands of at most 5 s against 30 s and 6 s.
`FairHASpec` of the supervisor adds the timer of each node, the resumption of a loop after a session or a back-off, and, for a broken node, its crash; the other nodes' crashes are never forced. `PromptElections` is the same
timing assumption. `FairSpec` of `FileLock`: timers fire, processes run, time passes. `FairSpec` of the listener: the process runs, a standby becomes leader when the lease is free,
and the interval between reconciliations ends infinitely often when a session could go on polling (strong fairness: the check comes between polls). `FairSpec` of the client: its program runs and time passes; no transaction need be included and no request fulfilled.

## 4. Findings

1. **A node shutting down still calls itself leader** (`election_shutdown`). The signal handlers of
   `leader.ts:345-346` await `release()` but do not demote. Until the process exits,
   `isLeader()` stays true after Redis has deleted the key, and a standby may have acquired it. `leader.ts:350`
   promises "True only while we hold the lease AND its local deadline has not passed." The window lasts one
   round trip; a send begun in it is a duplicate the contract refuses.
2. **A relinquishing node can become leader again at once** (`election_relinquish`). `runElection` looks at
   `cooldownUntil` before it awaits Redis and not after. If a heartbeat's renewal is in flight when the supervisor calls
   `relinquishLeadership()`, its positive answer makes the node leader again (lease deadline, heartbeat timer, `onBecomeLeader`)
   inside the cooldown, and the release queued behind it then deletes the key. `leader.ts:268-269` says the node will
   "stay out of the election for RELINQUISH_COOLDOWN_MS".
3. **Two holders of the file mutex** (`file_mutex_breakers`). Breaker A sees a stale file; breaker C renames it aside; B creates a
   fresh one and enters; A, late, renames B's file aside; C creates another and enters. fileMutex.ts:7 says
   "so only one process holds it at a time." and lines 11-12 that two breakers cannot both win. It needs a killed holder and three processes (or two and a
   second kill), on the single-host fallback only; production must use Redis.
The first two are why `LeaseHeld` and `SoleLeader` speak of nodes that have not released: apart from
these two windows, the lease is exclusive, and that is proved. `ha` shows that the second one does not compose into a leader without a listener:
`LeaderSupervised` excuses only a node in its cooldown, which its timer demotes.

Smaller disagreements, without a run of their own:

- `leader.ts:158` says "Corrupted lock - try to take over" and calls `tryCreateLockAtomically()`, whose flag `wx` fails with `EEXIST`: after a kill between
  the open and the write of `leader.ts:200` no process of the host becomes leader until the file is removed by hand. `ElectionsAreWon` excuses exactly that state, `<>[](lock = Torn)`.
- `feeGuard.ts:30-34` says the sum of fees "can never exceed" the budget "per rolling hour". An entry is dated when it is reserved and a fee is charged up to the transaction's
  validity (120 s) later, so an hour of charges may hold those of an hour and two minutes of reservations. `LossBounded` therefore speaks of `Window - Validity`; with `Window - Validity + 1` TLC finds it violated.
- `supervisor.ts:15` speaks of `maxRestarts` crashes in the window; the code relinquishes after one more than that (`>`).
- `sendAttempts.ts:64-66`: an attempt that the network refused without a fee uses up the allowance all the same. The cap is on sends, as its first line says.
- A call of `request()` that timed out or was cut off may still make its request: both limits are 120 s, and the client does not ask whether the ledger past `maxTime` has closed, as the worker does (`feeGuard.ts:398-400`). If that happens before the program
  calls again, the program pays twice and knows of the second request only. If it happens later, the two transactions have one sequence number and one of them is dead. `PaysOnce` is the second half; the first half is what the code does, and no document promises otherwise.
- The client takes `TRY_AGAIN_LATER` for sent, `getProof()` answers null to any error, after which `waitForFulfillment()` returns a proof of zeros beside the right output, and it never looks at `isRefunded()`: a refunded request is waited for until the
  timeout. `Client` has all three; no document promises otherwise.

## 5. Theorems

The proofs are in `VRFOracle_proofs`, `VRFService_proofs`, `LeaderElection_proofs`, `Supervisor_proofs`, `FileLock_proofs`, `FeeGuard_proofs`, `Listener_proofs` and `Client_proofs`. They
need only the assumptions named in the modules (`ConstructorAccepts`, `Environment`, `NoneIsNoOutput`; `Timing`, `Switches`, `NoneIsNoToken`; `BrokenNodes`, `PromptElections`,
`CooldownOutlastsElections`, `RestartBounds`; `Times`, `NoneIsNoFile`, `LeaseTimes`, `NoLockFile`; `Amounts`, `NoneIsNoEntry`; `FulfillerConstants`, `ListenerConstants`; `HalfWord`, `ClientConstants`), and
the hypotheses written into four kinds of theorems: no re-entry, a table with room for every request, at most two processes, and a mutex that excludes. Every safety property the runs check is proved, but for those that
findings 1 to 3 show to be violated.

**Contract.** The safety properties speak of every ledger in play: the current one, the
committed one and every savepoint. A property of single ledgers is therefore shown in two parts: `AfterX`
preserves it for each entry point, whatever the ledger; and every step either applies one `AfterX` or
returns to a ledger that is already in play. `TypeCorrect` comes first. `EscrowAlwaysBacked`
needs the cardinality of the pending set: it grows by one in `AfterRequest` (the ids above the counter are unused, which is the
strengthening) and loses one in `AfterFulfill` and `AfterRefund`. `OutcomeUnique`, `PendingStaysServiceable`, `OutputsBound` and `KeysStaySeparate`
are proved together with what they need of each other: a request without a requester has no outcome, a fulfilled one keeps its output, a pending one its
context. `GuardNeverLeaks` needs that a request has at most one frame and that each savepoint's guards are those
of the frames below it. `SettlementsIrrevocable` follows from a chain: `committed` evolves to each savepoint, outermost first,
and the last savepoint to the current ledger. `LeadTimeHolds` and `RefundAlwaysLeavesWindow` need a second invariant on top, `Timely`, which ties the clock to what is found on a
ledger: rounds are those of the time of the request, a refund means that its window's last beacon is out, and an output made with drand's key that its own beacon is; the rest is
arithmetic of whole periods (`Division`, `ReachedIsPublished`, `RequiredRoundIsAhead`). `CallbacksCannotVeto` is read off the savepoint taken after the effects.

`ContractImplementsService` is the refinement to `VRFService`, for a host that forbids a callback to call back (`~ReentryAllowed`, a hypothesis). It needs
`CallInv` beside `IInv`: at most one `fulfill()` waits for its callback, and the running ledger and its savepoint differ from the committed one by exactly that delivery, whatever tokens the callback moves;
so the commit, of either ledger, is one `Deliver` and an abort is none. Lemmas ending in `View` say what a call looks like to the service, those starting with `Mapped` that such a change is its step.

**Election.** The inductive invariant `IInv` is the type invariant and, for each node, `NodeInv`: what the queue
can look like; while the node is leader, that the key carries its token and lives at least
`validFor + Safety` more ticks, or that it has been revoked; and while a positive answer is unread, the same
with `TTL - age`. The last part is why the deadline must be counted from before the command was sent. `LeaseNeverLost`
and `LeadersExclude` follow, `ElectionsDoNotPileUp` from the shape of the queue.

**Supervisor.** `SupervisedElectionIsElection` shows that the composition only takes steps of `LeaderElection`, whatever sessions and back-offs do; the lease theorems therefore hold of it
(`SupervisedLeadersExclude`). `LeadersAreSupervised` needs to follow a node through giving up (`SupInv`): a leader without a live loop, `InNameAlone`, cannot be in an election, its cooldown has run for no longer than a release
or one timer period, and once a period is over its timer has not yet looked (`~polled`). A positive answer that is unread when the node gives up (finding 2) keeps it leader for that time and no longer.
The lemmas on `Gentle` say what a step of the election does to a node at most: it queues no release and moves no cooldown. `ReleasesAreAwaited` comes with the same invariant: `loop()` waits in `relinquish()`
exactly while the release is on the queue.

**File lock.** `ExclusiveUntilKill`: while nobody has been killed, the file at the path belongs to a process that is inside and
will leave before the file can count as stale (`age + clock <= Hold < Stale`), so no breaker gets past `Stat`, and whoever is inside owns that
file. After a kill exclusion does not hold in general (finding 3). It does with a primary and one backup and a single kill, `TwoExclude`: the file of a process that is inside is at the path, or aside with the other process,
which finds it fresh and puts it back before it can create one of its own (`TwoInv`). Two processes and one kill are exactly the bounds beyond which TLC finds it broken.
The lock file's protocol moves the mutex as `FileMutex` says (`FileLockUsesMutex`), so these theorems are its own. `LeaderNamedInLock` rests on the mutex alone: `LeaderNamedWhileExclusive` proves it of every execution in which the mutex
excludes, whatever is killed, and `LeaderNamedUntilKill` and `LeaderNamedByTwo` give it for the executions where exclusion is proved. `LockInv` says what a process inside knows of the file it has read
(`Decided`), and that the leader's lease ends `Safety` before the age in the file reaches the TTL.

**Fee guard.** `IInv` says of each send what its label implies about its entries (`LabelInv`), that they are there while the network can
charge it (`RecordInv`), and that a send authorised on the account's present sequence number can be paid from its present balance
(`PayInv`). The last one is why `FloorNeverBroken` holds although authorisations do not reserve balance: an inclusion advances the sequence number, and
with it every other authorised send is either on an older number, hence dead, or not yet authorised.
Sums need one lemma: if every amount is at most the sum of two others, so is the total (`TotalSplits`, an injection of the units). `BudgetsNeverExceeded` follows, since time and releases only remove entries and a
reservation was compared with what the window holds in the same atomic step. `LossAlwaysBounded` needs `FeesInv` on top: entries have the amounts of the envelope's two parts and were made at most `Validity` before its `maxTime`, and
a fee that was charged is at most the maximum, at `maxTime` at the latest. So what landed less than `Window - Validity` ago is still in the windows, as far as the contract has not paid it back.
`ReservationsReturned` is the converse of `FeesRecorded`, what must not be on record: `LeakInv` says which of its two entries a send may hold at each label of `authorizeSend()` and `settleSend()`, so that every way out has undone what was done,
unless a ledger failed or the process died (`doubtful`).

**Fulfiller and listener.** `SendsCapped` says that one process never sends more than `MaxSends` transactions for a request, provided the table has room for every request (`MaxId <= MaxTracked`, a hypothesis of the theorem).
`SendCap` alone is not inductive, since a count may be cleared. The invariant, `Capped`, says of each request: either it is settled and nothing
is about to be sent for it, or the sends made plus the one that is owed (the handler has reserved and not yet sent) are at most its count, and the count is at most `MaxSends`. Clearing is safe because it follows a settlement that is final, eviction does not happen by the
hypothesis, and a restart sets both sides to zero. It carries over to `Listener`, of which `WorkerIsFulfiller` proves that its steps are `Fulfiller`'s or stutter (`WorkerSendsCapped`). The refinement rests on what the listener hands on: `WorkerInv` says that the queue holds only issued requests, whatever the cursor, the position and the sweep are, that issued ids have no gaps, and that a loop that goes on polling has failures left.

**Client.** `CallsPayOnce` follows from `PaysInv`: what the RPC answers may be old but was true once (`Behind`), so no transaction is numbered beyond the account's next number, and one with that number
belongs to a call that began after every request so far was made (`Numbered`). An inclusion uses the number up, for the abandoned call's transaction and its successor's alike; and an id that is returned is in a ledger, so whatever was sent before it is numbered below it.
`DrawsAlwaysAgree` and `DrawsAlwaysUniform` hold of words of any size. The first is arithmetic: 2^128 mod max computed from 2^128 - 1 as the contract does is the remainder the client computes directly, so both accept the same candidates.
The second maps the accepted candidates of value 0 to those of any other value by adding that value (`CycleStart`, `CycleBack`, a bijection of `Preimages`), and bounds the rejected ones by the length of an incomplete cycle.

Model-checked only: the liveness properties `EventuallySettled`, `LeaderReturns`, `ElectionsAreWon`, `ServiceReturns`, `EveryRequestServed` and `WaitTerminates`, which are out of the prover's reach,
and the three violated properties of the findings, which are false.

## 6. Not modelled

Curve arithmetic, hashing and encodings; storage TTL and archival; Redis's own replication; HTTP, RESP and
XDR decoding; configuration and its start-up check against the contract, logging, metrics and health reporting; deployment, drill and TTL scripts (linear, nothing shared); the consumer example; the Rust SDK; user interfaces.
`processingRequests` of `index.ts` is left out because in this code no two handlers ever run at once in a process: everything a session does is awaited and a process has one loop.

## 7. Plan

1. Theorems: the exact windows of findings 1 and 2 as invariants (how long a node that shuts down, or wins inside its cooldown, may still call itself leader); refinement of an abstract lease by both backends.
2. `Consumer`, the example's samples against the contract's callback rules.
3. The start-up check of the configuration (`configCheck.ts`) against key rotations: it is made once, and a rotation after it is noticed only by failing simulations.
