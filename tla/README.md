# Verification of commandcode-manager

TLA+ models of the parts of commandcode-manager in which processes, callbacks,
Redis scripts and an unreliable upstream interleave; TLC configurations that
check them on small instances; proofs, checked by TLAPS, of the safety properties of
every component for all values of the constants. Paths below are relative to the
repository's `src`.

    tlc -workers 2 -config MCGatewayLeases.cfg MCGateway     # any run of PROJECT.json
    tlapm LeasesProofs.tla       # likewise Gateway-, RefreshQueue-, DedicatedKey-, AccountSync-,
                                 # Quota-, Scheduler- and KernelProofs

## 1. The system

A pool of upstream accounts is shared by clients of one gateway. A **web**
process (Nuxt/h3; there may be several) serves the gateway `/v1/*`, the
administrator's pages and an external API. A **worker** process (BullMQ) runs
refreshes, imports and a periodic scheduler. They share **PostgreSQL**
(accounts, models, keys, settings, logs) and **Redis** (leases, cooldowns, job
queues, locks, backoffs). The **kernel**, a vendored proxy that the build patches
(`reference/commandcode-proxy-6217305/proxy.mjs`, `scripts/build-core.mjs`), stands
between the gateway and the upstream and translates three protocols; the worker
asks the upstream directly.

| component | state it keeps | operations | interacts by |
|---|---|---|---|
| gateway leases (`server/lib/gateway/scheduler.ts`) | sorted sets of leases, global and per account; cooldowns; session affinity; a round-robin counter | ACQUIRE, RENEW, RELEASE, COOLDOWN scripts | called by the handler |
| gateway handler (`gateway/handler.ts`, `accounts.ts`, `errors.ts`, `affinity.ts`, `transport.ts`) | per request: attempt, accounts tried, abort signal, renewal interval, idle timer, response | `handleGateway` | leases, PostgreSQL, kernel, client, refresh queue |
| refresh queue (`server/lib/queues.ts`, `worker/tasks.ts`, `worker/index.ts`) | one BullMQ job per account, dirty counter, backoff, enqueue lock | `enqueueAccountRefresh`, `processRefresh`, the `completed` handler | gateway, administrator and scheduler enqueue; worker runs |
| dedicated keys (`worker/keys.ts`) | `key_creation_intents`, `api_key_ciphertext`, `api_key_id`; keys upstream | `ensureDedicatedKey` | inside `syncAccount`, under the account lock |
| account lock and rate limiter (`worker/coordination.ts`) | lock keys, next slot of the upstream | `withAccountLock`, `assertLock`, `rateLimitUpstream` | sync, every upstream call |
| account sync and quota pause (`worker/tasks.ts`, `server/lib/account-quota.ts`, `accounts.ts`, `api/accounts/*`) | account rows: status, snapshot, enabled, quota_paused, reasons, resume time | `syncAccount`, `saveAccountSnapshot`, `completeAccountSync`, `patchAccount`, bulk actions | worker, administrator, import |
| quota algorithms (`shared/quota.ts`, `gateway/quota.ts`, `dashboard-quota.ts`) | none | windows, block, totals | sync, gateway, dashboard |
| import jobs (`queues.ts`, `worker/tasks.ts`, `account-import*.ts`) | job data with a checkpoint | `queueImport`, `processImport`, `attachIdentity` | administrator, external API, sync |
| periodic scheduler (`worker/scheduler.ts`) | scheduler lock, page cursor, slots of catalogue and log cleanup | `schedulerTick` | refresh queue |
| protocol kernel (`proxy.mjs`) | `inflightCount`; per request: translator, abort signal, watchdog, response, what it asked of the upstream | `/v1/chat/completions`, `/v1/messages`, `/v1/responses`, each streamed or buffered; `/health` | called by the gateway, calls the upstream |
| response inspection (`gateway/response.ts`) | flags per answer: failure, output, completed, incomplete | `push`, `observe` | reads what the kernel sends, for the handler's log row |
| settings, sessions, keys, logs, events, dashboard, pages | rows, a five-second cache, sessions in Redis | single statements | - |

What is hard in it:

* *Timers against scripts.* A lease lives 60 s and is renewed by an interval
  of 15 s while an attempt is open; every script call may be late, lost, sent again or run after
  its caller has given up. The upstream limit holds only if the request is
  aborted before its lease runs out.
* *Exceptions and `finally`.* A request may leave an attempt from a dozen awaits;
  each way out must stop the renewal, release, and end or break the response.
* *Coalescing.* Many callers share one job per account. The job's state is read,
  and acted upon later; the worker compares a version of the dirty counter
  meanwhile. A wake-up may be lost.
* *An upstream without idempotency.* A create whose answer is lost may have
  happened, happen later or never; the worker may die, or lose its lock, at any
  instruction.
* *Compare-and-set on account rows* between syncs, administrator and imports.
* *Quotas from incomplete snapshots.* Any window, balance, summary or reset time may
  be missing or malformed; an account is paused for one snapshot's reasons and may
  come back only when a later one has evidence for each of them, and yet must come
  back.
* *A scan with a cursor.* The scheduler looks at one page per tick, under a lock that
  may expire, and must reach every due account although others fail.
* *Three protocols out of one stream.* The kernel's handlers have two catches each, and
  on every way out the upstream must be stopped, the client answered once, and a
  failure must look like one even after the head of a stream is gone.

Correctness, component by component: the leases never exceed a limit and none
comes back from the dead; the handler implements the abstract scheduler
`Dispatch`, answers with one upstream answer whole or visibly cut, always ends
and gives the capacity back; a refresh that is requested is eventually run and
never wiped out unserved; one upstream key per account, which works; a manual
disable is never undone and an account is enabled again only when each reason of
its pause has recovered; every due account is scanned and every pause ends; the
kernel answers once and in form, lets no failure pass for a success, and leaves
neither a place nor an upstream request behind.

## 2. Modules

| module | models | extends / instantiates |
|---|---|---|
| `Leases` | the four scripts and time, with the most general client | |
| `LeasesProofs` | theorems about `Leases` | EXTENDS `Leases` |
| `Dispatch` | abstract: upstream requests start where there is room, on another account each time, never after an answer | |
| `Gateway` | `handleGateway` for several requests | EXTENDS `Leases`, INSTANCE `Dispatch` |
| `RefreshQueue` | the refreshes of one account | |
| `DedicatedKey` | the dedicated key of one account | |
| `AccountSync` | the row of one account, between syncs, administrator and imports | INSTANCE `Quota` (`Decisions`) |
| `Quota` | what a snapshot says about quotas: pure operators | |
| `QuotaProofs` | a theorem about `Quota` | EXTENDS `Quota` |
| `Scheduler` | the scan of the accounts, and pauses in time | EXTENDS `Quota` |
| `Translation` | upstream lines to frames, three protocols: pure operators | |
| `Inspection` | what the gateway makes of frames: pure operators | EXTENDS `Translation` |
| `Kernel` | the kernel's server and handlers | EXTENDS `Inspection` |
| `GatewayProofs` | theorems about `Gateway` | EXTENDS `Gateway`, `LeasesProofs` |
| `RefreshQueueProofs`, `DedicatedKeyProofs`, `AccountSyncProofs`, `SchedulerProofs`, `KernelProofs` | theorems about the module of the name | EXTENDS it |
| `MCLeases`, `MCGateway`, `MCAccountSync`, `MCScheduler`, `MCKernel` | values of constants and symmetry for TLC | |

### Leases

`globalLeases` and `accountLeases[a]` are the sorted sets; a score is kept as the
ticks it lies ahead of the Redis clock, so a positive value is a live lease, 0 an
expired one still stored, `NoEntry` an absent one. Each script is one action, for
Redis runs it atomically: `Acquire` (with pruning of the accounts it visits, the
preferred account, the least loaded ratio, any tie broken either way as the shared
round-robin counter may), its two refusals, `Release`, `Renew`, `CoolDown`. `Spec`
lets anybody call any script with any token, account and limit at any time: it
covers every caller, stray retransmissions included.

### Gateway

One process per request, `pc[r]` naming the await it stands at:

    idle -> list -> loop -> acquire -> granted -> touch -> fetch -> body_ok    -> inspect
                     ^                                        \--> body_error -> failed -> flush
                     |                                                             |
                     +--------------------- release_retry <------------------------+
    inspect, failed, flush -> release_return -> log -> done
    any throw while an attempt is open -> release_throw -> catch -> log -> done

`acquire` is ACQUIRE under way and `granted` its reply under way. The renewal
interval is `renewal[r]` and `timer[r]`; a RENEW sent is a message in `msgs`, may
run at any later time, and its reply is another message, heeded only while the
renewal waits for it. `Abort` is `controller.abort`: fetch, reads and writes throw
from then on. The idle timer starts again with each chunk: `Stalls(r)` is that no chunk
moves for as long as it runs, which puts `r` in `stalled`, and `IdleTimeout` takes
nothing but stalled attempts. `StopTimers` is the `finally` clearing both timers.
`Disconnect` counts only while the listener is registered; `Begin`
may find the client already gone. Faults, at most `MaxFaults` per request, are a
script that is sent again, that fails with or without being run (now or later), a
failed release, and the death of the process.

Abstracted: the path, authentication and body checks are one action (`Reject`);
an answer is good or failed, and a failure is of one of the three classes the
retry rule tells apart; buffered chunks change nothing until flushed.

### RefreshQueue

`job` is the BullMQ job under the identifier made of the account; `dirty` and
`fresh` stand for the dirty counter (the key exists; it still has the version the
worker read). Every await of `enqueueAccountRefresh` is a step of its own, under
the enqueue lock: `GetJob`, `GetState`, `Record` (INCR), `Add`, `ChangePriority`,
`UpdateData`, `Expedite`. Of `processRefresh`: `Take`, `ReadVersion`, `PutOff`,
`SyncStarts`, `SyncSucceeds`/`SyncFails`, `Clear` (compare-and-delete), `Finish`.
`events` counts completions whose handler has not looked yet. `unserved` and `owed`
are history variables for the properties.

Abstracted: how long a delay or a backoff is (it elapses at some time);
`data.accountId`; the dirty key's TTL of a week and the ageing of failed jobs.
The account stays enabled or quota-paused, as the periodic scheduler scans only
those.

### DedicatedKey

The upstream's keys of the account's name, creates and deletes sent and not yet
executed, the intent row, and workers that run `ensureDedicatedKey` statement by
statement under the account lock. A worker dies at any step; a request is
executed, lost, or executed after its answer was given up. `assertLock` precedes
every upstream call, so `Owns` guards those. `LockLapses` is a live worker losing
the lock (a stall, a failover of Redis); it does not happen between sending a
create and saving its result, because the lock lasts 120 s, is renewed every
30 s, a failed renewal makes `assertLock` throw, and the client gives a create up
after 25 s.

### AccountSync

`row` is the account's row, with the columns its control is about. A run of
`syncAccount` is `Begin` (lock and SELECT), `Fetch` (the snapshot arrives), then
`Attach`, `Save`, `Complete` or `MarkFailure`, one SQL statement (or, for `Attach`,
one transaction) each. An `assertLock` is a step before the write it is meant to
protect: the lock may be lost in between (`LockExpires`). `Disable` and `Enable` are
the administrator's; `ImportKnown`, `AttachKnown`, `Replace` and `ImportFails` are
what `processImport` does to an account that exists, one entry at a time, for the
import queue has a concurrency of 1, and without the lock. `ImportCrash` is the death of the
worker before the entry's checkpoint is stored: the entry is run again from its
start, at any later time. `wanted` (the
administrator's last word), `doubts` (reasons a saved snapshot blocked for, not seen
well since), `judged` (the cookie the status was obtained with) and `strays` (the fingerprints
under which `attachIdentity` has stored the cookie of another credential, finding 3) are
history variables.

Abstracted: a snapshot is the reasons it blocks for, the reasons it says something
about and its number (the compare-and-set of the code compares the JSON, in which
the time of fetching differs). Which pairs of reasons can occur is `Quota`'s
`Coherent`, proved of every snapshot in `QuotaProofs`. Both failure statuses are `failed`. A row that
turns out to belong to another account's user is deleted and its sync goes on
elsewhere: the module follows the account that stays.

### Quota

A snapshot's windows, grant, balance, end of period and summary, each of which may
be missing (`{}`). `Windows`, `MonthlyRemaining`, `Reasons` and `ResumeAt` are
`getQuotaWindows`, `getMonthlyRemaining` and the two results of `getQuotaBlock` for a
fresh snapshot (`respectReset = false`), and `Confirmed` is `confirmedQuotaReasons`.
A monthly window is taken from the balance where there is none; a summary's window
that is not there has no reset time. Times are numbers of one unit: the guess
between seconds and milliseconds is left out.

### Scheduler

`scan[p]` is the tick of worker process `p`: `Begin` (SET NX of the lock), `ReadPage`
(cursor and SELECT, from which `due` follows at once, for `now` is read before it),
`Visit` (the backoff is looked up, the account enqueued), `Advance` (the cursor moves
behind a full page, and is deleted otherwise), `End` (the lock is deleted if it is
ours). `Fails` is any await that throws and `Crash` the death of the process;
`LockExpires` takes the lock from a dead process, or from one that is too slow.
Below it, `SyncDone`, `SyncIncomplete`, `SyncFails` and `SyncExpires` are what a sync
does to the row and to the backoff, with the reasons and the resume time of `Quota`
over every snapshot the upstream may truthfully give: `left` is when a quota is full
again, and `Reports` leaves out, or spoils, any part of it. `Pass` is time.

Abstracted: the queue is a set (`RefreshQueue` has its hazards), a sync is one step
(`AccountSync` has the overlaps), accounts are not disabled by hand, and one constant
stands for the interval with its spread, whether the account was used lately or not.
`quota_paused` rows are scanned like enabled ones, so every row is scanned that is not
`expired`.

### Translation, Inspection, Kernel

An upstream answer is a sequence of `Lines`, of the kinds the translators tell apart;
a translator is a function from its locals (`Fresh`) and a line to its locals and the
frames it emits: `ChatLine`, `MessagesLine`, `ResponsesLine`, and `...Collect` for
buffered answers. Frames keep their type, the index of their block, and whether the
gateway's inspection finds output in them (`full`). `Observe` and `Push` are
`ResponseInspection`, `Status` what `handleGateway` logs. `Follows` is the clients'
side: the order of begin, blocks and end that the protocols ask for.

`Kernel` has one process per connection of the gateway; `s[r]` is all there is to its
request. `pc` is `body`, `init` (`ensureInitialized`), `forward` (fetch), `read`, `drain`
(`waitDrain`), `done`. An action is the code between two awaits. `AtEnd` and `Throw` are
the six ways to finish and the six catches, each written as its code is: what it
writes, cancels, aborts and destroys in which case. `upstream` is the fetch (`asked`,
`open`, `over`, `stopped`), `conn` the response (`open`, `ended`, `flushed`, `closed`,
`destroyed`, and `cut` when it is ended after that), `slot` whether it counts in
`inflight`. `Close` may happen at any time and does what the listener does if there is
one by then and the response was not ended: chat and Messages register it only when the
upstream has answered. `Destroy` emits no 'close' by itself. Node does so on a later
tick, as `Close`, and the handler goes on meanwhile: `LeavesDestroyed` is a Responses
stream that finds `res.destroyed` after a chunk and leaves its loop. `tailError` records
an error in a last line without a line feed. `WatchdogFires` is the watchdog's timer running
out while the handler waits for the client, `StaleTimeout` what comes of it.

Abstracted: text is empty or not; a chunk is a line, for more lines of one chunk are
reads that do not wait; numbers of tokens are none, zero or some; statuses are `ok` or
`error`; heartbeats of Messages streams and the wording after several timeouts are
left out. The cap on requests in flight and the drain timeout are set in the
instance; the default deployment sets neither (then `Refuse` and `DrainTimeout` do not
occur, and a client that neither reads nor leaves is waited for).

## 3. Runs

| run | instance | checks | distinct states |
|---|---|---|---|
| `leases` | 3 tokens, 2 accounts with limits 1 and 2, global limits up to 2, leases of 2 ticks | `TypeOK`, `Capacity`, `Admission`, `CooldownHolds` | 6,318 |
| `gateway_leases` | 2 streaming requests for 1 account of limit 1, one fault each | `HeldLeaseIsLive`, `LeaseAge`, `UpstreamConcurrency`, `NoLeaseLeak` | 1.77 million |
| `gateway_failover` | 1 request, 2 accounts, a session, both streaming modes, two faults, fairness | `GatewayTypeOK`, `ResponseIntegrity`, `NoTruncatedEnd`, `ImplementsDispatch`, `RequestEnds`, `CapacityReturns` | 291,689 |
| `refresh` | 2 callers, 2 tries, 1 crash, fairness | `TypeOK`, `ClearsOnlySeen`, `PriorityNeverLowered`, `RequestServed` | 406,465 |
| `refresh_lost` | 2 callers, no crash | `ForcedHasJob` is **violated** | |
| `refresh_put_off` | 2 callers, no crash | `ForcedNotPutOff` is **violated** | |
| `keys` | 2 workers, 3 key identifiers, 3 faults, 1 lapse | `TypeOK`, `OneKey`, `SavedKeyLives`, `ForeignKeySafe` | 88,710 |
| `account_sync` | 2 workers, 2 credentials, reasons `weekly` and `unknown`, 2 snapshots, 1 lapse, starting new or paused | `TypeOK`, `LastWordStands`, `RecoveryConfirmed`, `StatusIsCurrent`, `SnapshotsAdvance` | 3.38 million |
| `account_cookie` | 2 workers, 2 credentials, 1 snapshot | `CookieIsCredential` is **violated** | |
| `worker` | 2 processes, 2 accounts, pages of 1, a monthly allowance, one fault, fairness | `TypeOK`, `ScanExclusive`, `DueIsServed`, `PauseEnds`, `RecoveryIsReal` | 88,407 |
| `kernel` | 2 connections for 1 place, all protocols and modes, answers of up to 2 lines and a tail, fairness | `TypeOK`, `OneReply`, `FailureShows`, `CompletionIsReal`, `WellFormed`, `UpstreamStopped`, `InflightExact`, `RequestEnds` | 89,908 |
| `kernel_stall` | as `kernel` | `TimeoutMeansIdle` is **violated** | |

Every property of a passing run has a mutant in `PROJECT.json`: a change of the
model that a slip in the code would amount to, on which TLC finds the property
violated. The mutated forms stand before the definitions they replace.

### What the passing runs show

* `Capacity`, `Admission`: no order of script calls, late or repeated, exceeds a
  limit or revives a dead lease.
* `HeldLeaseIsLive`, `LeaseAge`, `UpstreamConcurrency`: while a request may be
  running upstream both halves of its lease are live, and so the upstream never
  sees more requests than the limits allow. `LeaseAge` says how much of the lease
  is left at each point of the renewal interval; it is the part of the argument
  in which the constants matter.
* `ImplementsDispatch`: leases, renewals and aborts together implement a scheduler
  that has none of them. `running[r]` is the account of a request that forwards and
  is not aborted by the gateway (as in `UpstreamConcurrency`: the kernel's fetch may
  outlive the abort for a while), `used` the accounts tried, `answered` the requests some byte or
  end was sent for.
* `ResponseIntegrity`, `NoTruncatedEnd`: at most one answer's bytes reach the
  client, and a cut answer ends in a broken connection.
* `RequestServed`: lost wake-ups, failures and crashes delay a requested refresh but
  the periodic scheduler always catches it, unless the credential has expired.
* `OneKey`, `SavedKeyLives`, `ForeignKeySafe`: whatever creates and deletes are lost,
  late or repeated by another worker, there is one key upstream and it is the one saved.
* `LastWordStands`, `RecoveryConfirmed`, `SnapshotsAdvance`, `StatusIsCurrent`: the
  compare-and-set of account rows works even for two syncs that overlap after a lost
  lock, with an administrator and imports that change the row between any two of
  their statements. `StatusIsCurrent` compares the cookie a status was obtained with, and
  excepts the credentials of finding 3: a sync that answers late with an older cookie
  never sets the status, unless `attachIdentity` had put that cookie into the row.
  `TypeOK` also says that the four columns of a pause agree.
* `DueIsServed`, `ScanExclusive`: an account that is due is enqueued in the end although
  pages are as small as one account, the account before it fails for ever or its
  credential expires, a scan throws, dies or loses the lock; a scan that outlived its
  lock does not take away its successor's.
* `PauseEnds`, `RecoveryIsReal`: the two sides of the pause. No account stays paused once
  the upstream gives a full answer, even when resume time and reasons come from
  different snapshots; none comes back while a quota that paused it is used up.
* `OneReply`, `FailureShows`, `CompletionIsReal`: the kernel and the inspection of its
  answers together. A status line is sent once on each of the twelve paths; an answer
  that broke off, timed out or reported an error is never logged as a success, except for
  an error in a last line without a line feed, which Messages and buffered Chat drop (see
  section 5); for Responses, neither is one without the upstream's `finish`, which is what the patches
  in `build-core.mjs` are for.
* `WellFormed`: blocks and items are numbered from 0, one at a time, closed before the
  answer completes, and nothing follows the end.
* `UpstreamStopped`, `InflightExact`: every way out of a handler stops the upstream
  and gives its place back once. Two are excepted (`Abandons`, see section 5): a Responses
  answer that timed out, and one that was left because its client was dropped. For a client
  that leaves before its listener is registered, "stops" means that the whole answer is
  generated first.
* `RequestEnds` (`kernel`): a place is free in the end even if the client neither reads nor
  leaves. That depends on the drain timer, which the instance sets: the property fails
  without it (a mutant).
* `RequestEnds`, `CapacityReturns` (`gateway_failover`): every request whose answer ends,
  breaks off or falls silent is over in the end, and then a moment comes at which none of
  its leases is live, after failed releases, lost replies and crashes.

### Bounds

Two competitors for one place are the smallest number that can violate a limit or
a lock, and two attempts are all the code makes. A lease of four ticks against an
interval, a renewal timeout and a reply time of one tick each keeps the order of
60, 15, 5 and 10 seconds (`GatewayAssumption` states what is needed: reply time +
interval + renewal timeout < lease), the least lease that does. `gateway_leases`
has no failover and `gateway_failover` no competitor: the two together exceed
what TLC explores in minutes, and the leases' side of competition is covered for
any number of requests by the theorems. A third try of a job repeats the second.
Three key identifiers suffice for two creates and one too many. `MaxEvents = 1`
lets a handler overlap the next run of the job, and `Take` waits when it is full.
In `account_sync` the initial states include accounts paused for any reasons, so two
snapshots make histories of three; a lapse lets two syncs overlap, and one window
beside `unknown` gives all combinations of seen and exhausted.
In `worker` two accounts and pages of one make a full page, a last page and an empty
one. The first account has a monthly allowance; its weekly window is full, malformed
or absent. Not among the runs, for with liveness they exceed the time: an account that
uses up a weekly and a monthly quota, safety only (252,000 states), and a reset that
lasts longer than the interval, for two accounts safety only (147,299 states) and for
one with liveness (11,170). In `kernel` the connection `r1` brings all six kinds of
request and `r2` only competes for the place; two lines with a tail or an end give
every pair of a first and a second event, which is what the translators' locals
remember (`block`, `reason`, `usage`, `error`); answers of three lines were checked
for the safety properties, one protocol at a time (29,470, 52,103 and 35,053 states).
Faults are not bounded there: any await of the kernel may fail in any request.
The counters for faults, crashes and lapses occur in guards only and name the
bound in `CONSTANTS`.

### Fairness

`gateway_failover`: an await that Redis or PostgreSQL answers does return (`Handle`), timers
fire (`RenewalStep`, and `IdleTimeout` in `Handle`), a script sent is run, time passes (weak
fairness). `Tick` waits for timers that are due, that is, the event loop of a live process
runs them on time. Of clients and the upstream one thing is assumed (`AnswerEnds`): an
answer that goes on is finite, so that it ends, breaks off or stalls. A stalled answer gets
no help, and `RequestEnds` relies on the idle timeout there. The code has no other limit:
an answer that trickles for ever, a chunk at least every two minutes (`handler.ts:160-164`,
`187`), is never cut off, and keeps its lease.

`refresh`: workers and callers go on, delays and backoffs elapse (weak); the
periodic scheduler comes back every ten seconds and is not shut out for ever by
other callers, a waiting caller gets the lock in the end, as it polls every 20 ms,
and completed handlers run (strong: their conditions come and go).

`worker`: ticks come and go on, locks and backoffs run out, time passes (weak), and a
sync that is asked for again and again once gets a full answer (strong). That syncs
are asked for is not assumed.

`kernel`: a handler is not delayed for good (weak fairness of `Handle` or `Resume`): a
body arrives or breaks off, fetch answers or fails, a read returns or the watchdog
fires, and a wait for `drain` ends once the drain timer fires or the connection is gone; a
response that was ended or destroyed is flushed or closes. The gateway need neither read
nor leave. Answers are finite (`MaxLines`), as in the gateway.

The safety runs and the violated runs assume no fairness.

## 4. Proofs

Eight modules of proofs, each for all values of the constants that satisfy the named
assumption of its model: any number of requests, accounts, workers, callers, lines,
faults and lapses. An invariant `I` is proved from `Init => IInv`,
`IInv /\ [Next]_vars => IInv'` and `IInv => I`, where `IInv` is the conjunction given
below. What strengthens the properties is named for what it says.

| theorem | states |
|---|---|
| `LeasesProofs`: `TypeCorrect`, `CapacityHolds`, `AdmissionHolds`, `CooldownRuns` | `TypeOK`, `Capacity`, `Admission`, `CooldownHolds` |
| `GatewayProofs`: `GatewayTypeCorrect`, `LeaseKeepsAge`, `LeaseIsHeld`, `ConcurrencyLimited`, `NothingLeaks`, `OneAnswerOnly`, `EndsAreWhole` | `GatewayTypeOK`, `LeaseAge`, `HeldLeaseIsLive`, `UpstreamConcurrency`, `NoLeaseLeak`, `ResponseIntegrity`, `NoTruncatedEnd` |
| `GatewayProofs`: `DispatchImplemented`, `LeasesImplemented` | `ImplementsDispatch`; `GatewaySpec => Spec` of `Leases` |
| `RefreshQueueProofs`: `TypeCorrect`, `Clearing`, `Priorities` | `TypeOK`, `ClearsOnlySeen`, `PriorityNeverLowered` |
| `DedicatedKeyProofs`: `TypeCorrect`, `OneKeyOnly`, `SavedKey`, `ForeignKey` | `TypeOK`, `OneKey`, `SavedKeyLives`, `ForeignKeySafe` |
| `AccountSyncProofs`: `TypeCorrect`, `LastWord`, `Confirmation`, `Status`, `Advance` | `TypeOK`, `LastWordStands`, `RecoveryConfirmed`, `StatusIsCurrent`, `SnapshotsAdvance` |
| `QuotaProofs`: `SnapshotsCoherent` | `Coherent` of every snapshot |
| `SchedulerProofs`: `TypeCorrect`, `Exclusion`, `Recovery` | `TypeOK`, `ScanExclusive`, `RecoveryIsReal` |
| `KernelProofs`: `TypeCorrect`, `AnswersOnce`, `FailuresShow`, `CompletionsAreReal`, `StreamsFollow`, `NothingGoesOn`, `PlacesAreCounted` | `TypeOK`, `OneReply`, `FailureShows`, `CompletionIsReal`, `WellFormed`, `UpstreamStopped`, `InflightExact` |

**Leases.** `TypeOK /\ Capacity` is inductive: a grant prunes the set, finds fewer entries
than the limit and adds one (`AddAfterPrune`, `Fits`); every other action only removes
entries or changes the scores of entries that are there (`OperatorsShrink`,
`ShrinkFits`). A grant is the only step that makes a dead token live (`OthersQuiet`,
`ExtendKeeps`), and `Candidates` and `Eligible` give it room and an account that does
not cool down (`ChosenHasRoom`). `Spec` has the most general client, so the theorems
hold of any number of web processes.

**Gateway.** Every step of the handler is a step of the leases or leaves them alone
(`LeasesImplemented`), which brings the lease theorems over. The invariant adds where a
request stands: `Placed` (who has an account, a renewal, a second attempt); `Addressed`,
of the messages under way (a reply is of the current attempt and awaited; a RENEW is of a
lease that was granted, on its account; a stray ACQUIRE has no handler left); `Aged`,
which is `LeaseAge` for one request: the ticks that have passed since the last renewal
plus those a lease has left make at least `LEASE_MS`, and the assumption about reply
time, interval and renewal timeout then keeps the lease alive until the abort; `Even`,
that a grant writes both halves at once; `OwnEntries`, that the entries of a request without
faults are those of its current lease; `OneAnswer` and `Fresh`, that what was sent is of
the current attempt and that each attempt takes another account. For
`UpstreamConcurrency` the live leases of running requests inject into the stored entries,
which `Capacity` bounds. For the refinement each action is mapped to `Start`, `Skip`, `Answer`,
`Stop` or a stutter of `Dispatch`; the room that `Start` asks for comes from the same injection
and the entry that the grant added.

**RefreshQueue.** `Running` ties the job's state to the worker's place, `Exclusive` gives the
lock to every caller past its wait, and `Informed` says that what a caller read of the
job's priority is still so when it acts, or the job is gone: only the lock makes this
true, and `PriorityNeverLowered` is its consequence. `Seen` says that a dirty version which is
still current has no request after it.

**DedicatedKey.** `Lives` and `Unsaved` carry `SavedKeyLives`: nobody asks for the deletion of a
key that is awaited or saved, for whoever deletes has held the lock since it found none.
`Alone`, which holds while no lock has lapsed, says what the intent row tells of the keys
upstream at each of its states: that is the content of the durable intent. `Untouched` is
the same of a foreign key, without that condition. `Budget` bounds `replaced`: one
replacement, and one more for each lapse.

**AccountSync.** `Numbered` orders the snapshots in hand, in the row and fetched, so that the
compare-and-set of `saveAccountSnapshot` can only replace an older one; `Remembers` types what
a run knows; `Paired`, on which `StatusIsCurrent` rests, says that whoever still has the
row's fingerprint also has its cookie, or the fingerprint is one of `strays`; `Doubted` says that a reason without evidence since it blocked is still in the row,
and that a run whose snapshot is the row's has already cleared what it saw well.

**Quota, Scheduler.** Of every snapshot, with any numbers, the reasons that
`confirmedQuotaReasons` counts as observed and those that `getQuotaBlock` blocks for agree as
`Coherent` says: at most one blocking reason other than `monthly` is unobserved, the one
the summary names (`UnseenIsSummary`, `SummaryIsOne`), and an observed `unknown` excludes
it. `AccountSync` enumerates exactly the observations that are `Coherent`. `Recovery`
works on the same operators from the other side: whatever part of a truthful report is left
out or spoiled, a reason that is confirmed and does not block is one whose quota is not used up
(`ReportShape`, `ReportWindows`, `SeenIsFree`). `ScanExclusive` needs `Held`: a scan that has not
outlived its lock holds it.

**Kernel.** The invariant is of one request at a time, `Sound(s[r])`, with `InflightExact` over
all. While its handler is `Engaged`, what the gateway has seen is where the translator is
(`Tracks`: the same block open, the same next index, and a failure seen if Messages has
written one), the head was written exactly if the stream has started, and an aborted signal
left no upstream request; when it is done, it is `Finished`: the head is no `clash`, the upstream
was stopped unless it `Abandons` it, and what the gateway would log as a success was earned (`Honest`): in particular an error in
the last line was translated (`Counts`), or it was left where `DropsTail` allows it. Up to there
the proof follows the code: a frame is one step of the view (`GoBegin` to `GoEnd`), a line
is some frames (`ChatLineGoes`, `MessagesLineGoes`, `ResponsesLineGoes`), a statement
changes some fields (`WriteFacts` to `DestroyFacts`), and each way out is a
sequence of statements (`AtEndEnds` for the six ends, `ThrowEnds` for the six catches).
`Push` folds over frames of any number. The library's induction theorems cannot be used for it,
so the first section of `KernelProofs` shows that a fold has one value (`FoldExists`,
`PushIsAnyFold`) and that frames are pushed one after another (`PushMore`, `PushBoth`), by the
least number at which a set fails (`MaxIsMember`, `UpTo`).

### Only model-checked

* Liveness, under the fairness of section 3: `RequestEnds` (`Gateway` and `Kernel`),
  `CapacityReturns`, `RequestServed`, `DueIsServed`, `PauseEnds`. The provers have no rules
  for ENABLED.
* The four properties that are violated, which are refuted by a run each.

Every invariant and every action property that a passing run checks is stated by one of the
theorems.

## 5. Findings

1. **A forced refresh can be left without a job** (`refresh_lost`). The enqueue reads
   the job as active; the worker then compares the dirty key and completes, and the
   completed handler finds nothing; the enqueue increments the dirty counter and
   returns. The request waits for the next periodic scan that takes the account, up to a whole
   refresh interval later, while `docs/api-contract.md:76` promises an immediate refresh.
2. **A forced refresh of a retry is put off** (`refresh_put_off`). The promoted job
   has `attemptsMade > 0`, and `worker/tasks.ts:90` exempts a manual refresh from
   the backoff only on its first attempt; the test of the promotion
   (`tests/accounts-queues.test.ts:77`) never lets the worker take the job.
3. **A replaced credential can get its old cookie back** (`account_cookie`). A sync
   loads a row without identity; while it waits for the upstream, an import of the
   same credential identifies the row and an import of a newer session replaces
   fingerprint and cookie; `attachIdentity` of the sync (`worker/tasks.ts:40`) then
   writes the cookie it had loaded (`accounts.ts:74-75`) without looking at the
   fingerprint. `saveAccountSnapshot`, which does look, stops the sync one statement
   too late. Later syncs use the old cookie under the new fingerprint, and importing
   the new session again is skipped as a duplicate.
4. **A slow client is cut off as an upstream timeout** (`kernel_stall`). The watchdog is
   one timer, refreshed by `arm()` at each read; the comment at `proxy.mjs:914` says it
   counts only the wait for the upstream. It also runs while the handler waits for
   `drain`. When the client has taken longer than the timeout (30 s streaming), the
   promise is rejected already, and the first read that must wait loses the race: the
   answer ends as `STREAM_IDLE_TIMEOUT`, although the upstream was never idle.

Observations, for which no run stands. The first two contradict a line of the
repository; `UpstreamStopped` names them as its exceptions.

* A Responses answer that times out, streamed (`proxy.mjs:2702-2714`) or buffered
  (`2815-2824`), before its first event or after, is answered, but neither is its reader
  cancelled nor its signal aborted, so the upstream goes on generating. The proxy's
  `README.md:375` claims an abort on "all error paths".
* The drain timer destroys the response and resumes the handler at once
  (`proxy.mjs:905`); 'close' comes on a later tick. A Responses stream with a chunk waiting
  sees `res.destroyed` (2655), leaves its loop and ends the response (2730), and the
  listener then finds `writableEnded` (2609) and returns without an abort. The comment at
  `proxy.mjs:885-886` and the proxy's `README.md:472` say that the drop aborts the upstream.
* Chat and Messages take the end of the upstream's stream for the end of the answer: a
  stream cut without its `finish` is logged as a success. `docs/kernel-review.md` knows.
* Chat and Messages register their close listener when the upstream has answered, so a
  client that leaves before that leaves the fetch running until it answers.
* A streamed Messages answer is started by its own final `error` frame, so the JSON 429
  for an answer without output (`proxy.mjs:1936-1939`) is never sent; and the upstream's
  `tool-calls` reaches `mapAnthropicStopReason` unmapped there.
* Messages goes on emitting frames after an `error` frame if the upstream does.
* A last line without a line feed is dropped in Messages and in buffered chat
  (`proxy.mjs:1280`, `1638-1775`, `2065`; `build-core.mjs:73-74` patches buffered Responses
  only). If it reports an error, the answer is logged as a success.
* The gateway's idle timer is its only limit on time: an answer that trickles never ends.
* A window with a cap of zero counts as exhausted (`shared/quota.ts:66`).
* After confirming a revocation `ensureDedicatedKey` sets the intent to `prepared` without
  a condition (`worker/keys.ts:28`). A worker that had lost the lock between two
  statements by then would overwrite the `creating` of its successor.
* An import entry replayed after a crash (`worker/tasks.ts:81`) may put a credential back
  that a later import has replaced meanwhile.

## 6. Not modelled, and why

* Of the kernel: the conversion of requests into the upstream's form, images, the model
  list, fingerprints and sessions per key, heartbeats, a write that waits at the very
  end of a stream, and text of white space only (which the inspection does not count as
  output). They are data, or without effect on the control.
* Of the inspection: reassembly of frames from chunks, size limits, usage, and
  `ResponseCapture`. Byte-level parsing is better tested.
* Of the scheduler's tick: the catalogue refresh and the cleanup of logs, which follow
  the scan and share no state with it.
* Of imports: parsing, new accounts, counts, and rows merged into another account's.
* The rate limiter delays upstream calls, which every model lets be delayed anyway.
* The gateway's re-check of stored quotas (`gateway/quota.ts`) and the dashboard's sums
  are functions of one row.
* The upstream client's normalisation, sessions, keys, logs, events, dashboard and pages
  either have no state that others act on, or are better served by tests.
* Outside the models' assumptions: a web process that stalls for longer than a lease,
  loss of Redis data, an enqueue that outlives its lock of five seconds, two
  overlapping runs of one job after a BullMQ stall (the dirty counter restarts at 1 then).

## 7. Plan

The most important behaviour came first: the gateway's leases and its handler, then
the queue, the keys and the account's row; then the quotas and the scan that bring
accounts back, and the kernel behind the gateway; then their proofs. What is left:

1. `AccountSync` against an abstract account: the pause of an account as its administrator
   and the quotas see it, which the row and its compare-and-sets implement.
2. Safety halves of the liveness properties: that an owed refresh always has a job, a
   wake-up or a dirty counter (`RefreshQueue`), and that a place which is taken always has
   a handler or a response that gives it back (`Kernel`).
3. The guarantees of `Kernel` as assumptions of `Gateway` about its answers: a good answer of
   the one is a success of the other.
