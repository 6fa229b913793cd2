# Verification of StoryOS

TLA+ models of the parts of StoryOS where several processes share state, the TLC
runs that check them on small instances, and TLAPS proofs of what matters most
for every instance. `PROJECT.json` lists the components, runs, hazards and
theorems and maps every definition to the lines of code it stands for.

    tlc -workers 2 -config WakeLeases.cfg MCWakeLeases     # a run
    tlc -workers 2 -config ClaimLoop.cfg MCClaimLoop
    tlapm AgentWakesProofs.tla                             # proofs

## The system

StoryOS is a workspace application: a web client (`src/apps/web`), an API
(`src/apps/api`, NestJS over one Postgres database), and packages shared by
clients. People keep records in databases; automations and agents act on them. An
agent in mode *Your own AI* runs on its owner's computer, in the Runner program
(`src/packages/runner`). Postgres is the only shared state: API replicas,
background timers and Runners coordinate through rows, conditional updates and
leases. That is where the hard behaviour is.

| Component | State | Operations | What is hard | What makes it correct |
|---|---|---|---|---|
| Agent wake queue `runners/agent-wakes.service.ts` | rows of `agent_wakes` | enqueue/merge, claim, heartbeat, complete, reap, expire, cancel | every handler is several statements; claims, reports and timers overlap | one open wake per record; a lease per claim; nothing stranded, lost or run twice at once |
| Run credentials `tokens/run-credentials.service.ts` | `api_tokens` rows of a wake | mint, extend, revoke, live check | revocation by wake, not by claim | only the holder of the lease can act |
| Runs of agents `agents/agents.service.ts` | Run records | dispatchRun, wake hooks, cancel | Run and wake are written separately | one Run per wake; the Run ends with its wake |
| Runner registry `runners/runners.service.ts` | `runners`, `runner_agents`, pairing codes | pair, activate, assign, remove | check-then-write | a removed Runner gets nothing |
| Runner sweeper | - | every 30 s: pairings, departed owners, leases, expiry | runs against everything else | every wake ends |
| Runner program `packages/runner/src/claim-loop.ts` | claims on disk, active sessions | poll, run, heartbeat, report, recover | crashes, lost answers, its own clock | a claim is run once and its result reported or discarded |
| Agent budgets | notices, usage read from Runs | gate, notices | usage read before it is written | caps are kept; each notice sent once |
| Automation job queue `automations/job-runner.service.ts` | `automation_jobs`, breakers, failure streaks | enqueue, claim a batch, run, retry, reap | writes by id after the reaper; a serial batch under one time limit | an action is repeated only by a crash or a lost job; attempts and failures counted honestly |
| Approvals `automations/approvals.service.ts` | `approvals` | decide, expire, queue the action | two people and a sweep decide at once; decision and job are two steps | only what is approved runs, and it is queued |
| AI credits `billing/ai-credits.service.ts` | balances, ledger | top-up, debit, expiry, auto-reload | unlocked read-modify-write; ledger and balance in two statements; a claim around a charge | nothing credited twice, one charge in flight, balance and ledger agree when nothing overlapped |
| Bulk record jobs `records/bulk-record-jobs.service.ts` | `bulk_record_jobs` | enqueue, claim, one chunk, save | the saved row is computed from the row read at the claim | the row tells one walk over the list; nothing skipped |
| Webhook delivery `webhooks/webhooks.service.ts` | cursors, `webhook_deliveries`, advisory locks | scan, audit, flush, sendNow | events become visible late; stale reads under a lock of whichever connection | every event queued or reported; a delivery repeated or given up only as documented |
| Records, views, documents, imports, integrations, access, web | - | request/response | data, external services | outside this project, see `components` |

Interactions: a wake source (button, trigger, mention, approval, schedule)
calls `dispatchRun` or `enqueue`; both insert or merge a row of `agent_wakes`.
The Runner polls `claim`, which runs one claim statement, makes a Run if the row
has none, mints a credential and marks the Run Running. The session acts with the
credential, heartbeats (which slides lease and credential), and reports. The
sweeper returns lapsed leases and expires old rows. Owners remove Runners and
reassign agents; admins cancel Runs. Each of these commits one statement and then
does follow-ups (revoke, Run status, rewake) outside any transaction.

The hazards this exposes the code to, with lines and the properties that cover
them, are under `hazards` in `PROJECT.json`.

Automations and bulk operations share a pattern: rows with a status, workers on a
timer that claim a row, work without a transaction, and write by id, and a reaper
that returns rows whose worker seems dead. Webhooks have a scan that turns activity
events into deliveries and a flush that sends them; both run in every replica. A
run of managed AI debits the balance and may charge the card for a reload; Stripe's
events credit checkouts.

## Plan

Done: **AgentWakes** with **WakeLease**, its proofs and refinement; **ClaimLoop**
over `WakeLease`; **AutomationJobs** with its approvals, which implements
**HeldActions**; **AiCredits**; **BulkRecordJobs**; **WebhookScan** and **WebhookFlush**; each with
its proofs.

Next, in this order:

1. **RunnerPairing** (code, exchange, cancel, activation, expiry) and
   **AgentBudget** (run-cap gate, notices).
2. The retry loop of `enqueue` (three lost races, replays by `source_key`), as a
   refinement of the one-step `InsertOrMerge`.
3. The scheduler of automation rules; the write-back queue.
4. Pure algorithms (`holdFor`, `deriveRunState`, back-off tables) as operators
   against reference definitions.

Every invariant, safety property of the steps and refinement that a run checks is a
theorem now. An abstract account for the credits would say no more than
`NeverMoreThanPaid`: since debits write back a balance they read, a step may lower the
balance or raise it again, and only what was paid bounds it.

## The modules

| Module | What it is |
|---|---|
| `AgentWakes` | the wake queue, credentials, Run attachment, Runner removal and assignment, and the Runner's side of the protocol |
| `WakeLease` | what the queue promises: `Make`, `Grant`, `Report`, `Withdraw` |
| `MCAgentWakes`, `MCWakeLeases` | instances for TLC |
| `AgentWakesProofs` | type correctness, its strengthening, `AttemptsBound`, `HandedOverWithRun`, `DoneMeansCommented` |
| `ClaimLoop` | the Runner program: poll, jobs, saved claims, stop, crash, recovery, over `WakeLease` |
| `MCClaimLoop` | its instances for TLC |
| `ClaimLoopProofs` | type correctness of `ClaimLoop`, `NeverRunTwice`, and for a program in its usual regime `OneSessionPerWake`, `WithinConcurrency`, `DiskTellsJobs`, `SavedResultKept` |
| `BulkRecordJobs` | the durable bulk updates and deletes, chunk by chunk |
| `AutomationJobs` | the queue of rule actions, the runs of a rule that fill it, and the approvals that gate some of them |
| `HeldActions` | what approvals promise of a held action: `Decide`, `Queue`, `TakeEffect` |
| `AiCredits` | balance, ledger of top-ups, and automatic reload of one workspace |
| `WebhookScan` | activity events, the scan of one subscription, the loss audit |
| `WebhookFlush` | the deliveries of one subscription and of button presses, and their sending |
| `MCBulkRecordJobs`, `MCAutomationJobs`, `MCAiCredits`, `MCWebhookScan`, `MCWebhookFlush` | their instances for TLC |
| `WebhookScanProofs` | type correctness of the scan, `NothingFallsBehind` |
| `BulkRecordJobsProofs` | type correctness of the bulk jobs, `CountsAgree`, `AppliedUnlessFailed`, `WorkersBounded` |
| `AutomationJobsProofs` | type correctness of the job queue, that it implements `HeldActions`, `OnlyApprovedRuns`, `ApprovedIsQueued`, `StreakIsEarned`, `RepeatsBounded`, `AttemptsBounded` |
| `AiCreditsProofs` | `OneReload`; sums over the ledger; type correctness, `NeverMoreThanPaid`, `LedgerMatches` |
| `WebhookFlushProofs` | type correctness of the flush, `GivenUpAfterAll`, `SettledStays`, `RepeatsBounded` |
| `AgentWakesRefinement` | the lease invariant, `OneOpenWake`, `ClaimedIsReapable`, `RewokenOnce`, `FenceHolds`, `FinishedOwesRewake`, and that `AgentWakes` implements `WakeLease` |

### State

`wake` is the table, restricted to one agent (rows of different agents never meet
in a statement, apart from the `LIMIT` of a claim). A row keeps `status`,
`record`, `holder` (`runner_id`), `nonce`, `attempts`, `run`, `rewake`, and `must`
(a `must_comment` reason is present). Times are the one bit each comparison with
`now()` gives: `lease` (none, live, lapsed), `over` (past the 30-minute ceiling),
`held` (`not_before` in the future), `aged` (`expires_at` passed). `creds` are the
un-revoked credential rows, `runStatus` the Status of Run records. `paused` is
`holdFor` of a Runner; `assigned` the row of `runner_agents`; `eligible` merges
what enqueue, claim and mint ask about the agent and its owner.

Every action is one statement or transaction. Between the statements of a
handler, its local variables are state: `poll` (a claim request), `creator` (a
`dispatchRun` that makes a Run), `completing` (a completion that has read but not
written), `after` (follow-ups owed by a transition, done in the code's order),
`canceling`, `assigning`. `sessions` is what is running or reporting on Runners;
a session leaves at any time (`SessionGone`), so a Runner may crash, discard, or
send the same report many times. A dropped claim response is the second
alternative of `HandOver`.

### Actions and code

| Actions | Code |
|---|---|
| `Enqueue`, `InsertOrMerge`, `UndoEnqueue`, `AfterRewake` | `enqueue`, `mergeIntoOpen`, `afterTerminal` |
| `CreateRun`, `BlockedRun`, `AttachRun`, `DispatchDone`, `DispatchFails`, `ReattachRun`, `CreateRunFails` | the wake branches of `dispatchRun`, the `createRun` hook, `ensureRunForClaim` |
| `PollRound`, `PollEmpty`, `ClaimOnce`, `FailClaim`, `MintRefused`, `MintRevoke`, `MintInsert`, `HandOver` | `claim`, `claimOnce`, `failForMissingSkills`, `mint` |
| `Heartbeat`, `CompleteRead`, `CompleteFlip`, `CompleteLost`, `AfterRevoke`, `AfterStatus` | `heartbeat` with `extendForWake`, `complete`, `afterReturned` |
| `ReapExpiredLeases`, `ExpireQueued` | the sweeper |
| `AdminCancelRun`, `CancelForRun`, `RevokeRunner`, `AssignCheck`, `AssignUpsert`, `Unassign`, `ToggleEligible` | `adminCancelRun`, `cancelForRun`, `revoke`, `assign` |
| `Comment`, `SessionEnds`, `SessionGone` | the session in `ClaimLoop.handle`, its use of the credential (`assertRunCredentialLive`) |
| `LeaseLapses`, `CeilingPasses`, `HoldEnds`, `Ages`, `PauseEnds`; `PollDies`, `CreatorDies`, `FollowUpDies`, `CancelDies` | time; a handler that throws or a process that dies between two statements |

### The Runner program

`ClaimLoop` has `WakeLease` as its server (`Server == INSTANCE WakeLease`): a
granted claim is `Grant`, a report that is taken is `Report`, and `Make` and
`Withdraw` happen at any time. Since `AgentWakes` implements `WakeLease`, whatever
the queue does to the claims of one Runner is among these steps.

`disk` is `state.json`, `active` the Map of the class, `poll` the request in
flight, `jobs` the promises that run, each known by the nonce of its claim.
The program is one event loop, so an action is what runs between two awaits.

| Actions | Code |
|---|---|
| `Ask`, `ServerGrants`, `ClaimAnswered`, `ClaimFails` | the loop of `run` |
| `HandleStarts`, `SessionEnds`, `SessionDiscarded`, `Settle` | `start`, `handle` |
| `HeartbeatRefused`, `LeaseRunsOut`, `HeartbeatFatal` | the lease task of `handle` |
| `ReportReaches`, `ReportAnswered`, `AnswerLost`, `ReportRefused`, `ReportAborted` | `report` |
| `StopAsked`, `ProcessExits`, `Crash`, `Restart` | signals, the end of `run`, a kill, `recover` |

### The job queues, the credits and the webhooks

In each of these modules a table is a function from row ids to records, an action
is one statement (or transaction), and what a worker holds between statements is
the record of its tick, process or pass, as it was read: that is what is written
back later. Deaths of a worker drop that record and nothing else.

| Module | Actions | Code |
|---|---|---|
| `BulkRecordJobs` | `Enqueue`; `Reap`, `ClaimOne`, `ReadRow`; `UpdateRecord`, `UpdatesDone`; `FindLive`, `DeleteFound`, `ChunkFails`; `Save`; `Overdue`, `Crash` | `enqueue`; `tick`, `reap`, `claimOne`; `batchUpdate`; `batchDelete` and the `catch`; the last statement of `processOneChunk`; the clock, a death |
| `AutomationJobs` | `Ask`, `Decide`, `EnqueueApproved`, `Expire`; `EnqueueDirect`; `Reap`, `ClaimBatch`, `NothingDue`; `Release`, `GiveUp`, `Begin`; `Succeed`, `SaveSuccess`, `ResetConnection`; `Fail`, `FinalizeThrows`, `SaveRetry`, `SaveFailure`; `ReadStreak`, `WriteStreak`; `RunStarts`, `RunSucceeds`, `RunFails`, `HookFails`, `HookWrites`; `RuleRecovers`; `BreakerCloses`, `Overdue`, `RequestDies`, `Crash` | `decide`, `resolve`, `expireStale`; `enqueue`; `reap`, `claimBatch`; `processClaimedJob`, `releaseWithoutAttempt`, `finalizeNonRetryable`; `finalizeSuccess`; `handleFailure`; `onFinalFailure`; `runRule`, `runHookRule`; `update` of a rule; time, deaths |
| `AiCredits` | `Checkout`, `Deliver`, `Insert`, `Add`; `RecordUsage`, `GetBalance`, `ReadBalance`, `Commit`, `Lapse`; `Claim`, `ChargeCard`, `Declined`, `TopUpThrows`, `Release`, `Fail`, `Sweep`, `BackoffPasses`, `SetAutoReload`; `Crash` | `createTopUpSession`, `applyEvent`, `applyTopUp`; `recordUsage`, `getBalance`, `expireStaleCredits`, `consumeTopUpsFifo`; `tryAutoReload`, `chargeReload`, `onReloadSuccess`, `onReloadFailure`, the sweep, `setAutoReload` |
| `WebhookScan` | `Begin`, `CommitEvent`, `TimePasses`; `SetState`; `StartScan`, `ReadEvents`, `InsertDeliveries`, `MoveCursor`, `ScanDies`; `Audit` | a transaction that writes an event; `update` and the owner's role; `scan`; `auditBehindFloor`, `reportLost` |
| `WebhookFlush` | `Queue`, `ReadDue`, `TryLock`, `Send`, `Save`, `Unlock`, `TickEnds`, `TickDies`, `ConnectionCloses`, `FallsDue`, `SetActive`; `Press`, `PressSend`, `PressSave`, `PressDies` | `flush`, `settle`; `enqueueDirect`, `sendNow` |

Some variables count what happened and are read by properties only: `reaps`,
`late`, `overlaps` (a live worker lost its row to another), `crashes`, `faults`,
`effects`, `failures`, `sends`, `acks`, `mixed`.

### What is abstracted

- `BulkRecordJobs`: a record carries the change or not; versions for undo are
  left out. A delete chunk that a gate holds and one that throws have one outcome.
- `AutomationJobs`: `next_attempt_at` and the token bucket are choices (which of the
  queued jobs are claimed, which are released). All jobs share one connection and
  one rule. A live tick may lose a job to the reaper `MaxLate` times, 0 in the run:
  with 1 the state space is thirty times larger (the properties held there too).
  A run of the rule has one step from the read of the rule to its end, in which it
  queues jobs; a run that returns early, or whose process dies, takes no further step.
  `update` resets the streak (new actions, or enabled again); a person who disables a
  rule is left out, so that `StreakIsEarned` is about what disables it by itself.
  The breaker is read when the attempt is counted.
- `AiCredits`: every top-up is of one amount; the ledger is in the order of the
  payments; a transaction is its read and its commit, and two that forfeit the same
  top-up wait for each other, as their row locks make them. A process that dies or
  throws is one of `MaxFaults`.
- `WebhookScan`: one subscription, made at time 0, and the events it asks for.
  The audit looks at what lies between the floor and `AuditSpan` behind it; what a
  process has reported is kept in memory there and for ever here.
- `WebhookFlush`: the limit of 50 rows is left out; locks belong to connections of
  a pool, so an unlock may miss and a lock may be got twice. The signing secret is
  always there (a subscription is not removed).
- In `ClaimLoop`: what a result says, folders, the lengths of sleeps and
  back-offs, the presence heartbeat of `start.ts`, updates. The local lease
  deadline may pass at any time. A request grants its wakes one by one. A report
  and its answer are two steps, and a lost request is an answer that is lost.

- A claim request takes one wake; `max > 1` is several polls. The claim's
  `UPDATE` and the `SELECT` of the same rows are one step.
- The heartbeat's `UPDATE` and `extendForWake` are one step; so are
  `failUnstarted` and the Run update of a failed dispatch.
- The insert/merge retry is one step: an open row is merged into, else a row is
  inserted. Giving up after three lost races, and replays by `source_key`, are not
  modelled.
- `eligible` merges "agent enabled, in own-AI mode" with "owner an active
  non-guest". Where the code asks only half of it, the model allows both outcomes
  (`mint` may go on or refuse when it is false).
- The chosen-tool check, working hours, reserve and limit pause are one bit,
  `paused`.
- A claim request is answered within the 90 s its lease lasts, unless the
  instance has `stall`. The assumption matters: with `stall` added to the
  `wake_leases` instance and a second poll, `FenceHolds` fails, because the mint of the
  late request revokes and inserts by wake and leaves a second live credential.
  `CredentialIsTheFence` has it as its only hypothesis.
- History pruning, notices, budgets, presentation of the answer and the record
  data are left out.

## The runs

The runs of the queue use `MCAgentWakes` and `MCWakeLeases`, those of the Runner `MCClaimLoop`.
`Disruptions` selects the rare events of an instance,
so each question gets the events that bear on it at a size TLC finishes; every
action is reached by a passing run.

| Run | Instance | Shows |
|---|---|---|
| `wake_leases` | in one part 2 wakes, 2 claims on one Runner, `failed`, `ok`, `limit_reached`; in the other 1 wake, 2 claims, 2 Runners and reassignment; lapses in both; 0.7 M states | `OneOpenWake`, `ClaimedIsReapable`, `AttemptsBound`, `DoneMeansCommented`, `FenceHolds`, `ImplementsLease`, `RewokenOnce` |
| `disruptions` | 1 claim, all people, failures, late answers and times; 2.1 M states | `HandedOverWithRun`, `FinishedOwesRewake` |
| `liveness` | 1 wake, 1 claim, `FairSpec` | `EveryWakeEnds`, `EveryClaimEnds` |
| `claim_loop` | 2 wakes, 3 claims; concurrency 1 with a restart, concurrency 2 without | `OneSessionPerWake`, `WithinConcurrency`, `DiskTellsJobs`, `NeverRunTwice`, `SavedResultKept`, `LostSessionStops`, `SavedResultSettles` |
| `bulk_jobs` | 1 job of 3 records in chunks of 2, 2 ticks, 1 overtaking, 1 crash; 0.1 M states | `CountsAgree`, `AppliedUnlessFailed`, `WorkersBounded`, `EveryJobSettles` |
| `automation_jobs` | 1 approval with 2 requests, 1 run of a rule with 1 job, 2 ticks, 2 attempts, 1 crash; 0.4 M states | `HoldsActions`, `ApprovedIsQueued`, `RepeatsBounded`, `AttemptsBounded`, `StreakIsEarned`, `QueueDrains` |
| `ai_credits` | 2 processes, 2 payments, 1 run, 1 setting, 1 fault; 0.2 M states | `NeverMoreThanPaid`, `LedgerMatches`, `OneReload`, `PaidIsCredited`, `ReloadEnds` |
| `webhook_scan` | 2 events, 2 scans, batch of 1, window of 2 and an audit span of 1 in a time of 4; 87 k states | `NothingFallsBehind`, `TimelyIsQueued`, `QueuedOrReported` |
| `webhook_flush` | 1 delivery, 1 press, 2 ticks, 3 attempts, 2 overlaps, 1 crash; 0.25 M states | `RepeatsBounded`, `GivenUpAfterAll`, `SettledStays`, `EveryDeliverySettles` |

Bounds. A hazard here is a claim meeting the leftovers of the one before it, so
two claims are the least that shows it and a third adds none; two rows are a wake
and the one that follows it. `MaxAttempts` is 2 instead of 3, so the limit is reached within
the claims allowed. `MaxClaims`, `Wakes` and `Runs` bound counters; when they run
out, the actions that need them stop. The two parts of `wake_leases` are what its
properties need each: repeats and follow-ups want a second wake, and a fence wants a
second Runner and sessions that stay. A variable of the MC module, `part`, chooses one
at the start. `disruptions` has one claim and `MaxAttempts` 1, so that the lapse of that
claim ends its wake as `failed`; what later claims do is the theorems `NoWorkWithoutRun`
and `FinishedWakesOwe`. TLC checks `ClaimedIsReapable` as leases lapse, not under failing
claims and deaths, which the theorem covers, and one claim request at a time.
`automation_jobs` checks `PromptSpec`, which bounds the interleavings by one condition:
a request that lost the race for an approval has answered before a worker claims the
job of that approval (all it has left to do is to answer).
`CHECK_DEADLOCK FALSE` appears where every Runner may be removed, every row used
up, or the Runner program is down for good, after which nothing is left to do.

`claim_loop` checks `UsualSpec`, which leaves out one regime: concurrency above 1 and
a restart with a saved result, where `OneSessionPerWake`, and with it `DiskTellsJobs`, `SavedResultKept`
and (with a fourth claim) `WithinConcurrency`, can fail. Three claims of one wake
are a claim, the one that waits for it and the one that meets both; two wakes are
what two slots take.

Two workers are the one that is overtaken and the one that takes over. Two chunks,
the last one short, give a cursor that is behind, in the middle and past the end.
Two attempts are one that is retried and one that is the last; a third one lets a
webhook lose one of them to a stale write. Two payments are a checkout and a
reload, or a reload and its retry. Two events are a late one and the one that
overtakes it, or a tie that a batch of one cuts. Of two events one is lost at most
(the other is what moved the cursor over it), so the limit of the audit, which
`QueuedOrReported` allows for (`Hidden`), is never reached in the run; its span is
(`Overrun`).

Three runs find a statement of the code's comments violated (`findings` quotes the
lines):

| Run | What happens |
|---|---|
| `double_send` | two ticks read a pending delivery; the second takes its advisory lock after the first has sent it, settled it and let go of the lock, does not read the row again, and sends it again |
| `button_retry` | `flush` reads only deliveries whose subscription has an admin owner; a button's delivery has no subscription, so after a failed first send it stays pending for ever |
| `double_reload` | two runs leave the balance at the threshold; the second claims after the first reload released its claim, and charges again, because the claim does not look at the balance |

### Where the code is weaker than its comments

These disagreements were met while modelling (each was found by TLC as a
counterexample of an instance of these modules). The properties above are stated so
that they hold beside them, and no run of the suite repeats them.

- A claim between the insert of a wake and its `attachRun` makes a second Run for
  the wake, and the late attach overwrites it (`agent-wakes.service.ts:564`;
  `agents.service.ts:1293` says one Run).
- A cancel that ends a claimed wake with a repeat drops the repeat
  (`agent-wakes.service.ts:444`; line 409 says it is never lost). So does a wake that
  went back to the queue with its repeat and then ages out (line 984) or is undone by
  the dispatch that began it (line 432). `FinishedOwesRewake` is what holds beside all
  of these: a claim that ends its wake as done or failed owes the repeat.
- A Run canceled before its id is on the row leaves an open wake that is then
  claimed for it (`agent-wakes.service.ts:448`; line 443).
- The reaper revokes by wake id after its requeue is committed, and can take the
  credential of the next claim (`agent-wakes.service.ts:941`; line 143).
- A poll or an assignment that checked a Runner before its removal hands it a wake
  afterwards (`agent-wakes.service.ts:537`; line 173). The credential check refuses
  the session and the lease lapses.
- `recover` forgets a wake for which a new job is registered
  (`claim-loop.ts:212`): with two slots a second session of it can start.
- An automation job whose batch outlives its time limit is reaped and run again
  while the first worker is still at it (`job-runner.service.ts:209`); its action
  may be repeated without any crash (`late` in `RepeatsBounded`).
- A crash between the decision and the job leaves an approval approved and never
  executed; one between the two statements of `applyTopUp`, or between the claim of
  a webhook event and its top-up, loses a paid credit; one under the claim of a
  reload ends automatic reload (`auto_reload_claimed_at` is never cleared). The
  properties of those modules except `crashes` and `faults`.
- A debit that read the balance before a top-up was added writes it away
  (`ai-credits.service.ts:240`; `mixed` in `LedgerMatches`).
- An event that was lost is reported only while it is less than 24 hours behind the
  floor (`webhooks.service.ts:357`). When the webhook is disabled for longer than that
  right after the loss (a disabled one is not audited), or the transaction of the event
  was open for longer, the first scan afterwards moves the cursor past it, and it is
  neither queued nor reported.
- The audit takes the 50 oldest lost events and then leaves out those it reported,
  so that they hide what is lost after them (`webhooks.service.ts:374`;
  `QueuedOrReported` excuses this and the one before).

### Fairness

`FairSpec` assumes that time passes (the ceiling, the lease after the ceiling, the
seven days) and that the sweeper, a `setInterval` with every unit isolated by
`try`, keeps running: weak fairness for the reaper; strong fairness for the expiry,
because a queued row can be claimed and returned again and again. Nothing is
assumed of Runners, people, polls or half-finished handlers. A lease is assumed to
lapse only past the ceiling: before it, a Runner may heartbeat for as long as it
likes, and `EveryClaimEnds` is the statement that this does not matter.

In `ClaimLoop` the event loop turns (a job that can move does, an adapter told to
end ends, a heartbeat of a lost claim is refused or the local deadline passes) and
answers are not lost for ever (strong fairness of `ReportAnswered`). Nothing is
assumed of the server's choices, of how long sessions run, of stops and of
restarts; so `SavedResultSettles` ends with the program.

The timers of the workers, scans and flushes are `setInterval`s that nothing clears
while the process runs, in every replica: a tick goes on until it dies (weak
fairness of its steps), a row nobody works on passes its limit, back-offs and
breakers pass. Beyond that: `AutomationJobs` (in `PromptSpec` too) assumes that a job which is due again
and again is claimed (the claim is in the order of `next_attempt_at`) and is let
through in the end by a rate limit that refills (strong fairness of both);
`WebhookScan` that not every pass dies before its next statement (strong fairness
of the three); `WebhookFlush` that the pool closes connections that hold a lock for
nobody; `AiCredits` that Stripe delivers the event of a checkout. Nothing is
assumed of people, pauses, or how long a call takes.

## The proofs

For all sets of wakes, Runs, Runners, records and polls, all bounds and all
subsets of disruptions, under `ConstantsAssumption` only (the null values are
outside their sets, bounds are naturals).

- `TypeCorrect`, `AttemptsBounded` from the inductive `TypeInv`. `TypeOK` alone
  is not inductive: attempts must stay below the limit on open rows for the reaper
  to stay in `0..MaxAttempts` (`GoodRow`); a poll past its check must name a wake,
  a Runner and a drawn nonce (`PollsInFlight`); a creator at work must name a wake
  and, once created, a Run (`CreatorsInFlight`). There is one lemma per action.
- `ClaimsAreReapable`, `OneOpenWakePerRecord` from `LeaseInv`, which adds that
  rows that exist are about records and that no two claimed rows share a nonce and
  no claim already reported is still out (`ClaimsApart`).
- `QueueImplementsLease`. Every step of the queue has one of five shapes (quiet,
  a row made, a claim granted, a report taken, rows withdrawn; lemma `NextShape`).
  `LeaseInv` is preserved by each shape, and each maps to a step of `WakeLease` or
  a stutter under the refinement mapping (queued is open, claimed is held, ended
  is over; the claim is the nonce of a claimed row).
- `WokenAgainOnce` from `FreshReads`: what `complete()` read before its transaction is
  still right in it, because the transaction requires the nonce it read, a row gains
  `must` only by giving its claim up, and the next claim has a nonce of its own.
- `NoWorkWithoutRun`, `DoneIsCommented` from `RunsInv`, over the Runs that the rows, the
  dispatches, the claim requests, the sessions and the completions name: a Run is made
  for one wake and attached to that row only (`RowRuns`, `CreatorRuns`), a row that
  names a Run always will (`Named`), and no Run is made twice (`MadeRuns`). A completion
  decided as done found a Run of the row among the comments, so a Run made for the wake
  commented whatever Run the row names by the time it is done (`CompletingRuns`).
- `LoopTypeCorrect` and `OneSessionPerClaim`, for every number of wakes, claims,
  slots and restarts, from `ClaimsInv`: a claim is new until its session starts,
  and is until then in the answer of one poll or in one waiting job (never both),
  and a saved result belongs to a claim that ran. `recover` makes no waiting job,
  which is why no restart runs a claim again.

- `ScanTypeCorrect`, `NothingTimelyFallsBehind`, for every finite set of events,
  every window and limit, any number of passes. The invariant relates the cursor to
  the rows of the passes: whatever a pass is about to move the cursor to is at most
  a window ahead of any timely event it did not see, because an event that was
  invisible when the pass read commits later than that, with a start less than a
  window before; and the events a pass leaves out of its batch are not earlier than
  its last one.
- `FlushTypeCorrect`, `GivenUpOnlyAfterAll`, `SettledDeliveriesStay`,
  `AnsweredOncePerDisturbance`, for every number of deliveries, ticks and attempts.
  The attempts a tick has read are at most the sends of the delivery, which is why
  a stale write loses attempts and invents none. For the repeats, the inductive
  invariant counts debts: the 2xx answers of a delivery, and the ticks that may
  still send it, are at most one more than the overlaps and deaths so far.

- `AutomationJobsProofs`, for every number of jobs, requests, runs and ticks and every
  limit, provided the ticks and the runs of the rule are finitely many. `HeldActionsNeedApproval` and
  `ApprovedActionsAreQueued` follow from `ApprovalInv`: what a tick has in hand was
  queued, and a request past its decision is about to queue an approved action.
  With the same invariant `JobsHoldActions`, for `HoldsActions`: `AutomationJobs`
  implements `HeldActions` (an approved action is granted, a rejected or expired one
  refused; it is queued once its job has a row), so that no late request, expiry or
  worker changes a decision, queues an action twice or makes one take effect that
  was not queued. The check of `HoldsActions` replaces that of `OnlyApprovedRuns`, which
  it implies.
  `DisabledOnlyWhenEarned` counts the failures not yet written: a streak, in the rule
  or in the hand of a tick or of a run of the rule, plus the ticks and runs that still
  have to write theirs, is at most the failures so far, so an update that is lost, or
  late, can only lower it.
  `ActionsRepeatOnlyWhenDisturbed` counts debts (`OwedInv`): the effects of a job, the
  ticks that may still take effect, and one for a job that a tick may still claim, are
  at most one more than the disturbances. `AttemptsOnlyWhenDisturbed` does the same for
  the attempts, which a tick writes from what it read: `TriesInv` bounds the stale
  counts in the ticks' batches along with the one in the row.
- `BulkRecordJobsProofs`, for every list, chunk size, number of jobs and of ticks. One
  predicate, `Account`, says that a walk which has reached a position names and counts
  only records behind it, and that those it does not name carry the change. `BulkInv`
  states it of each row at its cursor and of each tick at its place in the chunk.
  Records are only ever changed for the better, so an account survives the work of
  other ticks, and a save of any tick, however late, writes a true account
  (`OneWalkIsCounted`, `NoRecordIsSkipped`). `OneWorkerMoreThanWasTaken` counts the
  ticks on a job and its place in the queue, where a job that is overdue has a place.
- `OneChargeInFlight`, for every number of processes and payments: only a process in a
  reload is at its charge, its success or its failure (`Placed`), so only the holder of
  the claim gives it up. It needs nothing of the sums.
- Sums. What `Left` adds up is a fold over a set of payments. Its definition chooses a
  table of the sums of all parts of the set; `TableExists` and `TablesAgree` say there is
  such a table and that it does not matter in which order it adds, and from them follow
  what the proofs use: taking out any element, two parts, sums that agree, and
  `FifoTakes`, that a debit which takes from the oldest top-up on takes what it says.
  Where one would use induction over the set, these argue from a smallest set for which
  the fact fails (`SmallestSet`), because the induction theorems of the library take an
  operator that the provers cannot supply.
- `CreditsTypes`, `NoCreditUnpaid` from `PaidInv`. The payments that count are those in
  the ledger less those a process still has to add (`Credited`); the balance, and every
  balance that a transaction has read and may write back, is at most what those are
  worth, so that a late write of an old balance cannot exceed it either. An insert moves
  a payment into the ledger and into one process's hands at once, the addition out of
  them, and a death between the two only lets go of it.
- `LedgerIsBalance` from `LedgerInv`: as long as nothing overlapped and nothing failed,
  one process changes balance and ledger, and at each of its places they differ by what
  that place has left to do (`Agrees`): nothing, the top-up, or the forfeit.
- `CredentialIsTheFence`, unless a claim is answered later than its lease, from
  `FenceInv`. A claim that is being answered still holds its row under a live lease, or
  its wake ended or its Runner was removed (`RequestsStand`); so mint's revocation, which
  goes by wake, meets only credentials of earlier claims, and from then on the
  credentials of the wake are this claim's (`OwnCreds`). Credentials expire with the
  lease of their wake (`LapsedCreds`), which is why the next claim, and with it the end
  of the session's hold, comes after them (`SessionsFenced`).
- `RewakeIsOwed`, as long as no Run is canceled, no queued wake ages out and no dispatch
  fails: a dispatch that is under way then never undoes a row (`Undisturbed`), and each
  step that is left and ends an open wake owes its repeat (`EveryEndOwes`).
  `FinishedWakesOwe`, for `FinishedOwesRewake`, holds under every disruption.
- `SessionsInOrder`, `ResultsAreKept`, for a program in its usual regime (`UsualSpec`:
  one slot, or not started again), for every number of wakes and claims. In `UsualInv`
  the jobs of a wake are in the order of their claims (`JobsQueue`): `active` names the
  last (`ActiveIsLast`), what is saved is of the oldest or of one before it
  (`DiskIsOldest`), the server's claim is the newest (`ClaimIsNewest`), and one that is
  being polled is newer than all (`PollIsNew`). With one slot there is one job at most,
  also while a result is recovered (`OneAtATime`); with more, none is recovered
  (`Unrecovered`).

Only model-checked: liveness, which is out of reach of the prover (`EveryWakeEnds`,
`EveryClaimEnds`, `LostSessionStops`, `SavedResultSettles`, `EveryJobSettles`,
`QueueDrains`, `PaidIsCredited`, `ReloadEnds`, `TimelyIsQueued`, `QueuedOrReported`,
`EveryDeliverySettles`). The theorems that have a hypothesis have it because TLC finds
the property violated without it: `FenceHolds` with `stall`, `EveryEndOwes` with any
one of `cancel`, `age` and `fail`, the four of `ClaimLoop` with two slots and a restart
(`recover` forgets a wake for which a new job is registered; for `WithinConcurrency` it
takes a fourth claim).

## Not modelled

`components` in `PROJECT.json` gives the reason for each part. In short: what the plan
lists as next is still to come; records, views, documents, imports and
integrations are data transformation or adapters whose concurrency is left to
database transactions or external services; the web client and the SDK hold no
shared state.
