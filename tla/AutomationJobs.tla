---------------------------- MODULE AutomationJobs ----------------------------
(***************************************************************************)
(* The durable action jobs of automation rules                             *)
(* (src/apps/api/src/automations/job-runner.service.ts) and the approvals  *)
(* that gate some of them (approvals.service.ts).                          *)
(*                                                                         *)
(* A job is queued by a rule run, or by the request that approves a held   *)
(* action.  A tick of the worker returns the jobs that have been running   *)
(* too long to the queue, claims a BATCH of due jobs in one statement, and *)
(* works on them one after another: it passes the connection's breaker and *)
(* rate limit, counts the attempt, calls the executor and writes the       *)
(* outcome, by id, from the row it read when it claimed the batch.  The    *)
(* timer starts a tick whether or not the last one has ended, and every    *)
(* replica has its own.                                                    *)
(*                                                                         *)
(* Time is left out: a job that waits for its next attempt may be due at   *)
(* once, a breaker closes at any moment, and a running job passes its time *)
(* limit at any moment when no tick works on it.                           *)
(***************************************************************************)
EXTENDS Naturals, FiniteSets

CONSTANTS
  Approvals,         \* held actions: the job of an approval has its id
  Direct,            \* jobs that a rule run queues by itself
  Requests,          \* requests that decide an approval, at once
  Runs,              \* runs of the rule, each once
  Ticks,             \* worker passes in flight at once
  BatchSize,         \* limit of claimBatch
  MaxAttempts,       \* MAX_ATTEMPTS
  MaxFailures,       \* MAX_FAILURES of a rule
  BreakerThreshold,  \* BREAKER_FAILURE_THRESHOLD of a connection
  MaxLate,           \* bound on how often a job outlasts its limit in a live tick
  MaxCrashes         \* bound on how many ticks and requests die or have a statement throw

Jobs == Approvals \cup Direct

ASSUME JobsAssumption == Approvals \cap Direct = {} /\ Jobs # {}
ASSUME TicksAssumption == IsFiniteSet(Ticks)
ASSUME RunsAssumption == IsFiniteSet(Runs)
ASSUME LimitsAssumption ==
  /\ {BatchSize, MaxAttempts, MaxFailures, BreakerThreshold} \subseteq Nat \ {0}
  /\ {MaxLate, MaxCrashes} \subseteq Nat

VARIABLES
  approval,  \* status of each approval
  request,   \* what each deciding request has in hand
  job,       \* row of each job
  tick,      \* what each worker pass has in hand
  conn,      \* the connection of the jobs: error streak, breaker
  rule,      \* the rule of the jobs: enabled, failure streak
  run,       \* what each run of the rule has in hand
  effects,   \* how often the executor of each job has succeeded
  failures,  \* how many jobs have failed for good, and runs of the rule have failed
  late,      \* how often a live tick lost a job to the reaper
  crashes    \* how many ticks and requests died, or had a statement throw

vars == <<approval, request, job, tick, conn, rule, run, effects, failures, late, crashes>>

Settled == {"succeeded", "failed"}
Verdicts == {"approved", "rejected"}

(***************************************************************************)
(* Approvals.                                                              *)
(***************************************************************************)
NoRequest == [pc |-> "idle", id |-> CHOOSE j \in Jobs : TRUE, verdict |-> "approved"]

\* Seven days have passed: the sweep of the rules' timer (expireStale), or a request
\* that comes too late, marks the approval expired, if it is pending still.
Expire(a) ==
  /\ approval[a] = "pending"
  /\ approval' = [approval EXCEPT ![a] = "expired"]
  /\ UNCHANGED <<request, job, tick, conn, rule, run, effects, failures, late, crashes>>

\* resolve() and decide() up to their read of the row: the request goes on when it
\* reads the approval pending, and answers it as it stands otherwise.
Ask(r, a, verdict) ==
  /\ request[r].pc = "idle"
  /\ approval[a] = "pending"
  /\ request' = [request EXCEPT ![r] = [pc |-> "decide", id |-> a, verdict |-> verdict]]
  /\ UNCHANGED <<approval, job, tick, conn, rule, run, effects, failures, late, crashes>>

\* Mutant: the update relies on the status that was read.
WinsAsRead(q) == q.pc = "decide"

\* UPDATE ... WHERE status = 'pending' RETURNING finds the row.
Wins(q) == approval[q.id] = "pending"

\* decide(), its update: the request that flips the row goes on, one that lost the
\* race answers with the other's decision.
Decide(r) ==
  LET q == request[r]
  IN /\ q.pc = "decide"
     /\ approval' = IF Wins(q) THEN [approval EXCEPT ![q.id] = q.verdict] ELSE approval
     /\ request' = [request EXCEPT ![r] =
                      IF Wins(q) /\ q.verdict = "approved" THEN [q EXCEPT !.pc = "enqueue"]
                                                            ELSE NoRequest]
     /\ UNCHANGED <<job, tick, conn, rule, run, effects, failures, late, crashes>>

\* Mutant: the key is that of the rule.
InsertedPerRule(j) ==
  IF \A k \in Jobs : job[k].status = "none" THEN [job EXCEPT ![j].status = "queued"] ELSE job

\* enqueue(): INSERT ... ON CONFLICT DO NOTHING on the idempotency key.
Inserted(j) == IF job[j].status = "none" THEN [job EXCEPT ![j].status = "queued"] ELSE job

\* The job of an approved action, with the key "approval:<id>".
EnqueueApproved(r) ==
  /\ request[r].pc = "enqueue"
  /\ job' = Inserted(request[r].id)
  /\ request' = [request EXCEPT ![r] = NoRequest]
  /\ UNCHANGED <<approval, tick, conn, rule, run, effects, failures, late, crashes>>

\* The process dies between the decision and the job (before the decision, it is as
\* if the request had not come).
RequestDies(r) ==
  /\ request[r].pc = "enqueue"
  /\ crashes < MaxCrashes
  /\ request' = [request EXCEPT ![r] = NoRequest]
  /\ crashes' = crashes + 1
  /\ UNCHANGED <<approval, job, tick, conn, rule, run, effects, failures, late>>

(***************************************************************************)
(* The queue.                                                              *)
(***************************************************************************)

\* A run of the rule queues its action.
EnqueueDirect(x, j) ==
  /\ run[x].at = "acting"
  /\ job[j].status = "none"
  /\ job' = Inserted(j)
  /\ UNCHANGED <<approval, request, tick, conn, rule, run, effects, failures, late, crashes>>

\* The jobs a tick has in hand: the one it works on and the rest of its batch.
InHand(t) == {row.id : row \in tick[t].rest}
             \cup (IF tick[t].at \in {"idle", "claim"} THEN {} ELSE {tick[t].row.id})

Held(j) == \E t \in Ticks : j \in InHand(t)

\* A running job passes the limit of its timeout class, counted from the claim of
\* the batch: in a live tick too, when the jobs before it took that long.
Overdue(j) ==
  /\ job[j].status = "running" /\ ~job[j].overdue
  /\ Held(j) => late < MaxLate
  /\ job' = [job EXCEPT ![j].overdue = TRUE]
  /\ late' = IF Held(j) THEN late + 1 ELSE late
  /\ UNCHANGED <<approval, request, tick, conn, rule, run, effects, failures, crashes>>

\* Mutant: whatever runs is returned to the queue.
ReapedRowAny(row) ==
  IF row.status = "running" THEN [row EXCEPT !.status = "queued", !.overdue = FALSE] ELSE row

\* Mutant: a job on its last attempt is left alone.
ReapedRowUntried(row) ==
  IF row.status = "running" /\ row.overdue /\ row.attempts < MaxAttempts
    THEN [row EXCEPT !.status = "queued", !.overdue = FALSE]
    ELSE row

\* reap(): back in the queue, with its attempts as they are.
ReapedRow(row) ==
  IF row.status = "running" /\ row.overdue
    THEN [row EXCEPT !.status = "queued", !.overdue = FALSE]
    ELSE row

NoRow == [id |-> CHOOSE j \in Jobs : TRUE, attempts |-> 0]
NoTick == [at |-> "idle", row |-> NoRow, rest |-> {}, streak |-> 0]

Reap(t) ==
  /\ tick[t].at = "idle"
  /\ \E j \in Jobs : job[j].status \in {"queued", "running"}
  /\ job' = [j \in Jobs |-> ReapedRow(job[j])]
  /\ tick' = [tick EXCEPT ![t].at = "claim"]
  /\ UNCHANGED <<approval, request, conn, rule, run, effects, failures, late, crashes>>

\* claimBatch(): some of the queued jobs are due, and at most BatchSize are taken;
\* the rows are read after the claim, which changes nothing of what is kept of them.
ClaimBatch(t, batch) ==
  /\ tick[t].at = "claim"
  /\ Cardinality(batch) <= BatchSize
  /\ job' = [j \in Jobs |-> IF j \in batch THEN [job[j] EXCEPT !.status = "running"] ELSE job[j]]
  /\ \E first \in batch :
       tick' = [tick EXCEPT ![t] =
         [NoTick EXCEPT !.at = "gate", !.row = [id |-> first, attempts |-> job[first].attempts],
            !.rest = {[id |-> j, attempts |-> job[j].attempts] : j \in batch \ {first}}]]
  /\ UNCHANGED <<approval, request, conn, rule, run, effects, failures, late, crashes>>

Queued == {j \in Jobs : job[j].status = "queued"}

\* Nothing is due: the tick ends.
NothingDue(t) ==
  /\ tick[t].at = "claim"
  /\ Queued = {}
  /\ tick' = [tick EXCEPT ![t] = NoTick]
  /\ UNCHANGED <<approval, request, job, conn, rule, run, effects, failures, late, crashes>>

(***************************************************************************)
(* One job of the batch.                                                   *)
(***************************************************************************)

\* The tick turns to another job of its batch, or ends.
NextInBatch(t) ==
  IF tick[t].rest = {}
    THEN tick' = [tick EXCEPT ![t] = NoTick]
    ELSE \E next \in tick[t].rest :
           tick' = [tick EXCEPT ![t] =
                      [tick[t] EXCEPT !.at = "gate", !.row = next, !.rest = @ \ {next}]]

\* releaseWithoutAttempt(): the breaker is open, or the rate limit has no token.
Release(t) ==
  /\ tick[t].at = "gate"
  /\ job' = [job EXCEPT ![tick[t].row.id].status = "queued", ![tick[t].row.id].overdue = FALSE]
  /\ NextInBatch(t)
  /\ UNCHANGED <<approval, request, conn, rule, run, effects, failures, late, crashes>>

\* finalizeNonRetryable(): its connection is gone, or nothing executes its kind.
GiveUp(t) ==
  /\ tick[t].at = "gate"
  /\ job' = [job EXCEPT ![tick[t].row.id].status = "failed"]
  /\ tick' = [tick EXCEPT ![t].at = "readStreak"]
  /\ failures' = failures + 1
  /\ UNCHANGED <<approval, request, conn, rule, run, effects, late, crashes>>

\* The attempt is counted, from the row as read, and the executor is called.
Begin(t) ==
  LET row == tick[t].row
  IN /\ tick[t].at = "gate" /\ ~conn.open
     /\ job' = [job EXCEPT ![row.id].attempts = row.attempts + 1]
     /\ tick' = [tick EXCEPT ![t].at = "call", ![t].row.attempts = row.attempts + 1]
     /\ UNCHANGED <<approval, request, conn, rule, run, effects, failures, late, crashes>>

\* The executor has done its work.
Succeed(t) ==
  /\ tick[t].at = "call"
  /\ effects' = [effects EXCEPT ![tick[t].row.id] = @ + 1]
  /\ tick' = [tick EXCEPT ![t].at = "succeeded"]
  /\ UNCHANGED <<approval, request, job, conn, rule, run, failures, late, crashes>>

\* finalizeSuccess(), the job.
SaveSuccess(t) ==
  /\ tick[t].at = "succeeded"
  /\ job' = [job EXCEPT ![tick[t].row.id].status = "succeeded"]
  /\ tick' = [tick EXCEPT ![t].at = "connOk"]
  /\ UNCHANGED <<approval, request, conn, rule, run, effects, failures, late, crashes>>

\* finalizeSuccess(), the connection.
ResetConnection(t) ==
  /\ tick[t].at = "connOk"
  /\ conn' = [conn EXCEPT !.streak = 0]
  /\ NextInBatch(t)
  /\ UNCHANGED <<approval, request, job, rule, run, effects, failures, late, crashes>>

\* handleFailure() counts the failure on the connection, and at the threshold opens
\* its breaker.
ConnectionFailed ==
  LET streak == IF conn.streak < BreakerThreshold THEN conn.streak + 1 ELSE conn.streak
  IN conn' = [streak |-> streak, open |-> conn.open \/ streak = BreakerThreshold]

\* The executor fails.
Fail(t, retryable) ==
  /\ tick[t].at = "call"
  /\ ConnectionFailed
  /\ tick' = [tick EXCEPT ![t].at = IF retryable THEN "retry" ELSE "fail"]
  /\ UNCHANGED <<approval, request, job, rule, run, effects, failures, late, crashes>>

\* A statement of finalizeSuccess() throws, inside the try that guards the executor:
\* the job is handled as one that failed, to be retried if its time ran out meanwhile.
FinalizeThrows(t, timedOut) ==
  /\ tick[t].at \in {"succeeded", "connOk"}
  /\ crashes < MaxCrashes
  /\ ConnectionFailed
  /\ tick' = [tick EXCEPT ![t].at = IF timedOut THEN "retry" ELSE "fail"]
  /\ crashes' = crashes + 1
  /\ UNCHANGED <<approval, request, job, rule, run, effects, failures, late>>

\* Mutant: one attempt too many is scheduled.
RetryLeftOneMore(attempts) == attempts <= MaxAttempts

\* nextAttemptDelayMs(attempts) is not null.
RetryLeft(attempts) == attempts < MaxAttempts

\* handleFailure(), the job queued again for another attempt.
SaveRetry(t) ==
  LET row == tick[t].row
  IN /\ tick[t].at = "retry" /\ RetryLeft(row.attempts)
     /\ job' = [job EXCEPT ![row.id].status = "queued", ![row.id].overdue = FALSE]
     /\ NextInBatch(t)
     /\ UNCHANGED <<approval, request, conn, rule, run, effects, failures, late, crashes>>

\* handleFailure(), the job failed for good.
SaveFailure(t) ==
  LET row == tick[t].row
  IN /\ tick[t].at = "fail" \/ (tick[t].at = "retry" /\ ~RetryLeft(row.attempts))
     /\ job' = [job EXCEPT ![row.id].status = "failed"]
     /\ tick' = [tick EXCEPT ![t].at = "readStreak"]
     /\ failures' = failures + 1
     /\ UNCHANGED <<approval, request, conn, rule, run, effects, late, crashes>>

\* onFinalFailure() reads the rule ...
ReadStreak(t) ==
  /\ tick[t].at = "readStreak"
  /\ tick' = [tick EXCEPT ![t].at = "writeStreak", ![t].streak = rule.streak]
  /\ UNCHANGED <<approval, request, job, conn, rule, run, effects, failures, late, crashes>>

\* Mutant: the read streak is doubled by a second addition.
RuleAfterTwice(streak) ==
  [enabled |-> rule.enabled /\ streak + 2 < MaxFailures, streak |-> streak + 2]

\* ... and writes the streak it read plus one; at the limit it disables the rule.
RuleAfter(streak) ==
  [enabled |-> rule.enabled /\ streak + 1 < MaxFailures, streak |-> streak + 1]

WriteStreak(t) ==
  /\ tick[t].at = "writeStreak"
  /\ rule' = RuleAfter(tick[t].streak)
  /\ NextInBatch(t)
  /\ UNCHANGED <<approval, request, job, conn, run, effects, failures, late, crashes>>

(***************************************************************************)
(* The runs of the rule, which perform or queue its actions.               *)
(***************************************************************************)
NoRun == [at |-> "none", streak |-> 0]
RunOver == [at |-> "over", streak |-> 0]

\* runRule(), or the receiver of a webhook, reads the rule, and the run goes on if it
\* is enabled.  A run that returns early, or whose process dies, takes no further step.
RunStarts(x) ==
  /\ run[x].at = "none"
  /\ rule.enabled
  /\ run' = [run EXCEPT ![x] = [at |-> "acting", streak |-> rule.streak]]
  /\ UNCHANGED <<approval, request, job, tick, conn, rule, effects, failures, late, crashes>>

RunSucceeds(x) ==
  /\ run[x].at = "acting"
  /\ rule' = [rule EXCEPT !.streak = 0]
  /\ run' = [run EXCEPT ![x] = RunOver]
  /\ UNCHANGED <<approval, request, job, tick, conn, effects, failures, late, crashes>>

\* The catch of runRule(): from the streak it read when it started.
RunFails(x) ==
  /\ run[x].at = "acting"
  /\ rule' = RuleAfter(run[x].streak)
  /\ run' = [run EXCEPT ![x] = RunOver]
  /\ failures' = failures + 1
  /\ UNCHANGED <<approval, request, job, tick, conn, effects, late, crashes>>

\* The catch of runHookRule() reads the rule again ...
HookFails(x) ==
  /\ run[x].at = "acting"
  /\ run' = [run EXCEPT ![x] = [at |-> "failed", streak |-> rule.streak]]
  /\ failures' = failures + 1
  /\ UNCHANGED <<approval, request, job, tick, conn, rule, effects, late, crashes>>

\* ... and writes it.
HookWrites(x) ==
  /\ run[x].at = "failed"
  /\ rule' = RuleAfter(run[x].streak)
  /\ run' = [run EXCEPT ![x] = RunOver]
  /\ UNCHANGED <<approval, request, job, tick, conn, effects, failures, late, crashes>>

(***************************************************************************)
(* Around the worker.                                                      *)
(***************************************************************************)

\* breaker_open_until passes.
BreakerCloses ==
  /\ conn.open
  /\ conn' = [conn EXCEPT !.open = FALSE]
  /\ UNCHANGED <<approval, request, job, tick, rule, run, effects, failures, late, crashes>>

\* update(): a person edits the actions of the rule, or enables it again.
RuleRecovers ==
  /\ rule # [enabled |-> TRUE, streak |-> 0]
  /\ rule' \in {[rule EXCEPT !.streak = 0], [enabled |-> TRUE, streak |-> 0]}
  /\ UNCHANGED <<approval, request, job, tick, conn, run, effects, failures, late, crashes>>

\* The process dies in the middle of a batch.
Crash(t) ==
  /\ tick[t].at # "idle"
  /\ crashes < MaxCrashes
  /\ tick' = [tick EXCEPT ![t] = NoTick]
  /\ crashes' = crashes + 1
  /\ UNCHANGED <<approval, request, job, conn, rule, run, effects, failures, late>>

(***************************************************************************)
(* The specification.                                                      *)
(***************************************************************************)
Init ==
  /\ approval = [a \in Approvals |-> "pending"]
  /\ request = [r \in Requests |-> NoRequest]
  /\ job = [j \in Jobs |-> [status |-> "none", attempts |-> 0, overdue |-> FALSE]]
  /\ tick = [t \in Ticks |-> NoTick]
  /\ conn = [streak |-> 0, open |-> FALSE]
  /\ rule = [enabled |-> TRUE, streak |-> 0]
  /\ run = [x \in Runs |-> NoRun]
  /\ effects = [j \in Jobs |-> 0]
  /\ failures = 0 /\ late = 0 /\ crashes = 0

Acts(x) ==
  \/ RunStarts(x) \/ RunSucceeds(x)
  \/ RunFails(x) \/ HookFails(x) \/ HookWrites(x)

Resolve(r) == Decide(r) \/ EnqueueApproved(r)

Claim(t) == \E batch \in SUBSET Queued : ClaimBatch(t, batch)

Process(t) ==
  \/ Release(t) \/ GiveUp(t) \/ Begin(t)
  \/ Succeed(t) \/ SaveSuccess(t) \/ ResetConnection(t)
  \/ \E retryable \in BOOLEAN : Fail(t, retryable)
  \/ SaveRetry(t) \/ SaveFailure(t) \/ ReadStreak(t) \/ WriteStreak(t)

Step(t) == Reap(t) \/ Claim(t) \/ NothingDue(t) \/ Process(t)

Next ==
  \/ \E a \in Approvals : Expire(a)
  \/ \E r \in Requests, a \in Approvals, verdict \in Verdicts : Ask(r, a, verdict)
  \/ \E r \in Requests : Resolve(r) \/ RequestDies(r)
  \/ \E x \in Runs : Acts(x) \/ \E j \in Direct : EnqueueDirect(x, j)
  \/ \E j \in Jobs : Overdue(j)
  \/ \E t \in Ticks : Step(t) \/ Crash(t) \/ \E timedOut \in BOOLEAN : FinalizeThrows(t, timedOut)
  \/ BreakerCloses \/ RuleRecovers

Spec == Init /\ [][Next]_vars

ClaimsJob(t, j) == \E batch \in SUBSET Queued : j \in batch /\ ClaimBatch(t, batch)

BeginsJob(t, j) == tick[t].row.id = j /\ Begin(t)

\* The timer keeps firing, and a tick or a request goes on until its process dies;
\* a job that no tick has in hand passes its limit; a breaker closes.  The claim is
\* in the order of next_attempt_at and a rate limit refills, so that a job which
\* is due time and again is claimed, and let through in the end.
Fairness ==
  /\ \A r \in Requests : WF_vars(Resolve(r))
  /\ \A t \in Ticks : WF_vars(Step(t))
  /\ \A j \in Jobs : WF_vars(~Held(j) /\ Overdue(j))
  /\ \A j \in Jobs : SF_vars(\E t \in Ticks : ClaimsJob(t, j))
  /\ \A j \in Jobs : SF_vars(\E t \in Ticks : BeginsJob(t, j))
  /\ WF_vars(BreakerCloses)

FairSpec == Spec /\ Fairness

(***************************************************************************)
(* Properties.                                                             *)
(***************************************************************************)
Rows == [id : Jobs, attempts : Nat]

\* Every variable has the shape of its column or of its local variables.
TypeOK ==
  /\ approval \in [Approvals -> Verdicts \cup {"pending", "expired"}]
  /\ request \in [Requests -> [pc : {"idle", "decide", "enqueue"}, id : Jobs, verdict : Verdicts]]
  /\ job \in [Jobs -> [status : Settled \cup {"none", "queued", "running"},
                       attempts : Nat, overdue : BOOLEAN]]
  /\ tick \in [Ticks -> [at : {"idle", "claim", "gate", "call", "succeeded", "connOk", "retry",
                               "fail", "readStreak", "writeStreak"},
                         row : Rows, rest : SUBSET Rows, streak : Nat]]
  /\ conn \in [streak : 0..BreakerThreshold, open : BOOLEAN]
  /\ rule \in [enabled : BOOLEAN, streak : Nat]
  /\ run \in [Runs -> [at : {"none", "acting", "failed", "over"}, streak : Nat]]
  /\ effects \in [Jobs -> Nat]
  /\ failures \in Nat /\ late \in Nat /\ crashes \in Nat

\* An approved action is queued, or its request is about to queue it: only the
\* death of that request loses it (a second approval is answered "already
\* decided" and queues nothing).
ApprovedIsQueued ==
  \A a \in Approvals : approval[a] = "approved" =>
    \/ job[a].status # "none"
    \/ \E r \in Requests : request[r].pc = "enqueue" /\ request[r].id = a
    \/ crashes > 0

\* Only a crash and the reaper repeat an action: its executor succeeds once, and once
\* more at most for each process that died and each time a live tick lost a job.
RepeatsBounded == \A j \in Jobs : effects[j] <= 1 + crashes + late

\* MAX_ATTEMPTS is exceeded only by what those cost: the reaper keeps the attempts of
\* a job, and the claim does not look at them.
AttemptsBounded == \A j \in Jobs : job[j].attempts <= MaxAttempts + crashes + late

\* Failures are never counted twice, whatever failed runs of the rule, jobs that failed
\* for good, successful runs and people write over each other's streak: a rule is
\* disabled only when at least MAX_FAILURES runs and jobs have failed.
StreakIsEarned ==
  /\ rule.streak <= failures
  /\ ~rule.enabled => failures >= MaxFailures

\* Every job that was queued ends, succeeded or failed for good: the queue drains
\* again and again, whatever breakers, rate limits and crashes did to its batches.
QueueDrains == []<>(\A j \in Jobs : job[j].status \in Settled \cup {"none"})

(***************************************************************************)
(* What this implements.                                                   *)
(***************************************************************************)
DecisionOf(status) ==
  CASE status = "pending"  -> "open"
    [] status = "approved" -> "granted"
    [] OTHER               -> "refused"

Gate == INSTANCE HeldActions WITH
  Actions  <- Approvals,
  decision <- [a \in Approvals |-> DecisionOf(approval[a])],
  queued   <- {a \in Approvals : job[a].status # "none"},
  effects  <- [a \in Approvals |-> effects[a]]

\* However requests, the expiry, workers, reapers and crashes interleave, what is
\* held is decided once and for all, queued at most once and only when it was
\* approved, and takes effect only after that.
HoldsActions == Gate!Spec
=============================================================================
