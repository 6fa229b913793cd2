------------------------- MODULE AutomationJobsProofs -------------------------
(***************************************************************************)
(* A held action runs only when it was approved and is not lost without a  *)
(* crash, a rule is disabled only for failures of runs and jobs that       *)
(* happened, and a job takes effect or is attempted too often only for a   *)
(* tick that died or was overtaken, for every number of jobs, requests,    *)
(* runs, ticks and limits.                                                 *)
(***************************************************************************)
EXTENDS AutomationJobs, FiniteSetTheorems, TLAPS

Places == {"idle", "claim", "gate", "call", "succeeded", "connOk", "retry",
           "fail", "readStreak", "writeStreak"}
Pass == [at : Places, row : Rows, rest : SUBSET Rows, streak : Nat]
RunRow == [at : {"none", "acting", "failed", "over"}, streak : Nat]
JobRow == [status : Settled \cup {"none", "queued", "running"}, attempts : Nat, overdue : BOOLEAN]

LEMMA NothingInHand ==
  /\ NoRequest \in [pc : {"idle", "decide", "enqueue"}, id : Jobs, verdict : Verdicts]
  /\ NoRequest.pc = "idle"
  /\ NoTick \in Pass /\ NoTick.at = "idle" /\ NoTick.rest = {}
<1>1. (CHOOSE j \in Jobs : TRUE) \in Jobs
  BY JobsAssumption
<1> QED
  BY <1>1 DEF NoRequest, NoTick, NoRow, Pass, Rows, Places, Verdicts

\* What TypeOK says of the worker.
LEMMA TickType ==
  ASSUME TypeOK, NEW t \in Ticks
  PROVE  /\ tick \in [Ticks -> Pass] /\ tick[t] \in Pass
         /\ tick[t].row \in Rows /\ tick[t].row.id \in Jobs /\ tick[t].row.attempts \in Nat
         /\ tick[t].rest \subseteq Rows /\ tick[t].streak \in Nat /\ tick[t].at \in Places
         /\ job \in [Jobs -> JobRow]
BY DEF TypeOK, Pass, Places, Rows, JobRow

\* A step of one tick leaves the others as they are.
LEMMA TurnType ==
  ASSUME TypeOK, NEW t \in Ticks, NextInBatch(t)
  PROVE  /\ tick' \in [Ticks -> Pass]
         /\ \A u \in Ticks : u # t => tick'[u] = tick[u]
         /\ \/ tick'[t] = NoTick /\ tick[t].rest = {}
            \/ \E next \in tick[t].rest :
                 /\ tick'[t].at = "gate" /\ tick'[t].row = next
                 /\ tick'[t].rest = tick[t].rest \ {next}
                 /\ tick'[t].streak = tick[t].streak
<1>1. tick \in [Ticks -> Pass] /\ tick[t] \in Pass /\ tick[t].rest \subseteq Rows
  BY TickType
<1>2. CASE tick[t].rest = {}
  BY <1>1, <1>2, NothingInHand DEF NextInBatch
<1>3. CASE tick[t].rest # {}
  <2>1. PICK next \in tick[t].rest :
          tick' = [tick EXCEPT ![t] =
                     [tick[t] EXCEPT !.at = "gate", !.row = next, !.rest = tick[t].rest \ {next}]]
    BY <1>3 DEF NextInBatch
  <2> DEFINE q == [tick[t] EXCEPT !.at = "gate", !.row = next, !.rest = tick[t].rest \ {next}]
  <2>2. /\ q.at = "gate" /\ q.row = next
        /\ q.rest = tick[t].rest \ {next} /\ q.streak = tick[t].streak
    BY <1>1 DEF Pass
  <2>3. q \in Pass
    BY <1>1 DEF Pass, Places
  <2>4. tick' = [tick EXCEPT ![t] = q]
    BY <2>1
  <2> HIDE DEF q
  <2>5. tick' \in [Ticks -> Pass] /\ tick'[t] = q /\ \A u \in Ticks : u # t => tick'[u] = tick[u]
    BY <1>1, <2>3, <2>4
  <2> QED
    BY <2>2, <2>5
<1> QED
  BY <1>2, <1>3

\* The steps of a tick that stay with its job, or take none.
Stays(t) ==
  \/ Reap(t) \/ GiveUp(t) \/ Begin(t) \/ Succeed(t) \/ SaveSuccess(t)
  \/ \E retryable \in BOOLEAN : Fail(t, retryable)
  \/ \E timedOut \in BOOLEAN : FinalizeThrows(t, timedOut)
  \/ SaveFailure(t) \/ ReadStreak(t)

\* Those that turn to the next one, and those that drop what is in hand.
Turns(t) == Release(t) \/ ResetConnection(t) \/ SaveRetry(t) \/ WriteStreak(t)
Drops(t) == NothingDue(t) \/ Crash(t)

LEMMA StaysType ==
  ASSUME TypeOK, NEW t \in Ticks, Stays(t)
  PROVE  /\ tick' \in [Ticks -> Pass]
         /\ \A u \in Ticks : u # t => tick'[u] = tick[u]
         /\ tick'[t].rest = tick[t].rest /\ tick'[t].row.id = tick[t].row.id
         /\ tick'[t].row.attempts \in {tick[t].row.attempts, tick[t].row.attempts + 1}
<1>1. /\ tick \in [Ticks -> Pass] /\ tick[t] \in Pass /\ tick[t].row \in Rows
      /\ rule.streak \in Nat
  BY TickType DEF TypeOK
<1>2. ASSUME NEW at \in Places, tick' = [tick EXCEPT ![t].at = at]
      PROVE  /\ tick' \in [Ticks -> Pass]
             /\ \A u \in Ticks : u # t => tick'[u] = tick[u]
             /\ tick'[t].rest = tick[t].rest /\ tick'[t].row = tick[t].row
  BY <1>1, <1>2 DEF Pass
<1>3. CASE Begin(t)
  <2>1. tick' = [tick EXCEPT ![t].at = "call", ![t].row.attempts = tick[t].row.attempts + 1]
    BY <1>3 DEF Begin
  <2> QED
    BY <1>1, <2>1 DEF Pass, Rows, Places
<1>4. CASE ReadStreak(t)
  <2>1. tick' = [tick EXCEPT ![t].at = "writeStreak", ![t].streak = rule.streak]
    BY <1>4 DEF ReadStreak
  <2> QED
    BY <1>1, <2>1 DEF Pass, Places, Rows
<1>5. CASE \/ Reap(t) \/ GiveUp(t) \/ Succeed(t) \/ SaveSuccess(t) \/ SaveFailure(t)
           \/ \E retryable \in BOOLEAN : Fail(t, retryable)
           \/ \E timedOut \in BOOLEAN : FinalizeThrows(t, timedOut)
  <2>1. \E at \in Places : tick' = [tick EXCEPT ![t].at = at]
    BY <1>5 DEF Reap, GiveUp, Succeed, SaveSuccess, SaveFailure, Fail, FinalizeThrows, Places
  <2> QED
    BY <1>2, <2>1
<1> QED
  BY <1>3, <1>4, <1>5 DEF Stays

LEMMA DropsType ==
  ASSUME TypeOK, NEW t \in Ticks, Drops(t)
  PROVE  /\ tick' \in [Ticks -> Pass] /\ tick'[t] = NoTick
         /\ \A u \in Ticks : u # t => tick'[u] = tick[u]
BY TickType, NothingInHand DEF Drops, NothingDue, Crash

LEMMA ClaimType ==
  ASSUME TypeOK, NEW t \in Ticks, NEW batch \in SUBSET Queued, ClaimBatch(t, batch)
  PROVE  /\ tick' \in [Ticks -> Pass]
         /\ \A u \in Ticks : u # t => tick'[u] = tick[u]
         /\ \E first \in batch :
              /\ tick'[t].at = "gate" /\ tick'[t].row = [id |-> first, attempts |-> job[first].attempts]
              /\ tick'[t].rest = {[id |-> j, attempts |-> job[j].attempts] : j \in batch \ {first}}
<1>1. PICK first \in batch :
        tick' = [tick EXCEPT ![t] =
         [NoTick EXCEPT !.at = "gate", !.row = [id |-> first, attempts |-> job[first].attempts],
            !.rest = {[id |-> j, attempts |-> job[j].attempts] : j \in batch \ {first}}]]
  BY DEF ClaimBatch
<1> DEFINE rest == {[id |-> j, attempts |-> job[j].attempts] : j \in batch \ {first}}
           row == [id |-> first, attempts |-> job[first].attempts]
           q == [NoTick EXCEPT !.at = "gate", !.row = row, !.rest = rest]
<1>2. batch \subseteq Jobs /\ job \in [Jobs -> JobRow] /\ tick \in [Ticks -> Pass]
  BY TickType DEF Queued
<1>3. rest \subseteq Rows /\ row \in Rows
  BY <1>2 DEF Rows, JobRow
<1>4. tick' = [tick EXCEPT ![t] = q]
  BY <1>1
<1> HIDE DEF rest, row
<1>5. q \in Pass /\ q.at = "gate" /\ q.row = row /\ q.rest = rest
  BY <1>3, NothingInHand DEF NoTick, Pass, Places
<1> HIDE DEF q
<1>6. /\ tick' \in [Ticks -> Pass] /\ tick'[t] = q
      /\ \A u \in Ticks : u # t => tick'[u] = tick[u]
  BY <1>2, <1>4, <1>5
<1> QED
  BY <1>5, <1>6 DEF rest, row

\* Every step is one of these, or of no tick.
LEMMA StepKinds ==
  ASSUME Next
  PROVE  \/ \E t \in Ticks : Stays(t) \/ Turns(t) \/ Drops(t)
         \/ \E t \in Ticks : \E batch \in SUBSET Queued : ClaimBatch(t, batch)
         \/ \E a \in Approvals : Expire(a)
         \/ \E r \in Requests, a \in Approvals, verdict \in Verdicts : Ask(r, a, verdict)
         \/ \E r \in Requests : Decide(r) \/ EnqueueApproved(r) \/ RequestDies(r)
         \/ \E x \in Runs, j \in Direct : EnqueueDirect(x, j)
         \/ \E x \in Runs : Acts(x)
         \/ \E j \in Jobs : Overdue(j)
         \/ BreakerCloses \/ RuleRecovers
BY DEF Next, Step, Process, Claim, Resolve, Stays, Turns, Drops

(***************************************************************************)
(* Types.                                                                  *)
(***************************************************************************)
LEMMA InitType == Init => TypeOK
<1> SUFFICES ASSUME Init PROVE TypeOK
  OBVIOUS
<1>1. tick \in [Ticks -> Pass] /\ request \in
        [Requests -> [pc : {"idle", "decide", "enqueue"}, id : Jobs, verdict : Verdicts]]
  BY NothingInHand DEF Init
<1>2. job \in [Jobs -> JobRow]
  BY DEF Init, JobRow
<1>3. conn \in [streak : 0..BreakerThreshold, open : BOOLEAN]
  BY LimitsAssumption DEF Init
<1>4. rule \in [enabled : BOOLEAN, streak : Nat] /\ run \in [Runs -> RunRow]
  BY DEF Init, RunRow, NoRun
<1> QED
  BY <1>1, <1>2, <1>3, <1>4 DEF Init, TypeOK, Pass, Places, JobRow, RunRow

LEMMA ConnType ==
  ASSUME TypeOK, ConnectionFailed
  PROVE  conn' \in [streak : 0..BreakerThreshold, open : BOOLEAN]
<1> DEFINE streak == IF conn.streak < BreakerThreshold THEN conn.streak + 1 ELSE conn.streak
<1>1. streak \in 0..BreakerThreshold /\ conn.open \in BOOLEAN
  BY LimitsAssumption DEF TypeOK
<1>2. conn' = [streak |-> streak, open |-> conn.open \/ streak = BreakerThreshold]
  BY DEF ConnectionFailed
<1> HIDE DEF streak
<1> QED
  BY <1>1, <1>2

\* What a step of a tick writes beside the tick.
LEMMA TickColumns ==
  ASSUME TypeOK, NEW t \in Ticks, Stays(t) \/ Turns(t) \/ Drops(t)
  PROVE  /\ job' \in [Jobs -> JobRow]
         /\ conn' \in [streak : 0..BreakerThreshold, open : BOOLEAN]
         /\ rule' \in [enabled : BOOLEAN, streak : Nat]
         /\ effects' \in [Jobs -> Nat]
         /\ failures' \in Nat /\ late' \in Nat /\ crashes' \in Nat
         /\ approval' = approval /\ request' = request /\ run' = run
<1>1. /\ tick[t].row.id \in Jobs /\ tick[t].row.attempts \in Nat /\ tick[t].streak \in Nat
      /\ job \in [Jobs -> JobRow]
  BY TickType
<1>2. /\ conn \in [streak : 0..BreakerThreshold, open : BOOLEAN]
      /\ rule \in [enabled : BOOLEAN, streak : Nat] /\ effects \in [Jobs -> Nat]
      /\ failures \in Nat /\ late \in Nat /\ crashes \in Nat
  BY DEF TypeOK
<1>3. job' \in [Jobs -> JobRow]
  <2>1. CASE Reap(t)
    <3>1. \A j \in Jobs : ReapedRow(job[j]) \in JobRow
      BY <1>1 DEF ReapedRow, JobRow
    <3> QED
      BY <2>1, <3>1 DEF Reap
  <2>2. CASE GiveUp(t) \/ SaveFailure(t) \/ SaveSuccess(t)
    <3>1. \E status \in Settled : job' = [job EXCEPT ![tick[t].row.id].status = status]
      BY <2>2 DEF GiveUp, SaveFailure, SaveSuccess, Settled
    <3> QED
      BY <1>1, <3>1 DEF JobRow
  <2>3. CASE Release(t) \/ SaveRetry(t)
    <3>1. job' = [job EXCEPT ![tick[t].row.id].status = "queued", ![tick[t].row.id].overdue = FALSE]
      BY <2>3 DEF Release, SaveRetry
    <3> QED
      BY <1>1, <3>1 DEF JobRow
  <2>4. CASE Begin(t)
    BY <1>1, <2>4 DEF Begin, JobRow
  <2>5. CASE job' = job
    BY <1>1, <2>5
  <2> QED
    BY <2>1, <2>2, <2>3, <2>4, <2>5
       DEF Stays, Turns, Drops, Succeed, Fail, FinalizeThrows, ReadStreak, ResetConnection,
           WriteStreak, NothingDue, Crash
<1>4. conn' \in [streak : 0..BreakerThreshold, open : BOOLEAN]
  <2>1. CASE (\E retryable \in BOOLEAN : Fail(t, retryable))
             \/ \E timedOut \in BOOLEAN : FinalizeThrows(t, timedOut)
    BY <2>1, ConnType DEF Fail, FinalizeThrows
  <2>2. CASE ResetConnection(t)
    BY <1>2, <2>2, LimitsAssumption DEF ResetConnection
  <2>3. CASE conn' = conn
    BY <1>2, <2>3
  <2> QED
    BY <2>1, <2>2, <2>3
       DEF Stays, Turns, Drops, Reap, GiveUp, Begin, Succeed, SaveSuccess, SaveFailure,
           ReadStreak, Release, SaveRetry, WriteStreak, NothingDue, Crash
<1>5. rule' \in [enabled : BOOLEAN, streak : Nat]
  <2>1. CASE WriteStreak(t)
    BY <1>1, <1>2, <2>1, LimitsAssumption DEF WriteStreak, RuleAfter
  <2>2. CASE rule' = rule
    BY <1>2, <2>2
  <2> QED
    BY <2>1, <2>2
       DEF Stays, Turns, Drops, Reap, GiveUp, Begin, Succeed, SaveSuccess, Fail, FinalizeThrows,
           SaveFailure, ReadStreak, Release, SaveRetry, ResetConnection, NothingDue, Crash
<1>6. effects' \in [Jobs -> Nat]
  <2>1. CASE Succeed(t)
    BY <1>1, <1>2, <2>1 DEF Succeed
  <2>2. CASE effects' = effects
    BY <1>2, <2>2
  <2> QED
    BY <2>1, <2>2
       DEF Stays, Turns, Drops, Reap, GiveUp, Begin, SaveSuccess, Fail, FinalizeThrows,
           SaveFailure, ReadStreak, Release, SaveRetry, ResetConnection, WriteStreak, NothingDue,
           Crash
<1>7. failures' \in Nat
  <2>1. CASE failures' \in {failures, failures + 1}
    BY <1>2, <2>1
  <2> QED
    BY <2>1
       DEF Stays, Turns, Drops, Reap, GiveUp, Begin, Succeed, SaveSuccess, Fail, FinalizeThrows,
           SaveFailure, ReadStreak, Release, SaveRetry, ResetConnection, WriteStreak, NothingDue,
           Crash
<1>8. crashes' \in Nat
  <2>1. CASE crashes' \in {crashes, crashes + 1}
    BY <1>2, <2>1
  <2> QED
    BY <2>1
       DEF Stays, Turns, Drops, Reap, GiveUp, Begin, Succeed, SaveSuccess, Fail, FinalizeThrows,
           SaveFailure, ReadStreak, Release, SaveRetry, ResetConnection, WriteStreak, NothingDue,
           Crash
<1>9. late' = late /\ approval' = approval /\ request' = request /\ run' = run
  BY DEF Stays, Turns, Drops, Reap, GiveUp, Begin, Succeed, SaveSuccess, Fail, FinalizeThrows,
         SaveFailure, ReadStreak, Release, SaveRetry, ResetConnection, WriteStreak, NothingDue,
         Crash
<1> QED
  BY <1>2, <1>3, <1>4, <1>5, <1>6, <1>7, <1>8, <1>9

\* A request or an expiry leaves the worker and the rule alone.
Asks ==
  \/ \E a \in Approvals : Expire(a)
  \/ \E r \in Requests, a \in Approvals, verdict \in Verdicts : Ask(r, a, verdict)
  \/ \E r \in Requests : Decide(r) \/ EnqueueApproved(r) \/ RequestDies(r)

LEMMA AsksType ==
  ASSUME TypeOK, Asks
  PROVE  /\ approval' \in [Approvals -> Verdicts \cup {"pending", "expired"}]
         /\ request' \in
              [Requests -> [pc : {"idle", "decide", "enqueue"}, id : Jobs, verdict : Verdicts]]
         /\ job' \in [Jobs -> JobRow] /\ crashes' \in Nat
         /\ UNCHANGED <<tick, conn, rule, run, effects, failures, late>>
<1> DEFINE Request == [pc : {"idle", "decide", "enqueue"}, id : Jobs, verdict : Verdicts]
<1>1. /\ approval \in [Approvals -> Verdicts \cup {"pending", "expired"}]
      /\ request \in [Requests -> Request] /\ job \in [Jobs -> JobRow] /\ crashes \in Nat
      /\ NoRequest \in Request
  BY NothingInHand DEF TypeOK, JobRow
<1>2. CASE \E a \in Approvals : Expire(a)
  BY <1>1, <1>2 DEF Expire
<1>3. ASSUME NEW r \in Requests, NEW a \in Approvals, NEW verdict \in Verdicts, Ask(r, a, verdict)
      PROVE  request' \in [Requests -> Request]
  <2>1. [pc |-> "decide", id |-> a, verdict |-> verdict] \in Request
    BY DEF Jobs
  <2> QED
    BY <1>1, <1>3, <2>1 DEF Ask
<1>4. ASSUME NEW r \in Requests, Decide(r)
      PROVE  /\ approval' \in [Approvals -> Verdicts \cup {"pending", "expired"}]
             /\ request' \in [Requests -> Request]
  <2>1. request[r] \in Request /\ [request[r] EXCEPT !.pc = "enqueue"] \in Request
    BY <1>1
  <2> DEFINE q == IF Wins(request[r]) /\ request[r].verdict = "approved"
                    THEN [request[r] EXCEPT !.pc = "enqueue"] ELSE NoRequest
  <2>2. q \in Request /\ request' = [request EXCEPT ![r] = q]
    BY <1>1, <1>4, <2>1 DEF Decide
  <2> HIDE DEF q
  <2>3. request' \in [Requests -> Request]
    BY <1>1, <2>2
  <2>4. approval' \in [Approvals -> Verdicts \cup {"pending", "expired"}]
    BY <1>1, <1>4, <2>1 DEF Decide
  <2> QED
    BY <2>3, <2>4
<1>5. ASSUME NEW r \in Requests, EnqueueApproved(r)
      PROVE  job' \in [Jobs -> JobRow] /\ request' \in [Requests -> Request]
  BY <1>1, <1>5 DEF EnqueueApproved, Inserted, JobRow
<1>6. ASSUME NEW r \in Requests, RequestDies(r)
      PROVE  crashes' \in Nat /\ request' \in [Requests -> Request]
  BY <1>1, <1>6 DEF RequestDies
<1>7. UNCHANGED <<tick, conn, rule, run, effects, failures, late>>
  BY DEF Asks, Expire, Ask, Decide, EnqueueApproved, RequestDies
<1> QED
  BY <1>1, <1>2, <1>3, <1>4, <1>5, <1>6, <1>7
     DEF Asks, Expire, Ask, Decide, EnqueueApproved, RequestDies

\* A run of the rule writes its own variables and the streak of the rule.
LEMMA ActsType ==
  ASSUME TypeOK, NEW x \in Runs, Acts(x)
  PROVE  /\ UNCHANGED <<approval, request, job, tick, conn, effects, late, crashes>>
         /\ rule' \in [enabled : BOOLEAN, streak : Nat] /\ run' \in [Runs -> RunRow]
         /\ failures' \in Nat /\ failures' \in {failures, failures + 1}
<1>1. /\ rule \in [enabled : BOOLEAN, streak : Nat] /\ run \in [Runs -> RunRow]
      /\ failures \in Nat /\ RunOver \in RunRow
  BY DEF TypeOK, RunRow, RunOver
<1>2. UNCHANGED <<approval, request, job, tick, conn, effects, late, crashes>>
  BY DEF Acts, RunStarts, RunSucceeds, RunFails, HookFails, HookWrites
<1>3. failures' \in {failures, failures + 1}
  BY DEF Acts, RunStarts, RunSucceeds, RunFails, HookFails, HookWrites
<1>4. run' \in [Runs -> RunRow]
  <2>1. \E r \in RunRow : run' = [run EXCEPT ![x] = r]
    <3>1. \A at \in {"acting", "failed"} : [at |-> at, streak |-> rule.streak] \in RunRow
      BY <1>1 DEF RunRow
    <3> QED
      BY <1>1, <3>1 DEF Acts, RunStarts, RunSucceeds, RunFails, HookFails, HookWrites
  <2> QED
    BY <1>1, <2>1
<1>5. rule' \in [enabled : BOOLEAN, streak : Nat]
  <2>1. RuleAfter(run[x].streak) \in [enabled : BOOLEAN, streak : Nat]
    BY <1>1, LimitsAssumption DEF RuleAfter, RunRow
  <2>2. [rule EXCEPT !.streak = 0] \in [enabled : BOOLEAN, streak : Nat]
    BY <1>1
  <2> QED
    BY <1>1, <2>1, <2>2 DEF Acts, RunStarts, RunSucceeds, RunFails, HookFails, HookWrites
<1> QED
  BY <1>1, <1>2, <1>3, <1>4, <1>5

LEMMA NextType == TypeOK /\ [Next]_vars => TypeOK'
<1> SUFFICES ASSUME TypeOK, [Next]_vars PROVE TypeOK'
  OBVIOUS
<1>0. /\ approval \in [Approvals -> Verdicts \cup {"pending", "expired"}]
      /\ request \in
           [Requests -> [pc : {"idle", "decide", "enqueue"}, id : Jobs, verdict : Verdicts]]
      /\ job \in [Jobs -> JobRow] /\ tick \in [Ticks -> Pass]
      /\ conn \in [streak : 0..BreakerThreshold, open : BOOLEAN]
      /\ rule \in [enabled : BOOLEAN, streak : Nat] /\ run \in [Runs -> RunRow]
      /\ effects \in [Jobs -> Nat]
      /\ failures \in Nat /\ late \in Nat /\ crashes \in Nat
  BY DEF TypeOK, JobRow, Pass, Places, RunRow
<1>1. ASSUME NEW t \in Ticks, Stays(t) \/ Turns(t) \/ Drops(t) PROVE TypeOK'
  <2>1. tick' \in [Ticks -> Pass]
    BY <1>1, StaysType, TurnType, DropsType
       DEF Turns, Release, ResetConnection, SaveRetry, WriteStreak
  <2> QED
    BY <1>0, <1>1, <2>1, TickColumns DEF TypeOK, JobRow, Pass, Places, RunRow
<1>2. ASSUME NEW t \in Ticks, NEW batch \in SUBSET Queued, ClaimBatch(t, batch) PROVE TypeOK'
  <2>1. tick' \in [Ticks -> Pass]
    BY <1>2, ClaimType
  <2>2. job' = [j \in Jobs |-> IF j \in batch THEN [job[j] EXCEPT !.status = "running"] ELSE job[j]]
    BY <1>2 DEF ClaimBatch
  <2>3. job' \in [Jobs -> JobRow]
    BY <1>0, <2>2 DEF JobRow
  <2> QED
    BY <1>0, <1>2, <2>1, <2>3 DEF ClaimBatch, TypeOK, JobRow, Pass, Places, RunRow
<1>3. CASE Asks
  BY <1>0, <1>3, AsksType DEF TypeOK, JobRow, Pass, Places, RunRow
<1>4. ASSUME NEW x \in Runs, NEW j \in Direct, EnqueueDirect(x, j) PROVE TypeOK'
  <2>1. job' \in [Jobs -> JobRow]
    BY <1>0, <1>4 DEF EnqueueDirect, Inserted, JobRow
  <2> QED
    BY <1>0, <1>4, <2>1 DEF EnqueueDirect, TypeOK, JobRow, Pass, Places, RunRow
<1>5. ASSUME NEW j \in Jobs, Overdue(j) PROVE TypeOK'
  <2>1. job' \in [Jobs -> JobRow]
    <3>1. [job[j] EXCEPT !.overdue = TRUE] \in JobRow
      BY <1>0 DEF JobRow
    <3>2. job' = [job EXCEPT ![j] = [job[j] EXCEPT !.overdue = TRUE]]
      BY <1>5 DEF Overdue
    <3> QED
      BY <1>0, <3>1, <3>2
  <2>2. late' \in Nat
    BY <1>0, <1>5 DEF Overdue
  <2> QED
    BY <1>0, <1>5, <2>1, <2>2 DEF Overdue, TypeOK, JobRow, Pass, Places, RunRow
<1>6. CASE BreakerCloses \/ RuleRecovers
  <2>1. conn' \in [streak : 0..BreakerThreshold, open : BOOLEAN]
    <3>1. [conn EXCEPT !.open = FALSE] \in [streak : 0..BreakerThreshold, open : BOOLEAN]
      BY <1>0
    <3> QED
      BY <1>0, <1>6, <3>1 DEF BreakerCloses, RuleRecovers
  <2>2. rule' \in [enabled : BOOLEAN, streak : Nat]
    <3>1. [rule EXCEPT !.streak = 0] \in [enabled : BOOLEAN, streak : Nat]
      BY <1>0
    <3>2. [enabled |-> TRUE, streak |-> 0] \in [enabled : BOOLEAN, streak : Nat]
      OBVIOUS
    <3> QED
      BY <1>0, <1>6, <3>1, <3>2 DEF BreakerCloses, RuleRecovers
  <2> QED
    BY <1>0, <1>6, <2>1, <2>2 DEF BreakerCloses, RuleRecovers, TypeOK, JobRow, Pass, Places, RunRow
<1>7. CASE UNCHANGED vars
  BY <1>7 DEF vars, TypeOK
<1>8. ASSUME NEW x \in Runs, Acts(x) PROVE TypeOK'
  BY <1>0, <1>8, ActsType DEF TypeOK, JobRow, Pass, Places, RunRow
<1> QED
  BY <1>1, <1>2, <1>3, <1>4, <1>5, <1>6, <1>7, <1>8, StepKinds DEF Asks

\* Every column and every tick keeps its shape.
THEOREM TypeCorrect == Spec => []TypeOK
BY InitType, NextType, PTL DEF Spec

(***************************************************************************)
(* Approvals.                                                              *)
(***************************************************************************)

\* A held action is queued for an approval that stands approved: of requests that
\* approve and reject it at once, and the sweep that expires it, one has its way,
\* and none comes after it.
OnlyApprovedRuns == \A a \in Approvals : job[a].status # "none" => approval[a] = "approved"

\* What a tick has in hand was queued; a request that is past its read decides a held
\* action, and is about to queue only an approved one.
ApprovalInv ==
  /\ \A t \in Ticks : \A j \in InHand(t) : job[j].status # "none"
  /\ \A r \in Requests :
       /\ request[r].pc # "idle" => request[r].id \in Approvals
       /\ request[r].pc = "enqueue" => approval[request[r].id] = "approved"
  /\ OnlyApprovedRuns
  /\ ApprovedIsQueued

\* A tick has nothing new in hand unless it claims.
LEMMA HandShrinks ==
  ASSUME TypeOK, NEW t \in Ticks, Stays(t) \/ Turns(t) \/ Drops(t), NEW u \in Ticks
  PROVE  InHand(u)' \subseteq InHand(u)
<1>1. CASE u # t
  <2>1. tick'[u] = tick[u]
    BY <1>1, StaysType, TurnType, DropsType
       DEF Turns, Release, ResetConnection, SaveRetry, WriteStreak
  <2> QED
    BY <2>1 DEF InHand
<1>2. CASE Stays(t)
  <2>1. tick'[t].rest = tick[t].rest /\ tick'[t].row.id = tick[t].row.id
    BY <1>2, StaysType
  <2>2. CASE Reap(t)
    <3>1. tick[t].at = "idle" /\ tick'[t].at = "claim"
      BY <2>2, TickType DEF Reap, Pass
    <3> QED
      BY <1>1, <2>1, <3>1 DEF InHand
  <2>3. CASE ~Reap(t)
    <3>1. tick[t].at \notin {"idle", "claim"}
      BY <1>2, <2>3
         DEF Stays, GiveUp, Begin, Succeed, SaveSuccess, Fail, FinalizeThrows, SaveFailure,
             ReadStreak
    <3> QED
      BY <1>1, <2>1, <3>1 DEF InHand
  <2> QED
    BY <2>2, <2>3
<1>3. CASE Turns(t)
  <2>1. NextInBatch(t) /\ tick[t].at \notin {"idle", "claim"}
    BY <1>3 DEF Turns, Release, ResetConnection, SaveRetry, WriteStreak
  <2>2. CASE tick'[t] = NoTick
    BY <1>1, <2>2, NothingInHand DEF InHand
  <2>3. CASE \E next \in tick[t].rest :
               tick'[t].row = next /\ tick'[t].rest = tick[t].rest \ {next}
    BY <1>1, <2>3 DEF InHand
  <2> QED
    BY <2>1, <2>2, <2>3, TurnType
<1>4. CASE Drops(t)
  <2>1. tick'[t] = NoTick
    BY <1>4, DropsType
  <2> QED
    BY <1>1, <2>1, NothingInHand DEF InHand
<1> QED
  BY <1>2, <1>3, <1>4

\* A step of a tick writes only jobs that were queued, and none back to "none".
LEMMA TickJobs ==
  ASSUME TypeOK, NEW t \in Ticks, Stays(t) \/ Turns(t) \/ Drops(t),
         \A j \in InHand(t) : job[j].status # "none", NEW j \in Jobs
  PROVE  job'[j].status = "none" <=> job[j].status = "none"
<1>1. tick[t].row.id \in Jobs /\ job \in [Jobs -> JobRow]
  BY TickType
<1>2. CASE Reap(t)
  <2>1. job'[j] = ReapedRow(job[j])
    BY <1>2 DEF Reap
  <2> QED
    BY <1>1, <2>1 DEF ReapedRow, JobRow
<1>3. CASE GiveUp(t) \/ SaveFailure(t) \/ SaveSuccess(t) \/ Release(t) \/ SaveRetry(t) \/ Begin(t)
  <2>1. tick[t].at \notin {"idle", "claim"}
    BY <1>3 DEF GiveUp, SaveFailure, SaveSuccess, Release, SaveRetry, Begin
  <2>2. job[tick[t].row.id].status # "none"
    BY <2>1 DEF InHand
  <2>3. j # tick[t].row.id => job'[j] = job[j]
    BY <1>1, <1>3 DEF GiveUp, SaveFailure, SaveSuccess, Release, SaveRetry, Begin
  <2>4. job'[tick[t].row.id].status # "none"
    <3>1. CASE Begin(t)
      BY <1>1, <2>2, <3>1 DEF Begin, JobRow
    <3>2. CASE GiveUp(t) \/ SaveFailure(t) \/ SaveSuccess(t)
      <4>1. \E status \in Settled : job' = [job EXCEPT ![tick[t].row.id].status = status]
        BY <3>2 DEF GiveUp, SaveFailure, SaveSuccess, Settled
      <4> QED
        BY <1>1, <4>1 DEF JobRow, Settled
    <3>3. CASE Release(t) \/ SaveRetry(t)
      <4>1. job' = [job EXCEPT ![tick[t].row.id].status = "queued",
                               ![tick[t].row.id].overdue = FALSE]
        BY <3>3 DEF Release, SaveRetry
      <4> QED
        BY <1>1, <4>1 DEF JobRow
    <3> QED
      BY <1>3, <3>1, <3>2, <3>3
  <2> QED
    BY <2>2, <2>3, <2>4
<1>4. CASE job' = job
  BY <1>4
<1> QED
  BY <1>2, <1>3, <1>4
     DEF Stays, Turns, Drops, Succeed, Fail, FinalizeThrows, ReadStreak, ResetConnection,
         WriteStreak, NothingDue, Crash

LEMMA InitApproval == Init => ApprovalInv
<1> SUFFICES ASSUME Init PROVE ApprovalInv
  OBVIOUS
<1>1. \A t \in Ticks : InHand(t) = {}
  BY NothingInHand DEF Init, InHand
<1>2. \A r \in Requests : request[r].pc = "idle"
  BY NothingInHand DEF Init
<1>3. OnlyApprovedRuns /\ ApprovedIsQueued
  BY DEF Init, OnlyApprovedRuns, ApprovedIsQueued, Jobs
<1> QED
  BY <1>1, <1>2, <1>3 DEF ApprovalInv

\* The invariant survives a step that leaves approvals and requests alone and changes the
\* status of no job of an approval between "none" and another.
LEMMA ApprovalKept ==
  ASSUME TypeOK, TypeOK', ApprovalInv, approval' = approval, request' = request,
         \A j \in Approvals : job'[j].status = "none" <=> job[j].status = "none",
         \A j \in Jobs : job[j].status # "none" => job'[j].status # "none",
         \A u \in Ticks : \A j \in InHand(u)' : j \in InHand(u) \/ job'[j].status # "none",
         crashes' >= crashes
  PROVE  ApprovalInv'
<1>1. ASSUME NEW t \in Ticks, NEW j \in InHand(t)' PROVE job'[j].status # "none"
  <2>1. CASE j \in InHand(t)
    <3>1. j \in Jobs
      BY <2>1, TickType DEF InHand, Rows
    <3> QED
      BY <2>1, <3>1 DEF ApprovalInv
  <2> QED
    BY <2>1
<1>2. \A r \in Requests :
        /\ request'[r].pc # "idle" => request'[r].id \in Approvals
        /\ request'[r].pc = "enqueue" => approval'[request'[r].id] = "approved"
  BY DEF ApprovalInv
<1>3. OnlyApprovedRuns'
  BY DEF ApprovalInv, OnlyApprovedRuns
<1>4. ApprovedIsQueued'
  <2>1. crashes \in Nat /\ crashes' \in Nat
    BY DEF TypeOK
  <2>2. crashes > 0 => crashes' > 0
    BY <2>1
  <2> QED
    BY <2>2 DEF ApprovalInv, ApprovedIsQueued
<1> QED
  BY <1>1, <1>2, <1>3, <1>4 DEF ApprovalInv

\* Its parts that speak of approvals and requests, for a step of those.
LEMMA AsksApproval ==
  ASSUME TypeOK, ApprovalInv, Asks
  PROVE  ApprovalInv'
<1>0. /\ approval \in [Approvals -> Verdicts \cup {"pending", "expired"}]
      /\ request \in
           [Requests -> [pc : {"idle", "decide", "enqueue"}, id : Jobs, verdict : Verdicts]]
      /\ job \in [Jobs -> JobRow] /\ crashes \in Nat
      /\ NoRequest.pc = "idle"
  BY NothingInHand DEF TypeOK, JobRow
<1>1. tick' = tick /\ \A j \in Jobs : job[j].status # "none" => job'[j].status # "none"
  BY <1>0 DEF Asks, Expire, Ask, Decide, EnqueueApproved, RequestDies, Inserted
<1>2. ASSUME NEW t \in Ticks, NEW j \in InHand(t)' PROVE job'[j].status # "none"
  <2>1. j \in InHand(t) /\ j \in Jobs
    BY <1>1, <1>2, TickType DEF InHand, Rows
  <2> QED
    BY <1>1, <2>1 DEF ApprovalInv
<1>3. ASSUME NEW a \in Approvals, Expire(a) PROVE ApprovalInv'
  <2>1. /\ approval[a] = "pending" /\ approval' = [approval EXCEPT ![a] = "expired"]
        /\ request' = request /\ job' = job /\ crashes' = crashes
    BY <1>3 DEF Expire
  <2>2. \A b \in Approvals : approval'[b] = "approved" <=> approval[b] = "approved"
    BY <1>0, <2>1
  <2> QED
    BY <1>2, <2>1, <2>2 DEF ApprovalInv, OnlyApprovedRuns, ApprovedIsQueued
<1>4. ASSUME NEW r \in Requests, NEW a \in Approvals, NEW verdict \in Verdicts, Ask(r, a, verdict)
      PROVE  ApprovalInv'
  <2>1. /\ request[r].pc = "idle"
        /\ request' = [request EXCEPT ![r] = [pc |-> "decide", id |-> a, verdict |-> verdict]]
        /\ approval' = approval /\ job' = job /\ crashes' = crashes
    BY <1>4 DEF Ask
  <2>2. \A q \in Requests : q # r => request'[q] = request[q]
    BY <1>0, <2>1
  <2>3. request'[r].pc = "decide" /\ request'[r].id = a
    BY <1>0, <2>1
  <2> QED
    BY <1>2, <2>1, <2>2, <2>3 DEF ApprovalInv, OnlyApprovedRuns, ApprovedIsQueued
<1>5. ASSUME NEW r \in Requests, Decide(r) PROVE ApprovalInv'
  <2> DEFINE a == request[r].id
  <2>1. /\ request[r].pc = "decide" /\ a \in Approvals /\ request[r].verdict \in Verdicts
        /\ job' = job /\ crashes' = crashes
    BY <1>0, <1>5 DEF Decide, ApprovalInv
  <2>2. CASE approval[a] = "pending" /\ request[r].verdict = "approved"
    <3>1. /\ approval' = [approval EXCEPT ![a] = "approved"]
          /\ request' = [request EXCEPT ![r] = [request[r] EXCEPT !.pc = "enqueue"]]
      BY <1>5, <2>2 DEF Decide, Wins
    <3>2. /\ \A q \in Requests : q # r => request'[q] = request[q]
          /\ request'[r].pc = "enqueue" /\ request'[r].id = a
          /\ approval'[a] = "approved" /\ \A b \in Approvals : b # a => approval'[b] = approval[b]
      BY <1>0, <2>1, <3>1
    <3> QED
      BY <1>2, <2>1, <3>2 DEF ApprovalInv, OnlyApprovedRuns, ApprovedIsQueued
  <2>3. CASE approval[a] = "pending" /\ request[r].verdict # "approved"
    <3>1. /\ approval' = [approval EXCEPT ![a] = request[r].verdict]
          /\ request' = [request EXCEPT ![r] = NoRequest]
      BY <1>5, <2>3 DEF Decide, Wins
    <3>2. /\ \A q \in Requests : q # r => request'[q] = request[q]
          /\ request'[r].pc = "idle"
          /\ \A b \in Approvals : approval'[b] = "approved" <=> approval[b] = "approved"
      BY <1>0, <2>1, <2>3, <3>1
    <3> QED
      BY <1>2, <2>1, <3>2 DEF ApprovalInv, OnlyApprovedRuns, ApprovedIsQueued
  <2>4. CASE approval[a] # "pending"
    <3>1. approval' = approval /\ request' = [request EXCEPT ![r] = NoRequest]
      BY <1>5, <2>4 DEF Decide, Wins
    <3>2. /\ \A q \in Requests : q # r => request'[q] = request[q]
          /\ request'[r].pc = "idle"
      BY <1>0, <3>1
    <3> QED
      BY <1>2, <2>1, <3>1, <3>2 DEF ApprovalInv, OnlyApprovedRuns, ApprovedIsQueued
  <2> QED
    BY <2>2, <2>3, <2>4
<1>6. ASSUME NEW r \in Requests, EnqueueApproved(r) PROVE ApprovalInv'
  <2> DEFINE a == request[r].id
  <2>1. /\ request[r].pc = "enqueue" /\ a \in Approvals /\ approval[a] = "approved"
        /\ approval' = approval /\ crashes' = crashes
        /\ request' = [request EXCEPT ![r] = NoRequest]
        /\ job' = IF job[a].status = "none" THEN [job EXCEPT ![a].status = "queued"] ELSE job
    BY <1>6 DEF EnqueueApproved, Inserted, ApprovalInv
  <2>2. /\ \A q \in Requests : q # r => request'[q] = request[q]
        /\ request'[r].pc = "idle"
    BY <1>0, <2>1
  <2>3. job'[a].status # "none" /\ \A b \in Jobs : b # a => job'[b] = job[b]
    BY <1>0, <2>1 DEF JobRow, Jobs
  <2> QED
    BY <1>2, <2>1, <2>2, <2>3 DEF ApprovalInv, OnlyApprovedRuns, ApprovedIsQueued, Jobs
<1>7. ASSUME NEW r \in Requests, RequestDies(r) PROVE ApprovalInv'
  <2>1. /\ approval' = approval /\ job' = job /\ crashes' = crashes + 1
        /\ request' = [request EXCEPT ![r] = NoRequest]
    BY <1>7 DEF RequestDies
  <2>2. /\ \A q \in Requests : q # r => request'[q] = request[q]
        /\ request'[r].pc = "idle" /\ crashes' > 0
    BY <1>0, <2>1
  <2> QED
    BY <1>2, <2>1, <2>2 DEF ApprovalInv, OnlyApprovedRuns, ApprovedIsQueued
<1> QED
  BY <1>3, <1>4, <1>5, <1>6, <1>7 DEF Asks

LEMMA NextApproval == TypeOK /\ ApprovalInv /\ [Next]_vars => ApprovalInv'
<1> SUFFICES ASSUME TypeOK, ApprovalInv, [Next]_vars PROVE ApprovalInv'
  OBVIOUS
<1>1. TypeOK' /\ crashes \in Nat /\ job \in [Jobs -> JobRow] /\ Approvals \subseteq Jobs
  BY NextType DEF TypeOK, JobRow, Jobs
<1>2. ASSUME NEW t \in Ticks, Stays(t) \/ Turns(t) \/ Drops(t) PROVE ApprovalInv'
  <2>1. \A j \in InHand(t) : job[j].status # "none"
    BY DEF ApprovalInv
  <2>2. \A j \in Jobs : job'[j].status = "none" <=> job[j].status = "none"
    BY <1>2, <2>1, TickJobs
  <2>3. \A u \in Ticks : InHand(u)' \subseteq InHand(u)
    BY <1>2, HandShrinks
  <2>4. crashes' >= crashes
    <3>1. crashes' \in {crashes, crashes + 1}
      BY <1>2
         DEF Stays, Turns, Drops, Reap, GiveUp, Begin, Succeed, SaveSuccess, Fail,
             FinalizeThrows, SaveFailure, ReadStreak, Release, SaveRetry, ResetConnection,
             WriteStreak, NothingDue, Crash
    <3> QED
      BY <1>1, <3>1
  <2> QED
    BY <1>1, <1>2, <2>2, <2>3, <2>4, TickColumns, ApprovalKept
<1>3. ASSUME NEW t \in Ticks, NEW batch \in SUBSET Queued, ClaimBatch(t, batch)
      PROVE  ApprovalInv'
  <2>1. /\ job' = [j \in Jobs |-> IF j \in batch THEN [job[j] EXCEPT !.status = "running"] ELSE job[j]]
        /\ approval' = approval /\ request' = request /\ crashes' = crashes
    BY <1>3 DEF ClaimBatch
  <2>2. \A j \in batch : j \in Jobs /\ job[j].status = "queued" /\ job'[j].status # "none"
    BY <1>1, <2>1 DEF Queued, JobRow
  <2>3. \A j \in Jobs : job'[j].status = "none" <=> job[j].status = "none"
    BY <2>1, <2>2
  <2>4. ASSUME NEW u \in Ticks, NEW j \in InHand(u)'
        PROVE  j \in InHand(u) \/ job'[j].status # "none"
    <3>1. CASE u # t
      <4>1. tick'[u] = tick[u]
        BY <1>3, <3>1, ClaimType
      <4> QED
        BY <2>4, <4>1 DEF InHand
    <3>2. CASE u = t
      <4>1. PICK first \in batch :
              /\ tick'[t].row = [id |-> first, attempts |-> job[first].attempts]
              /\ tick'[t].rest = {[id |-> k, attempts |-> job[k].attempts] : k \in batch \ {first}}
        BY <1>3, ClaimType
      <4>2. tick'[t].row.id = first /\ \A r \in tick'[t].rest : r.id \in batch
        BY <4>1
      <4>3. j \in batch
        BY <2>4, <3>2, <4>2 DEF InHand
      <4> QED
        BY <2>2, <4>3
    <3> QED
      BY <3>1, <3>2
  <2> QED
    BY <1>1, <2>1, <2>3, <2>4, ApprovalKept
<1>4. CASE Asks
  BY <1>4, AsksApproval
<1>5. ASSUME NEW x \in Runs, NEW d \in Direct, EnqueueDirect(x, d) PROVE ApprovalInv'
  <2>1. /\ job' = [job EXCEPT ![d].status = "queued"]
        /\ approval' = approval /\ request' = request /\ crashes' = crashes /\ tick' = tick
    BY <1>5 DEF EnqueueDirect, Inserted
  <2>2. /\ \A j \in Approvals : job'[j].status = "none" <=> job[j].status = "none"
        /\ \A j \in Jobs : job[j].status # "none" => job'[j].status # "none"
    BY <1>1, <2>1, JobsAssumption DEF JobRow
  <2>3. \A u \in Ticks : InHand(u)' = InHand(u)
    BY <2>1 DEF InHand
  <2> QED
    BY <1>1, <2>1, <2>2, <2>3, ApprovalKept
<1>6. ASSUME NEW k \in Jobs, Overdue(k) PROVE ApprovalInv'
  <2>1. /\ job' = [job EXCEPT ![k].overdue = TRUE]
        /\ approval' = approval /\ request' = request /\ crashes' = crashes /\ tick' = tick
    BY <1>6 DEF Overdue
  <2>2. \A j \in Jobs : job'[j].status = job[j].status
    BY <1>1, <2>1 DEF JobRow
  <2>3. \A u \in Ticks : InHand(u)' = InHand(u)
    BY <2>1 DEF InHand
  <2> QED
    BY <1>1, <2>1, <2>2, <2>3, ApprovalKept
<1>7. CASE UNCHANGED <<approval, request, job, tick, crashes>>
  <2>1. \A u \in Ticks : InHand(u)' = InHand(u)
    BY <1>7 DEF InHand
  <2> QED
    BY <1>1, <1>7, <2>1, ApprovalKept
<1> QED
  BY <1>2, <1>3, <1>4, <1>5, <1>6, <1>7, StepKinds, ActsType
     DEF Asks, vars, BreakerCloses, RuleRecovers

\* Whichever requests approve and reject a held action at once, and whenever it expires,
\* its job is queued only for the approval that stands.
THEOREM HeldActionsNeedApproval == Spec => []OnlyApprovedRuns
<1>1. ApprovalInv => OnlyApprovedRuns
  BY DEF ApprovalInv
<1> QED
  BY <1>1, InitType, NextType, InitApproval, NextApproval, PTL DEF Spec

\* An approved action is lost only by a crash.
THEOREM ApprovedActionsAreQueued == Spec => []ApprovedIsQueued
<1>1. ApprovalInv => ApprovedIsQueued
  BY DEF ApprovalInv
<1> QED
  BY <1>1, InitType, NextType, InitApproval, NextApproval, PTL DEF Spec

\* The four columns the gate reads: a step that leaves the decisions and what is
\* queued alone, and takes effect at most for one job that is queued.
LEMMA GateQuiet ==
  ASSUME approval' = approval, \A a \in Approvals : job'[a].status = "none" <=> job[a].status = "none",
         effects \in [Jobs -> Nat],
         \/ effects' = effects
         \/ \E j \in Jobs : job[j].status # "none" /\ effects' = [effects EXCEPT ![j] = @ + 1]
  PROVE  Gate!Next \/ UNCHANGED Gate!vars
<1> DEFINE queued == {a \in Approvals : job[a].status # "none"}
<1>1. queued' = queued
  OBVIOUS
<1>2. CASE effects' = effects
  BY <1>1, <1>2 DEF Gate!vars
<1>3. ASSUME NEW j \in Jobs, job[j].status # "none", effects' = [effects EXCEPT ![j] = @ + 1]
      PROVE  Gate!Next \/ UNCHANGED Gate!vars
  <2>1. CASE j \in Approvals
    <3>1. [a \in Approvals |-> effects'[a]]
            = [[a \in Approvals |-> effects[a]] EXCEPT ![j] = effects[j] + 1]
      BY <1>3, <2>1 DEF Jobs
    <3>2. [a \in Approvals |-> effects[a]][j] = effects[j]
      BY <2>1
    <3>3. Gate!TakeEffect(j)
      BY <1>1, <1>3, <2>1, <3>1, <3>2 DEF Gate!TakeEffect
    <3> QED
      BY <2>1, <3>3 DEF Gate!Next
  <2>2. CASE j \notin Approvals
    <3>1. \A a \in Approvals : effects'[a] = effects[a]
      BY <1>3, <2>2 DEF Jobs
    <3> QED
      BY <1>1, <3>1 DEF Gate!vars
  <2> QED
    BY <2>1, <2>2
<1> QED
  BY <1>2, <1>3

\* A step that decides one approval, if it is pending still.
LEMMA GateDecides ==
  ASSUME approval \in [Approvals -> Verdicts \cup {"pending", "expired"}],
         job' = job, effects' = effects,
         NEW a \in Approvals, NEW status \in Verdicts \cup {"expired"}, approval[a] = "pending",
         approval' = [approval EXCEPT ![a] = status]
  PROVE  Gate!Next
<1>1. [b \in Approvals |-> DecisionOf(approval'[b])]
        = [[b \in Approvals |-> DecisionOf(approval[b])] EXCEPT ![a] = DecisionOf(status)]
  OBVIOUS
<1>2. DecisionOf(approval[a]) = "open" /\ DecisionOf(status) \in {"granted", "refused"}
  BY DEF DecisionOf, Verdicts
<1>3. Gate!Decide(a, DecisionOf(status))
  BY <1>1, <1>2 DEF Gate!Decide
<1> QED
  BY <1>2, <1>3 DEF Gate!Next

\* The step that queues an approved action, or finds it queued.
LEMMA GateQueues ==
  ASSUME job \in [Jobs -> JobRow], approval' = approval, effects' = effects,
         NEW a \in Approvals, approval[a] = "approved", job' = Inserted(a)
  PROVE  Gate!Next \/ UNCHANGED Gate!vars
<1> DEFINE queued == {b \in Approvals : job[b].status # "none"}
<1>1. CASE job[a].status # "none"
  BY <1>1 DEF Inserted, Gate!vars
<1>2. CASE job[a].status = "none"
  <2>1. job' = [job EXCEPT ![a].status = "queued"] /\ a \in Jobs
    BY <1>2 DEF Inserted, Jobs
  <2>2. job'[a].status = "queued" /\ \A b \in Approvals : b # a => job'[b] = job[b]
    BY <2>1 DEF JobRow, Jobs
  <2>3. queued' = queued \cup {a} /\ a \notin queued
    BY <1>2, <2>2
  <2>4. Gate!Queue(a)
    BY <2>3 DEF Gate!Queue, DecisionOf
  <2> QED
    BY <2>4 DEF Gate!Next
<1> QED
  BY <1>1, <1>2

LEMMA NextHolds ==
  ASSUME TypeOK, ApprovalInv, [Next]_vars
  PROVE  Gate!Next \/ UNCHANGED Gate!vars
<1>1. /\ effects \in [Jobs -> Nat] /\ job \in [Jobs -> JobRow] /\ Approvals \subseteq Jobs
      /\ approval \in [Approvals -> Verdicts \cup {"pending", "expired"}]
  BY DEF TypeOK, JobRow, Jobs
<1>2. ASSUME NEW t \in Ticks, Stays(t) \/ Turns(t) \/ Drops(t)
      PROVE  Gate!Next \/ UNCHANGED Gate!vars
  <2>1. \A j \in InHand(t) : job[j].status # "none"
    BY DEF ApprovalInv
  <2>2. \A a \in Approvals : job'[a].status = "none" <=> job[a].status = "none"
    BY <1>1, <1>2, <2>1, TickJobs
  <2>3. approval' = approval
    BY <1>2, TickColumns
  <2>4. CASE Succeed(t)
    <3>1. /\ tick[t].row.id \in InHand(t) /\ tick[t].row.id \in Jobs
          /\ effects' = [effects EXCEPT ![tick[t].row.id] = @ + 1]
      BY <2>4, TickType DEF Succeed, InHand
    <3> QED
      BY <1>1, <2>1, <2>2, <2>3, <3>1, GateQuiet
  <2>5. CASE ~Succeed(t)
    <3>1. effects' = effects
      BY <1>2, <2>5
         DEF Stays, Turns, Drops, Reap, GiveUp, Begin, SaveSuccess, Fail, FinalizeThrows,
             SaveFailure, ReadStreak, Release, SaveRetry, ResetConnection, WriteStreak,
             NothingDue, Crash
    <3> QED
      BY <1>1, <2>2, <2>3, <3>1, GateQuiet
  <2> QED
    BY <2>4, <2>5
<1>3. ASSUME NEW t \in Ticks, NEW batch \in SUBSET Queued, ClaimBatch(t, batch)
      PROVE  Gate!Next \/ UNCHANGED Gate!vars
  <2>1. /\ job' = [j \in Jobs |-> IF j \in batch THEN [job[j] EXCEPT !.status = "running"] ELSE job[j]]
        /\ approval' = approval /\ effects' = effects
    BY <1>3 DEF ClaimBatch
  <2>2. \A j \in batch : j \in Jobs /\ job[j].status = "queued" /\ job'[j].status # "none"
    BY <1>1, <2>1 DEF Queued, JobRow
  <2>3. \A a \in Approvals : job'[a].status = "none" <=> job[a].status = "none"
    BY <1>1, <2>1, <2>2
  <2> QED
    BY <1>1, <2>1, <2>3, GateQuiet
<1>4. ASSUME NEW a \in Approvals, Expire(a) PROVE Gate!Next
  BY <1>1, <1>4, GateDecides DEF Expire
<1>5. ASSUME NEW r \in Requests, Decide(r) PROVE Gate!Next \/ UNCHANGED Gate!vars
  <2> DEFINE q == request[r]
  <2>1. q.id \in Approvals /\ q.verdict \in Verdicts
    BY <1>5 DEF Decide, ApprovalInv, TypeOK
  <2>2. job' = job /\ effects' = effects
    BY <1>5 DEF Decide
  <2>3. CASE Wins(q)
    <3>1. approval[q.id] = "pending" /\ approval' = [approval EXCEPT ![q.id] = q.verdict]
      BY <1>5, <2>3 DEF Decide, Wins
    <3> QED
      BY <1>1, <2>1, <2>2, <3>1, GateDecides
  <2>4. CASE ~Wins(q)
    BY <1>1, <1>5, <2>2, <2>4, GateQuiet DEF Decide
  <2> QED
    BY <2>3, <2>4
<1>6. ASSUME NEW r \in Requests, EnqueueApproved(r) PROVE Gate!Next \/ UNCHANGED Gate!vars
  <2>1. /\ request[r].id \in Approvals /\ approval[request[r].id] = "approved"
        /\ job' = Inserted(request[r].id) /\ approval' = approval /\ effects' = effects
    BY <1>6 DEF EnqueueApproved, ApprovalInv
  <2> QED
    BY <1>1, <2>1, GateQueues
<1>7. ASSUME NEW x \in Runs, NEW d \in Direct, EnqueueDirect(x, d)
      PROVE  Gate!Next \/ UNCHANGED Gate!vars
  <2>1. /\ job' = [job EXCEPT ![d].status = "queued"]
        /\ approval' = approval /\ effects' = effects
    BY <1>7 DEF EnqueueDirect, Inserted
  <2>2. \A a \in Approvals : job'[a] = job[a]
    BY <1>1, <2>1, JobsAssumption
  <2> QED
    BY <1>1, <2>1, <2>2, GateQuiet
<1>8. ASSUME NEW k \in Jobs, Overdue(k) PROVE Gate!Next \/ UNCHANGED Gate!vars
  <2>1. /\ job' = [job EXCEPT ![k].overdue = TRUE]
        /\ approval' = approval /\ effects' = effects
    BY <1>8 DEF Overdue
  <2>2. \A a \in Approvals : job'[a].status = job[a].status
    BY <1>1, <2>1 DEF JobRow
  <2> QED
    BY <1>1, <2>1, <2>2, GateQuiet
<1>9. CASE UNCHANGED <<approval, job, effects>>
  BY <1>1, <1>9, GateQuiet
<1> QED
  BY <1>2, <1>3, <1>4, <1>5, <1>6, <1>7, <1>8, <1>9, StepKinds, ActsType
     DEF vars, Ask, RequestDies, BreakerCloses, RuleRecovers

\* For every number of approvals, requests, jobs and workers: a held action is decided
\* once and for all, queued at most once and only when approved, and takes effect only
\* from the queue.
THEOREM JobsHoldActions == Spec => HoldsActions
<1>1. Init => Gate!Init
  <2> SUFFICES ASSUME Init PROVE Gate!Init
    OBVIOUS
  <2> QED
    BY DEF Init, Gate!Init, DecisionOf, Jobs
<1>2. TypeOK /\ ApprovalInv /\ [Next]_vars => [Gate!Next]_(Gate!vars)
  BY NextHolds
<1> QED
  BY <1>1, <1>2, InitType, NextType, InitApproval, NextApproval, PTL
     DEF Spec, HoldsActions, Gate!Spec

(***************************************************************************)
(* The failure streak of the rule.                                         *)
(***************************************************************************)

\* The failures that are not yet counted, because their tick or their run has still to
\* write them.
Pending == {u \in Ticks : tick[u].at \in {"readStreak", "writeStreak"}}
Writing == {x \in Runs : run[x].at = "failed"}
Uncounted == Cardinality(Pending) + Cardinality(Writing)

\* A streak, in the rule or in the hand of a tick or a run, leaves room for those.
StreakInv ==
  /\ rule.streak + Uncounted <= failures
  /\ \A t \in Ticks : tick[t].at = "writeStreak" => tick[t].streak + Uncounted <= failures
  /\ \A x \in Runs : run[x].at \in {"acting", "failed"} => run[x].streak + Uncounted <= failures
  /\ ~rule.enabled => failures >= MaxFailures

\* Two sets of ticks, or of runs, that differ in one.
LEMMA CountMoves ==
  ASSUME NEW D, IsFiniteSet(D), NEW t \in D, NEW S \in SUBSET D, NEW T \in SUBSET D,
         S \ {t} = T \ {t}
  PROVE  /\ Cardinality(S) \in Nat /\ Cardinality(T) \in Nat
         /\ (t \in S <=> t \in T) => Cardinality(T) = Cardinality(S)
         /\ t \in S /\ t \notin T => Cardinality(T) = Cardinality(S) - 1
         /\ t \notin S /\ t \in T => Cardinality(T) = Cardinality(S) + 1
<1>1. IsFiniteSet(S) /\ IsFiniteSet(T)
  BY FS_Subset
<1>2. Cardinality(S) \in Nat /\ Cardinality(T) \in Nat
  BY <1>1, FS_CardinalityType
<1>3. /\ t \in S => Cardinality(S \ {t}) = Cardinality(S) - 1
      /\ t \notin S => Cardinality(S \cup {t}) = Cardinality(S) + 1
  BY <1>1, FS_AddElement, FS_RemoveElement
<1>4. /\ (t \in S <=> t \in T) => T = S
      /\ t \in S /\ t \notin T => T = S \ {t}
      /\ t \notin S /\ t \in T => T = S \cup {t}
  OBVIOUS
<1> QED
  BY <1>2, <1>3, <1>4

LEMMA UncountedType ==
  /\ Cardinality(Pending) \in Nat /\ Cardinality(Writing) \in Nat /\ Uncounted \in Nat
<1>1. Pending \subseteq Ticks /\ Writing \subseteq Runs
  BY DEF Pending, Writing
<1>2. Cardinality(Pending) \in Nat /\ Cardinality(Writing) \in Nat
  BY <1>1, TicksAssumption, RunsAssumption, FS_Subset, FS_CardinalityType
<1> QED
  BY <1>2 DEF Uncounted

LEMMA InitStreak == Init => StreakInv
<1> SUFFICES ASSUME Init PROVE StreakInv
  OBVIOUS
<1>1. /\ \A u \in Ticks : tick[u].at = "idle"
      /\ \A x \in Runs : run[x].at = "none"
  BY NothingInHand DEF Init, NoRun
<1>2. Pending = {} /\ Writing = {}
  BY <1>1 DEF Pending, Writing
<1>3. Uncounted = 0
  BY <1>2, FS_EmptySet DEF Uncounted
<1> QED
  BY <1>1, <1>3 DEF Init, StreakInv

\* How the count moves with the tick that takes the step.
LEMMA PendingMoves ==
  ASSUME NEW t \in Ticks, \A u \in Ticks : u # t => tick'[u] = tick[u], run' = run
  PROVE  /\ Uncounted \in Nat /\ Uncounted' \in Nat
         /\ (t \in Pending <=> t \in Pending') => Uncounted' = Uncounted
         /\ t \in Pending /\ t \notin Pending' => Uncounted' = Uncounted - 1
         /\ t \notin Pending /\ t \in Pending' => Uncounted' = Uncounted + 1
<1>1. Pending \in SUBSET Ticks /\ Pending' \in SUBSET Ticks /\ Pending \ {t} = Pending' \ {t}
  BY DEF Pending
<1>2. Writing' = Writing /\ Cardinality(Writing) \in Nat
  BY UncountedType DEF Writing
<1>3. /\ Cardinality(Pending) \in Nat /\ Cardinality(Pending') \in Nat
      /\ (t \in Pending <=> t \in Pending') => Cardinality(Pending') = Cardinality(Pending)
      /\ t \in Pending /\ t \notin Pending' => Cardinality(Pending') = Cardinality(Pending) - 1
      /\ t \notin Pending /\ t \in Pending' => Cardinality(Pending') = Cardinality(Pending) + 1
  BY <1>1, CountMoves, TicksAssumption
<1>4. Uncounted' = Cardinality(Pending') + Cardinality(Writing)
  BY <1>2 DEF Uncounted
<1> QED
  BY <1>2, <1>3, <1>4 DEF Uncounted

\* ... and with the run that does.
LEMMA WritingMoves ==
  ASSUME NEW x \in Runs, \A y \in Runs : y # x => run'[y] = run[y], tick' = tick
  PROVE  /\ Uncounted \in Nat /\ Uncounted' \in Nat
         /\ (x \in Writing <=> x \in Writing') => Uncounted' = Uncounted
         /\ x \in Writing /\ x \notin Writing' => Uncounted' = Uncounted - 1
         /\ x \notin Writing /\ x \in Writing' => Uncounted' = Uncounted + 1
<1>1. Writing \in SUBSET Runs /\ Writing' \in SUBSET Runs /\ Writing \ {x} = Writing' \ {x}
  BY DEF Writing
<1>2. Pending' = Pending /\ Cardinality(Pending) \in Nat
  BY UncountedType DEF Pending
<1>3. /\ Cardinality(Writing) \in Nat /\ Cardinality(Writing') \in Nat
      /\ (x \in Writing <=> x \in Writing') => Cardinality(Writing') = Cardinality(Writing)
      /\ x \in Writing /\ x \notin Writing' => Cardinality(Writing') = Cardinality(Writing) - 1
      /\ x \notin Writing /\ x \in Writing' => Cardinality(Writing') = Cardinality(Writing) + 1
  BY <1>1, CountMoves, RunsAssumption
<1>4. Uncounted' = Cardinality(Pending) + Cardinality(Writing')
  BY <1>2 DEF Uncounted
<1> QED
  BY <1>2, <1>3, <1>4 DEF Uncounted

LEMMA StreakTick ==
  ASSUME TypeOK, StreakInv, NEW t \in Ticks, Stays(t) \/ Turns(t) \/ Drops(t)
  PROVE  StreakInv'
<1>1. /\ \A u \in Ticks : u # t => tick'[u] = tick[u]
      /\ tick' \in [Ticks -> Pass] /\ run' = run
  BY StaysType, TurnType, DropsType, TickColumns
     DEF Turns, Release, ResetConnection, SaveRetry, WriteStreak
<1>2. /\ tick[t] \in Pass /\ tick \in [Ticks -> Pass] /\ rule \in [enabled : BOOLEAN, streak : Nat]
      /\ failures \in Nat /\ tick[t].streak \in Nat
      /\ \A u \in Ticks : tick[u].streak \in Nat
      /\ \A x \in Runs : run[x].streak \in Nat
      /\ MaxFailures \in Nat
  BY TickType, LimitsAssumption DEF TypeOK
<1> DEFINE n == Uncounted
           m == Uncounted'
<1>3. /\ n \in Nat /\ m \in Nat
      /\ (t \in Pending <=> t \in Pending') => m = n
      /\ t \in Pending /\ t \notin Pending' => m = n - 1
      /\ t \notin Pending /\ t \in Pending' => m = n + 1
  BY <1>1, PendingMoves
<1>4. /\ t \in Pending <=> tick[t].at \in {"readStreak", "writeStreak"}
      /\ t \in Pending' <=> tick'[t].at \in {"readStreak", "writeStreak"}
  BY DEF Pending
<1>5. /\ rule.streak + n <= failures
      /\ \A u \in Ticks : tick[u].at = "writeStreak" => tick[u].streak + n <= failures
      /\ \A x \in Runs : run[x].at \in {"acting", "failed"} => run[x].streak + n <= failures
      /\ ~rule.enabled => failures >= MaxFailures
  BY DEF StreakInv
<1>6. SUFFICES /\ rule'.streak + m <= failures'
               /\ \A u \in Ticks : tick'[u].at = "writeStreak" => tick'[u].streak + m <= failures'
               /\ \A x \in Runs : run[x].at \in {"acting", "failed"} => run[x].streak + m <= failures'
               /\ ~rule'.enabled => failures' >= MaxFailures
  BY <1>1 DEF StreakInv
<1> HIDE DEF n, m
<1>7. CASE GiveUp(t) \/ SaveFailure(t)
  <2>1. /\ tick[t].at \notin {"readStreak", "writeStreak"} /\ tick'[t].at = "readStreak"
        /\ failures' = failures + 1 /\ rule' = rule
    BY <1>2, <1>7 DEF GiveUp, SaveFailure, Pass
  <2>2. m = n + 1
    BY <1>3, <1>4, <2>1
  <2>3. ASSUME NEW u \in Ticks, tick'[u].at = "writeStreak" PROVE tick'[u].streak + m <= failures'
    <3>1. tick'[u] = tick[u] /\ tick[u].at = "writeStreak"
      BY <1>1, <2>1, <2>3
    <3>2. tick[u].streak + n <= failures
      BY <1>5, <3>1
    <3> QED
      BY <1>2, <1>3, <2>1, <2>2, <3>1, <3>2
  <2> QED
    BY <1>2, <1>3, <1>5, <2>1, <2>2, <2>3
<1>8. CASE ReadStreak(t)
  <2>1. /\ tick[t].at = "readStreak" /\ tick'[t].at = "writeStreak"
        /\ tick'[t].streak = rule.streak /\ failures' = failures /\ rule' = rule
    BY <1>2, <1>8 DEF ReadStreak, Pass
  <2>2. m = n
    BY <1>3, <1>4, <2>1
  <2> QED
    BY <1>1, <1>5, <2>1, <2>2
<1>9. CASE WriteStreak(t)
  <2>1. /\ tick[t].at = "writeStreak" /\ tick'[t].at \in {"gate", "idle"}
        /\ failures' = failures
        /\ rule' = [enabled |-> rule.enabled /\ tick[t].streak + 1 < MaxFailures,
                    streak |-> tick[t].streak + 1]
    BY <1>9, TurnType, NothingInHand DEF WriteStreak, RuleAfter
  <2>2. m = n - 1
    BY <1>3, <1>4, <2>1
  <2>3. tick[t].streak + 1 + m <= failures
    BY <1>2, <1>3, <1>5, <2>1, <2>2
  <2>4. rule'.streak + m <= failures'
    BY <2>1, <2>3
  <2>5. ~rule'.enabled => failures' >= MaxFailures
    BY <1>2, <1>3, <1>5, <2>1, <2>3
  <2>6. ASSUME NEW u \in Ticks, tick'[u].at = "writeStreak" PROVE tick'[u].streak + m <= failures'
    <3>1. tick'[u] = tick[u] /\ tick[u].at = "writeStreak"
      BY <1>1, <2>1, <2>6
    <3>2. tick[u].streak + n <= failures
      BY <1>5, <3>1
    <3> QED
      BY <1>2, <1>3, <2>1, <2>2, <3>1, <3>2
  <2>7. ASSUME NEW x \in Runs, run[x].at \in {"acting", "failed"}
        PROVE  run[x].streak + m <= failures'
    <3>1. run[x].streak + n <= failures
      BY <1>5, <2>7
    <3> QED
      BY <1>2, <1>3, <2>1, <2>2, <3>1
  <2> QED
    BY <2>4, <2>5, <2>6, <2>7
<1>10. CASE ~(GiveUp(t) \/ SaveFailure(t) \/ ReadStreak(t) \/ WriteStreak(t))
  <2>1. tick'[t].at \notin {"readStreak", "writeStreak"}
    <3>1. CASE Stays(t)
      <4>1. \E at \in Places \ {"readStreak", "writeStreak"} : tick'[t].at = at
        BY <1>2, <1>10, <3>1
           DEF Stays, Reap, Begin, Succeed, SaveSuccess, Fail, FinalizeThrows, Pass, Places
      <4> QED
        BY <4>1
    <3>2. CASE Turns(t)
      BY <3>2, TurnType, NothingInHand DEF Turns, Release, ResetConnection, SaveRetry, WriteStreak
    <3>3. CASE Drops(t)
      BY <3>3, DropsType, NothingInHand
    <3> QED
      BY <3>1, <3>2, <3>3
  <2>2. failures' = failures /\ rule' = rule
    BY <1>10 DEF Stays, Turns, Drops, Reap, Begin, Succeed, SaveSuccess, Fail, FinalizeThrows,
         Release, SaveRetry, ResetConnection, NothingDue, Crash
  <2>3. m <= n
    BY <1>3, <1>4, <2>1
  <2>4. ASSUME NEW u \in Ticks, tick'[u].at = "writeStreak" PROVE tick'[u].streak + m <= failures'
    <3>1. tick'[u] = tick[u] /\ tick[u].at = "writeStreak"
      BY <1>1, <2>1, <2>4
    <3>2. tick[u].streak + n <= failures
      BY <1>5, <3>1
    <3> QED
      BY <1>2, <1>3, <2>2, <2>3, <3>1, <3>2
  <2> QED
    BY <1>2, <1>3, <1>5, <2>2, <2>3, <2>4
<1> QED
  BY <1>7, <1>8, <1>9, <1>10

LEMMA StreakRun ==
  ASSUME TypeOK, StreakInv, NEW x \in Runs, Acts(x)
  PROVE  StreakInv'
<1>1. /\ tick' = tick /\ run \in [Runs -> RunRow]
      /\ rule \in [enabled : BOOLEAN, streak : Nat] /\ failures \in Nat
      /\ \A t \in Ticks : tick[t].streak \in Nat
      /\ MaxFailures \in Nat
  BY ActsType, TickType, LimitsAssumption DEF TypeOK, RunRow
<1>2. \A y \in Runs : run[y].streak \in Nat
  BY <1>1 DEF RunRow
<1>3. \E r \in RunRow \cup {RunOver} : run' = [run EXCEPT ![x] = r]
  <2>1. \A at \in {"acting", "failed"} : [at |-> at, streak |-> rule.streak] \in RunRow
    BY <1>1 DEF RunRow
  <2> QED
    BY <1>1, <2>1 DEF Acts, RunStarts, RunSucceeds, RunFails, HookFails, HookWrites
<1>4. \A y \in Runs : y # x => run'[y] = run[y]
  BY <1>1, <1>3
<1> DEFINE n == Uncounted
           m == Uncounted'
<1>5. /\ n \in Nat /\ m \in Nat
      /\ (x \in Writing <=> x \in Writing') => m = n
      /\ x \in Writing /\ x \notin Writing' => m = n - 1
      /\ x \notin Writing /\ x \in Writing' => m = n + 1
  BY <1>1, <1>4, WritingMoves
<1>6. /\ x \in Writing <=> run[x].at = "failed"
      /\ x \in Writing' <=> run'[x].at = "failed"
  BY DEF Writing
<1>7. /\ rule.streak + n <= failures
      /\ \A t \in Ticks : tick[t].at = "writeStreak" => tick[t].streak + n <= failures
      /\ \A y \in Runs : run[y].at \in {"acting", "failed"} => run[y].streak + n <= failures
      /\ ~rule.enabled => failures >= MaxFailures
  BY DEF StreakInv
<1>8. SUFFICES /\ rule'.streak + m <= failures'
               /\ \A t \in Ticks : tick[t].at = "writeStreak" => tick[t].streak + m <= failures'
               /\ \A y \in Runs :
                    run'[y].at \in {"acting", "failed"} => run'[y].streak + m <= failures'
               /\ ~rule'.enabled => failures' >= MaxFailures
  BY <1>1 DEF StreakInv
<1> HIDE DEF n, m
<1>9. CASE RunStarts(x)
  <2>1. /\ run[x].at = "none" /\ run'[x] = [at |-> "acting", streak |-> rule.streak]
        /\ rule' = rule /\ failures' = failures
    BY <1>1, <1>9 DEF RunStarts
  <2>2. m = n
    BY <1>5, <1>6, <2>1
  <2> QED
    BY <1>4, <1>7, <2>1, <2>2
<1>10. CASE RunSucceeds(x)
  <2>1. /\ run[x].at = "acting" /\ run'[x].at = "over" /\ failures' = failures
        /\ rule'.streak = 0 /\ rule'.enabled = rule.enabled
    BY <1>1, <1>10 DEF RunSucceeds, RunOver
  <2>2. m = n
    BY <1>5, <1>6, <2>1
  <2>3. rule'.streak + m <= failures'
    BY <1>1, <1>5, <1>7, <2>1, <2>2
  <2> QED
    BY <1>4, <1>7, <2>1, <2>2, <2>3
<1>11. CASE RunFails(x)
  <2>1. /\ run[x].at = "acting" /\ run'[x].at = "over" /\ failures' = failures + 1
        /\ rule'.streak = run[x].streak + 1
        /\ rule'.enabled = (rule.enabled /\ run[x].streak + 1 < MaxFailures)
    BY <1>1, <1>11 DEF RunFails, RunOver, RuleAfter
  <2>2. m = n
    BY <1>5, <1>6, <2>1
  <2>3. run[x].streak + n <= failures
    BY <1>7, <2>1
  <2>4. rule'.streak + m <= failures' /\ (~rule'.enabled => failures' >= MaxFailures)
    BY <1>1, <1>2, <1>5, <1>7, <2>1, <2>2, <2>3
  <2>5. \A k \in Nat : k + n <= failures => k + m <= failures'
    BY <1>1, <1>5, <2>1, <2>2
  <2> QED
    BY <1>1, <1>2, <1>4, <1>7, <2>1, <2>4, <2>5
<1>12. CASE HookFails(x)
  <2>1. /\ run[x].at = "acting" /\ run'[x] = [at |-> "failed", streak |-> rule.streak]
        /\ failures' = failures + 1 /\ rule' = rule
    BY <1>1, <1>12 DEF HookFails
  <2>2. m = n + 1
    BY <1>5, <1>6, <2>1
  <2>3. \A k \in Nat : k + n <= failures => k + m <= failures'
    BY <1>1, <1>5, <2>1, <2>2
  <2>4. ~rule'.enabled => failures' >= MaxFailures
    BY <1>1, <1>7, <2>1
  <2> QED
    BY <1>1, <1>2, <1>4, <1>7, <2>1, <2>3, <2>4
<1>13. CASE HookWrites(x)
  <2>1. /\ run[x].at = "failed" /\ run'[x].at = "over" /\ failures' = failures
        /\ rule'.streak = run[x].streak + 1
        /\ rule'.enabled = (rule.enabled /\ run[x].streak + 1 < MaxFailures)
    BY <1>1, <1>13 DEF HookWrites, RunOver, RuleAfter
  <2>2. m = n - 1
    BY <1>5, <1>6, <2>1
  <2>3. run[x].streak + n <= failures
    BY <1>7, <2>1
  <2>4. rule'.streak + m <= failures' /\ (~rule'.enabled => failures' >= MaxFailures)
    BY <1>1, <1>2, <1>5, <1>7, <2>1, <2>2, <2>3
  <2>5. \A k \in Nat : k + n <= failures => k + m <= failures'
    BY <1>1, <1>5, <2>1, <2>2
  <2> QED
    BY <1>1, <1>2, <1>4, <1>7, <2>1, <2>4, <2>5
<1> QED
  BY <1>9, <1>10, <1>11, <1>12, <1>13 DEF Acts

LEMMA NextStreak == TypeOK /\ StreakInv /\ [Next]_vars => StreakInv'
<1> SUFFICES ASSUME TypeOK, StreakInv, [Next]_vars PROVE StreakInv'
  OBVIOUS
<1>1. ASSUME NEW t \in Ticks, Stays(t) \/ Turns(t) \/ Drops(t) PROVE StreakInv'
  BY <1>1, StreakTick
<1>2. ASSUME NEW t \in Ticks, NEW batch \in SUBSET Queued, ClaimBatch(t, batch)
      PROVE  StreakInv'
  <2>1. /\ tick[t].at = "claim" /\ tick'[t].at = "gate"
        /\ rule' = rule /\ run' = run /\ failures' = failures
        /\ \A u \in Ticks : u # t => tick'[u] = tick[u]
    BY <1>2, ClaimType DEF ClaimBatch
  <2>2. Pending' = Pending /\ Writing' = Writing
    BY <2>1 DEF Pending, Writing
  <2>3. Uncounted' = Uncounted
    BY <2>2 DEF Uncounted
  <2> QED
    BY <2>1, <2>3 DEF StreakInv
<1>3. CASE UNCHANGED <<tick, run, failures>> /\ rule' = rule
  BY <1>3 DEF StreakInv, Uncounted, Pending, Writing
<1>4. CASE RuleRecovers
  <2>1. tick' = tick /\ run' = run /\ failures' = failures /\ Uncounted' = Uncounted
    BY <1>4 DEF RuleRecovers, Uncounted, Pending, Writing
  <2>2. rule'.streak = 0 /\ (~rule'.enabled => ~rule.enabled)
    BY <1>4 DEF RuleRecovers, TypeOK
  <2>3. Uncounted \in Nat
    BY UncountedType
  <2>4. rule.streak \in Nat /\ failures \in Nat
    BY DEF TypeOK
  <2>5. rule'.streak + Uncounted <= failures
    BY <2>2, <2>3, <2>4 DEF StreakInv
  <2> QED
    BY <2>1, <2>2, <2>5 DEF StreakInv
<1>5. ASSUME NEW x \in Runs, Acts(x) PROVE StreakInv'
  BY <1>5, StreakRun
<1> QED
  BY <1>1, <1>2, <1>3, <1>4, <1>5, StepKinds
     DEF vars, Expire, Ask, Decide, EnqueueApproved, RequestDies, EnqueueDirect, Overdue,
         BreakerCloses

\* However runs that fail or succeed, jobs that fail for good and people write over each
\* other's streak, a rule is disabled only when MaxFailures runs and jobs have failed.
THEOREM DisabledOnlyWhenEarned == Spec => []StreakIsEarned
<1>1. TypeOK /\ StreakInv => StreakIsEarned
  <2> SUFFICES ASSUME TypeOK, StreakInv PROVE StreakIsEarned
    OBVIOUS
  <2>1. Uncounted \in Nat
    BY UncountedType
  <2> QED
    BY <2>1 DEF StreakInv, StreakIsEarned, TypeOK
<1> QED
  BY <1>1, InitType, NextType, InitStreak, NextStreak, PTL DEF Spec

(***************************************************************************)
(* How often an action may still be carried out, and attempted.            *)
(***************************************************************************)

\* The job is in the batch of the tick, still to come.
Ahead(p, j) == \E r \in p.rest : r.id = j

\* The tick has yet to write the outcome of the job; it may still have it succeed, or put
\* it back; and it may still have it attempted.
Active(p, j) == Ahead(p, j) \/ (p.row.id = j /\ p.at \in {"gate", "call", "succeeded", "retry", "fail"})
Owes(p, j) == Ahead(p, j) \/ (p.row.id = j /\ p.at \in {"gate", "call", "retry"})
Tries(p, j) ==
  \/ Ahead(p, j)
  \/ p.row.id = j /\ \/ p.at = "gate"
                     \/ p.at \in {"call", "retry"} /\ p.row.attempts < MaxAttempts

\* Whether a tick that nobody disturbs may still claim the job.
Loose(j) ==
  \/ job[j].status \in {"none", "queued"}
  \/ /\ job[j].status = "running"
     /\ job[j].overdue \/ \A u \in Ticks : ~Active(tick[u], j)
Spare(j) == IF Loose(j) THEN 1 ELSE 0

Debt(j) == Cardinality({u \in Ticks : Owes(tick[u], j)})
Room(j) == Cardinality({u \in Ticks : Tries(tick[u], j)})

\* A job is in a batch once, and one that waits in the queue is not overdue.
BatchInv(p) ==
  /\ p.at \in {"idle", "claim"} => p.rest = {}
  /\ p.at \notin {"idle", "claim"} => \A r \in p.rest : r.id # p.row.id
  /\ \A q, r \in p.rest : q.id = r.id => q = r

HandInv ==
  /\ \A t \in Ticks : BatchInv(tick[t])
  /\ \A j \in Jobs : job[j].status \in {"none", "queued"} => ~job[j].overdue

\* The sums that no step raises by more than it costs.
OwedInv == \A j \in Jobs : effects[j] + Debt(j) + Spare(j) <= 1 + crashes + late

LEMMA Counts ==
  ASSUME NEW j
  PROVE  /\ Debt(j) \in Nat /\ Room(j) \in Nat /\ Room(j) <= Debt(j)
         /\ Spare(j) \in {0, 1} /\ (Spare(j) = 1 <=> Loose(j))
<1> DEFINE D == {u \in Ticks : Owes(tick[u], j)}
           R == {u \in Ticks : Tries(tick[u], j)}
<1>1. R \subseteq D
  BY DEF Owes, Tries
<1>2. IsFiniteSet(D) /\ IsFiniteSet(R)
  BY TicksAssumption, FS_Subset
<1>3. Cardinality(D) \in Nat /\ Cardinality(R) \in Nat /\ Cardinality(R) <= Cardinality(D)
  BY <1>1, <1>2, FS_CardinalityType, FS_Subset
<1> QED
  BY <1>3 DEF Debt, Room, Spare

\* A step of one tick moves each count by that tick alone.
LEMMA DebtMoves ==
  ASSUME NEW t \in Ticks, NEW j, \A u \in Ticks : u # t => tick'[u] = tick[u]
  PROVE  /\ Debt(j) \in Nat /\ Debt(j)' \in Nat
         /\ (Owes(tick[t], j) <=> Owes(tick'[t], j)) => Debt(j)' = Debt(j)
         /\ Owes(tick[t], j) /\ ~Owes(tick'[t], j) => Debt(j)' = Debt(j) - 1
         /\ ~Owes(tick[t], j) /\ Owes(tick'[t], j) => Debt(j)' = Debt(j) + 1
<1> DEFINE S == {u \in Ticks : Owes(tick[u], j)}
           T == {u \in Ticks : Owes(tick'[u], j)}
<1>1. /\ S \in SUBSET Ticks /\ T \in SUBSET Ticks /\ S \ {t} = T \ {t}
      /\ t \in S <=> Owes(tick[t], j)
      /\ t \in T <=> Owes(tick'[t], j)
  OBVIOUS
<1>2. Debt(j) = Cardinality(S) /\ Debt(j)' = Cardinality(T)
  BY DEF Debt, Owes, Ahead
<1> HIDE DEF S, T
<1> QED
  BY <1>1, <1>2, CountMoves, TicksAssumption

LEMMA RoomMoves ==
  ASSUME NEW t \in Ticks, NEW j, \A u \in Ticks : u # t => tick'[u] = tick[u]
  PROVE  /\ Room(j) \in Nat /\ Room(j)' \in Nat
         /\ (Tries(tick[t], j) <=> Tries(tick'[t], j)) => Room(j)' = Room(j)
         /\ Tries(tick[t], j) /\ ~Tries(tick'[t], j) => Room(j)' = Room(j) - 1
         /\ ~Tries(tick[t], j) /\ Tries(tick'[t], j) => Room(j)' = Room(j) + 1
<1> DEFINE S == {u \in Ticks : Tries(tick[u], j)}
           T == {u \in Ticks : Tries(tick'[u], j)}
<1>1. /\ S \in SUBSET Ticks /\ T \in SUBSET Ticks /\ S \ {t} = T \ {t}
      /\ t \in S <=> Tries(tick[t], j)
      /\ t \in T <=> Tries(tick'[t], j)
  OBVIOUS
<1>2. Room(j) = Cardinality(S) /\ Room(j)' = Cardinality(T)
  BY DEF Room, Tries, Ahead
<1> HIDE DEF S, T
<1> QED
  BY <1>1, <1>2, CountMoves, TicksAssumption

\* What a step may do to the sums of a job, given what it costs.
Afford(j) ==
  /\ effects'[j] + Debt(j)' + Spare(j)' + crashes + late
       <= effects[j] + Debt(j) + Spare(j) + crashes' + late'
  /\ Room(j)' + Spare(j)' + crashes + late <= Room(j) + Spare(j) + crashes' + late'

LEMMA SpareType ==
  ASSUME NEW j
  PROVE  /\ Spare(j) \in {0, 1} /\ Spare(j)' \in {0, 1}
         /\ (Loose(j)' => Loose(j)) => Spare(j)' <= Spare(j)
BY DEF Spare

\* The four ways a step of a tick keeps to what it costs: it takes nothing on; it puts the
\* job back; the executor succeeds; the tick dies.
LEMMA TickAffords ==
  ASSUME TypeOK, TypeOK', NEW t \in Ticks, NEW j \in Jobs,
         \A u \in Ticks : u # t => tick'[u] = tick[u],
         late' = late, NEW k \in {0, 1}, crashes' = crashes + k,
         \/ /\ Loose(j)' => Loose(j)
            /\ Owes(tick'[t], j) => Owes(tick[t], j) \/ k = 1
            /\ Tries(tick'[t], j) => Tries(tick[t], j) \/ k = 1
            /\ effects'[j] = effects[j]
         \/ /\ Owes(tick[t], j) /\ ~Owes(tick'[t], j)
            /\ Tries(tick[t], j) /\ ~Tries(tick'[t], j)
            /\ effects'[j] = effects[j]
         \/ /\ Loose(j)' => Loose(j)
            /\ Owes(tick[t], j) /\ ~Owes(tick'[t], j) /\ ~Tries(tick'[t], j)
            /\ effects'[j] = effects[j] + 1
         \/ k = 1 /\ ~Owes(tick'[t], j) /\ ~Tries(tick'[t], j) /\ effects'[j] = effects[j]
  PROVE  Afford(j)
<1>1. /\ effects[j] \in Nat /\ effects'[j] \in Nat /\ late \in Nat /\ crashes \in Nat
  BY DEF TypeOK
<1>2. /\ Spare(j) \in {0, 1} /\ Spare(j)' \in {0, 1}
      /\ (Loose(j)' => Loose(j)) => Spare(j)' <= Spare(j)
  BY SpareType
<1>3. /\ Debt(j) \in Nat /\ Debt(j)' \in Nat
      /\ (Owes(tick[t], j) <=> Owes(tick'[t], j)) => Debt(j)' = Debt(j)
      /\ Owes(tick[t], j) /\ ~Owes(tick'[t], j) => Debt(j)' = Debt(j) - 1
      /\ ~Owes(tick[t], j) /\ Owes(tick'[t], j) => Debt(j)' = Debt(j) + 1
  BY DebtMoves
<1>4. /\ Room(j) \in Nat /\ Room(j)' \in Nat
      /\ (Tries(tick[t], j) <=> Tries(tick'[t], j)) => Room(j)' = Room(j)
      /\ Tries(tick[t], j) /\ ~Tries(tick'[t], j) => Room(j)' = Room(j) - 1
      /\ ~Tries(tick[t], j) /\ Tries(tick'[t], j) => Room(j)' = Room(j) + 1
  BY RoomMoves
<1> QED
  BY <1>1, <1>2, <1>3, <1>4 DEF Afford

\* A job that the step does not write, and that the tick does not drop, is no looser.
LEMMA LooseKept ==
  ASSUME NEW t \in Ticks, NEW j, \A u \in Ticks : u # t => tick'[u] = tick[u],
         job'[j].status = job[j].status, job'[j].overdue = job[j].overdue,
         Active(tick[t], j) => Active(tick'[t], j)
  PROVE  Loose(j)' => Loose(j)
<1>1. ASSUME \A u \in Ticks : ~Active(tick'[u], j) PROVE \A u \in Ticks : ~Active(tick[u], j)
  BY <1>1
<1>2. Loose(j)' <=> \/ job'[j].status \in {"none", "queued"}
                    \/ /\ job'[j].status = "running"
                       /\ job'[j].overdue \/ \A u \in Ticks : ~Active(tick'[u], j)
  BY DEF Loose, Active, Ahead
<1> QED
  BY <1>1, <1>2 DEF Loose

\* A job that has ended is not loose.
LEMMA LooseEnds ==
  ASSUME NEW j, job'[j].status \in Settled
  PROVE  ~Loose(j)'
BY DEF Loose, Settled

LEMMA ReapAffords ==
  ASSUME TypeOK, TypeOK', HandInv, NEW t \in Ticks, Reap(t), NEW j \in Jobs
  PROVE  Afford(j)
<1>1. /\ tick[t].at = "idle" /\ tick'[t].at = "claim" /\ tick[t].rest = {} /\ tick'[t].rest = {}
      /\ \A u \in Ticks : u # t => tick'[u] = tick[u]
  BY StaysType, TickType DEF Stays, Reap, HandInv, BatchInv, Pass
<1>2. /\ ~Active(tick[t], j) /\ ~Owes(tick[t], j) /\ ~Tries(tick[t], j)
      /\ ~Active(tick'[t], j) /\ ~Owes(tick'[t], j) /\ ~Tries(tick'[t], j)
  BY <1>1 DEF Active, Owes, Tries, Ahead
<1>3. /\ job'[j] = ReapedRow(job[j]) /\ effects'[j] = effects[j] /\ late' = late
      /\ crashes' = crashes + 0 /\ job[j] \in JobRow
  BY TickType DEF Reap, TypeOK
<1>4. Loose(j)' => Loose(j)
  <2>1. CASE job[j].status = "running" /\ job[j].overdue
    BY <2>1 DEF Loose
  <2>2. CASE ~(job[j].status = "running" /\ job[j].overdue)
    <3>1. job'[j] = job[j]
      BY <1>3, <2>2 DEF ReapedRow
    <3> QED
      BY <1>1, <1>2, <3>1, LooseKept
  <2> QED
    BY <2>1, <2>2
<1> QED
  BY <1>1, <1>2, <1>3, <1>4, TickAffords

LEMMA StaysAffords ==
  ASSUME TypeOK, TypeOK', HandInv, NEW t \in Ticks, Stays(t), ~Reap(t), NEW j \in Jobs
  PROVE  Afford(j)
<1> DEFINE i == tick[t].row.id
<1>1. /\ tick'[t].rest = tick[t].rest /\ tick'[t].row.id = i
      /\ \A u \in Ticks : u # t => tick'[u] = tick[u]
      /\ i \in Jobs /\ tick[t] \in Pass /\ tick \in [Ticks -> Pass] /\ job \in [Jobs -> JobRow]
      /\ tick[t].row.attempts \in Nat
  BY StaysType, TickType
<1>2. /\ Ahead(tick'[t], j) <=> Ahead(tick[t], j)
      /\ tick[t].at \notin {"idle", "claim"} => ~Ahead(tick[t], i)
  BY <1>1 DEF Ahead, HandInv, BatchInv
<1>3. /\ effects \in [Jobs -> Nat] /\ crashes \in Nat
  BY DEF TypeOK
<1>4. CASE GiveUp(t) \/ SaveFailure(t) \/ SaveSuccess(t)
  <2>1. /\ \E status \in Settled : job' = [job EXCEPT ![i].status = status]
        /\ tick'[t].at \in {"readStreak", "connOk"}
        /\ effects' = effects /\ late' = late /\ crashes' = crashes + 0
    BY <1>1, <1>3, <1>4 DEF GiveUp, SaveFailure, SaveSuccess, Settled, Pass
  <2>2. /\ Owes(tick'[t], j) => Owes(tick[t], j)
        /\ Tries(tick'[t], j) => Tries(tick[t], j)
    BY <1>2, <2>1 DEF Owes, Tries
  <2>3. Loose(j)' => Loose(j)
    <3>1. CASE j = i
      <4>1. job'[j].status \in Settled
        BY <1>1, <2>1, <3>1 DEF JobRow
      <4> QED
        BY <4>1, LooseEnds
    <3>2. CASE j # i
      <4>1. job'[j] = job[j]
        BY <1>1, <2>1, <3>2
      <4>2. Active(tick[t], j) => Active(tick'[t], j)
        BY <1>2, <3>2 DEF Active
      <4> QED
        BY <1>1, <4>1, <4>2, LooseKept
    <3> QED
      BY <3>1, <3>2
  <2> QED
    BY <1>1, <2>1, <2>2, <2>3, TickAffords
<1>5. CASE Begin(t)
  <2>1. /\ tick[t].at = "gate" /\ tick'[t].at = "call"
        /\ job' = [job EXCEPT ![i].attempts = tick[t].row.attempts + 1]
        /\ effects' = effects /\ late' = late /\ crashes' = crashes + 0
    BY <1>1, <1>3, <1>5 DEF Begin, Pass
  <2>2. /\ Owes(tick'[t], j) => Owes(tick[t], j)
        /\ Tries(tick'[t], j) => Tries(tick[t], j)
        /\ Active(tick[t], j) => Active(tick'[t], j)
    BY <1>1, <1>2, <2>1 DEF Owes, Tries, Active
  <2>3. job'[j].status = job[j].status /\ job'[j].overdue = job[j].overdue
    BY <1>1, <2>1 DEF JobRow
  <2> QED
    BY <1>1, <2>1, <2>2, <2>3, LooseKept, TickAffords
<1>6. CASE Succeed(t)
  <2>1. /\ tick[t].at = "call" /\ tick'[t].at = "succeeded"
        /\ effects' = [effects EXCEPT ![i] = @ + 1]
        /\ job' = job /\ late' = late /\ crashes' = crashes + 0
    BY <1>1, <1>3, <1>6 DEF Succeed, Pass
  <2>2. Active(tick[t], j) => Active(tick'[t], j)
    BY <1>1, <1>2, <2>1 DEF Active
  <2>3. Loose(j)' => Loose(j)
    BY <1>1, <2>1, <2>2, LooseKept
  <2>4. CASE j = i
    <3>1. effects'[j] = effects[j] + 1
      BY <1>1, <1>3, <2>1, <2>4
    <3>2. Owes(tick[t], j) /\ ~Owes(tick'[t], j) /\ ~Tries(tick'[t], j)
      BY <1>1, <1>2, <2>1, <2>4 DEF Owes, Tries
    <3> QED
      BY <1>1, <2>1, <2>3, <3>1, <3>2, TickAffords
  <2>5. CASE j # i
    <3>1. effects'[j] = effects[j]
      BY <1>1, <1>3, <2>1, <2>5
    <3>2. (Owes(tick'[t], j) => Owes(tick[t], j)) /\ (Tries(tick'[t], j) => Tries(tick[t], j))
      BY <1>1, <1>2, <2>5 DEF Owes, Tries
    <3> QED
      BY <1>1, <2>1, <2>3, <3>1, <3>2, TickAffords
  <2> QED
    BY <2>4, <2>5
<1>7. CASE \E retryable \in BOOLEAN : Fail(t, retryable)
  <2>1. /\ tick[t].at = "call" /\ tick'[t].at \in {"retry", "fail"} /\ tick'[t].row = tick[t].row
        /\ job' = job /\ effects' = effects /\ late' = late /\ crashes' = crashes + 0
    BY <1>1, <1>3, <1>7 DEF Fail, Pass
  <2>2. /\ Owes(tick'[t], j) => Owes(tick[t], j)
        /\ Tries(tick'[t], j) => Tries(tick[t], j)
        /\ Active(tick[t], j) => Active(tick'[t], j)
    BY <1>1, <1>2, <2>1 DEF Owes, Tries, Active
  <2> QED
    BY <1>1, <2>1, <2>2, LooseKept, TickAffords
<1>8. CASE \E timedOut \in BOOLEAN : FinalizeThrows(t, timedOut)
  <2>1. /\ tick'[t].at \in {"retry", "fail"}
        /\ job' = job /\ effects' = effects /\ late' = late /\ crashes' = crashes + 1
    BY <1>1, <1>3, <1>8 DEF FinalizeThrows, Pass
  <2>2. Active(tick[t], j) => Active(tick'[t], j)
    BY <1>1, <1>2, <2>1 DEF Active
  <2> QED
    BY <1>1, <2>1, <2>2, LooseKept, TickAffords
<1>9. CASE ReadStreak(t)
  <2>1. /\ tick[t].at = "readStreak" /\ tick'[t].at = "writeStreak"
        /\ job' = job /\ effects' = effects /\ late' = late /\ crashes' = crashes + 0
    BY <1>1, <1>3, <1>9 DEF ReadStreak, Pass
  <2>2. /\ Owes(tick'[t], j) => Owes(tick[t], j)
        /\ Tries(tick'[t], j) => Tries(tick[t], j)
        /\ Active(tick[t], j) => Active(tick'[t], j)
    BY <1>1, <1>2, <2>1 DEF Owes, Tries, Active
  <2> QED
    BY <1>1, <2>1, <2>2, LooseKept, TickAffords
<1> QED
  BY <1>4, <1>5, <1>6, <1>7, <1>8, <1>9 DEF Stays

LEMMA TurnsAffords ==
  ASSUME TypeOK, TypeOK', HandInv, NEW t \in Ticks, Turns(t), NEW j \in Jobs
  PROVE  Afford(j)
<1> DEFINE i == tick[t].row.id
<1>1. /\ NextInBatch(t) /\ tick[t].at \in {"gate", "connOk", "retry", "writeStreak"}
      /\ effects' = effects /\ late' = late /\ crashes' = crashes
  BY DEF Turns, Release, ResetConnection, SaveRetry, WriteStreak
<1>2. /\ \A u \in Ticks : u # t => tick'[u] = tick[u]
      /\ i \in Jobs /\ tick[t] \in Pass /\ job \in [Jobs -> JobRow] /\ crashes \in Nat
  BY <1>1, TurnType, TickType DEF TypeOK
<1>3. ~Ahead(tick[t], i)
  BY <1>1 DEF Ahead, HandInv, BatchInv
<1>4. /\ Ahead(tick[t], j) => Active(tick'[t], j) /\ Owes(tick'[t], j) /\ Tries(tick'[t], j)
      /\ Owes(tick'[t], j) => Ahead(tick[t], j)
      /\ Tries(tick'[t], j) => Ahead(tick[t], j)
  <2>1. CASE tick'[t] = NoTick /\ tick[t].rest = {}
    BY <2>1, NothingInHand DEF Active, Owes, Tries, Ahead
  <2>2. CASE \E next \in tick[t].rest :
               /\ tick'[t].at = "gate" /\ tick'[t].row = next
               /\ tick'[t].rest = tick[t].rest \ {next}
    BY <2>2 DEF Active, Owes, Tries, Ahead
  <2> QED
    BY <1>1, <2>1, <2>2, TurnType
<1>5. CASE Release(t) \/ SaveRetry(t)
  <2>1. /\ job' = [job EXCEPT ![i].status = "queued", ![i].overdue = FALSE]
        /\ tick[t].at = "gate" \/ (tick[t].at = "retry" /\ tick[t].row.attempts < MaxAttempts)
    BY <1>5 DEF Release, SaveRetry, RetryLeft
  <2>2. CASE j = i
    <3>1. Owes(tick[t], j) /\ Tries(tick[t], j)
      BY <2>1, <2>2 DEF Owes, Tries
    <3> QED
      BY <1>1, <1>2, <1>3, <1>4, <2>2, <3>1, TickAffords
  <2>3. CASE j # i
    <3>1. job'[j] = job[j]
      BY <1>2, <2>1, <2>3
    <3>2. /\ Active(tick[t], j) => Active(tick'[t], j)
          /\ Owes(tick'[t], j) => Owes(tick[t], j)
          /\ Tries(tick'[t], j) => Tries(tick[t], j)
      BY <1>4, <2>3 DEF Active, Owes, Tries
    <3> QED
      BY <1>1, <1>2, <3>1, <3>2, LooseKept, TickAffords
  <2> QED
    BY <2>2, <2>3
<1>6. CASE ResetConnection(t) \/ WriteStreak(t)
  <2>1. job' = job /\ tick[t].at \in {"connOk", "writeStreak"}
    BY <1>6 DEF ResetConnection, WriteStreak
  <2>2. /\ Active(tick[t], j) => Active(tick'[t], j)
        /\ Owes(tick'[t], j) => Owes(tick[t], j)
        /\ Tries(tick'[t], j) => Tries(tick[t], j)
    BY <1>4, <2>1 DEF Active, Owes, Tries
  <2> QED
    BY <1>1, <1>2, <2>1, <2>2, LooseKept, TickAffords
<1> QED
  BY <1>5, <1>6 DEF Turns

LEMMA DropsAffords ==
  ASSUME TypeOK, TypeOK', HandInv, NEW t \in Ticks, Drops(t), NEW j \in Jobs
  PROVE  Afford(j)
<1>1. /\ tick'[t] = NoTick /\ \A u \in Ticks : u # t => tick'[u] = tick[u]
      /\ job' = job /\ effects' = effects /\ late' = late /\ crashes \in Nat
  BY DropsType DEF Drops, NothingDue, Crash, TypeOK
<1>2. ~Active(tick'[t], j) /\ ~Owes(tick'[t], j) /\ ~Tries(tick'[t], j)
  BY <1>1, NothingInHand DEF Active, Owes, Tries, Ahead
<1>3. CASE NothingDue(t)
  <2>1. tick[t].at = "claim" /\ tick[t].rest = {} /\ crashes' = crashes + 0
    BY <1>1, <1>3 DEF NothingDue, HandInv, BatchInv
  <2>2. ~Active(tick[t], j)
    BY <2>1 DEF Active, Ahead
  <2> QED
    BY <1>1, <1>2, <2>1, <2>2, LooseKept, TickAffords
<1>4. CASE Crash(t)
  <2>1. crashes' = crashes + 1
    BY <1>4 DEF Crash
  <2> QED
    BY <1>1, <1>2, <2>1, TickAffords
<1> QED
  BY <1>3, <1>4 DEF Drops

\* A claimed job was loose, and is in one batch more.
LEMMA ClaimAffords ==
  ASSUME TypeOK, TypeOK', HandInv, NEW t \in Ticks, NEW batch \in SUBSET Queued,
         ClaimBatch(t, batch), NEW j \in Jobs
  PROVE  Afford(j)
<1>1. /\ tick[t].at = "claim" /\ tick[t].rest = {}
      /\ job' = [k \in Jobs |-> IF k \in batch THEN [job[k] EXCEPT !.status = "running"] ELSE job[k]]
      /\ effects' = effects /\ late' = late /\ crashes' = crashes
      /\ \A u \in Ticks : u # t => tick'[u] = tick[u]
  BY ClaimType DEF ClaimBatch, HandInv, BatchInv
<1>2. ~Active(tick[t], j) /\ ~Owes(tick[t], j) /\ ~Tries(tick[t], j)
  BY <1>1 DEF Active, Owes, Tries, Ahead
<1>3. PICK first \in batch :
        /\ tick'[t].at = "gate" /\ tick'[t].row = [id |-> first, attempts |-> job[first].attempts]
        /\ tick'[t].rest = {[id |-> k, attempts |-> job[k].attempts] : k \in batch \ {first}}
  BY ClaimType
<1>4. /\ tick'[t].row.id = first
      /\ Ahead(tick'[t], j) <=> j \in batch \ {first}
  <2> DEFINE rest == {[id |-> k, attempts |-> job[k].attempts] : k \in batch \ {first}}
             r == [id |-> j, attempts |-> job[j].attempts]
  <2>1. /\ r.id = j /\ (j \in batch \ {first} => r \in rest)
        /\ \A q \in rest : q.id \in batch \ {first}
        /\ tick'[t].row.id = first /\ tick'[t].rest = rest
    BY <1>3
  <2> HIDE DEF rest, r
  <2> QED
    BY <2>1 DEF Ahead
<1>5. CASE j \in batch
  <2>1. Active(tick'[t], j) /\ Owes(tick'[t], j) /\ Tries(tick'[t], j)
    BY <1>3, <1>4, <1>5 DEF Active, Owes, Tries
  <2>2. Debt(j)' = Debt(j) + 1 /\ Room(j)' = Room(j) + 1 /\ Debt(j) \in Nat /\ Room(j) \in Nat
    BY <1>1, <1>2, <2>1, DebtMoves, RoomMoves
  <2>3. job[j] \in JobRow /\ job[j].status = "queued" /\ ~job[j].overdue
    BY <1>5, TickType DEF Queued, HandInv
  <2>4. Loose(j)
    BY <2>3 DEF Loose
  <2>5. job'[j].status = "running" /\ ~job'[j].overdue
    BY <1>1, <1>5, <2>3 DEF JobRow
  <2>6. ~Loose(j)'
    BY <2>1, <2>5 DEF Loose, Active, Ahead
  <2>7. Spare(j) = 1 /\ Spare(j)' = 0
    BY <2>4, <2>6 DEF Spare
  <2>8. effects[j] \in Nat /\ late \in Nat /\ crashes \in Nat
    BY DEF TypeOK
  <2> QED
    BY <1>1, <2>2, <2>7, <2>8 DEF Afford
<1>6. CASE j \notin batch
  <2>1. ~Active(tick'[t], j) /\ ~Owes(tick'[t], j) /\ ~Tries(tick'[t], j)
    BY <1>4, <1>6 DEF Active, Owes, Tries
  <2>2. job'[j] = job[j] /\ crashes' = crashes + 0
    BY <1>1, <1>6 DEF TypeOK
  <2> QED
    BY <1>1, <1>2, <2>1, <2>2, LooseKept, TickAffords
<1> QED
  BY <1>5, <1>6

\* A step of no tick.
LEMMA OutsideAffords ==
  ASSUME TypeOK, TypeOK', NEW j \in Jobs, tick' = tick, effects' = effects,
         crashes' \in {crashes, crashes + 1}, late' \in {late, late + 1},
         (Loose(j)' => Loose(j)) \/ late' = late + 1
  PROVE  Afford(j)
<1>1. Debt(j)' = Debt(j) /\ Room(j)' = Room(j)
  BY DEF Debt, Room, Owes, Tries, Ahead
<1>2. Debt(j) \in Nat /\ Room(j) \in Nat
  BY Counts
<1>3. /\ Spare(j) \in {0, 1} /\ Spare(j)' \in {0, 1}
      /\ (Loose(j)' => Loose(j)) => Spare(j)' <= Spare(j)
  BY SpareType
<1>4. effects[j] \in Nat /\ late \in Nat /\ crashes \in Nat
  BY DEF TypeOK
<1> QED
  BY <1>1, <1>2, <1>3, <1>4 DEF Afford

LEMMA OverdueAffords ==
  ASSUME TypeOK, TypeOK', NEW i \in Jobs, Overdue(i), NEW j \in Jobs
  PROVE  Afford(j)
<1>1. /\ job[i].status = "running" /\ job' = [job EXCEPT ![i].overdue = TRUE]
      /\ late' = IF Held(i) THEN late + 1 ELSE late
      /\ tick' = tick /\ effects' = effects /\ crashes' = crashes
  BY DEF Overdue
<1>2. CASE j = i /\ ~Held(i)
  <2>1. \A u \in Ticks : ~Active(tick[u], i)
    BY <1>2 DEF Held, InHand, Active, Ahead
  <2>2. Loose(i)
    BY <1>1, <2>1 DEF Loose
  <2> QED
    BY <1>1, <1>2, <2>2, OutsideAffords
<1>3. CASE j # i
  <2>1. job'[j] = job[j]
    BY <1>1, <1>3 DEF TypeOK
  <2>2. Loose(j)' => Loose(j)
    BY <1>1, <2>1 DEF Loose, Active, Ahead
  <2>3. late' \in {late, late + 1}
    BY <1>1
  <2> QED
    BY <1>1, <2>2, <2>3, OutsideAffords
<1>4. CASE Held(i)
  BY <1>1, <1>4, OutsideAffords
<1> QED
  BY <1>2, <1>3, <1>4

LEMMA NextAffords ==
  ASSUME TypeOK, TypeOK', HandInv, [Next]_vars, NEW j \in Jobs
  PROVE  Afford(j)
<1>0. job \in [Jobs -> JobRow]
  BY DEF TypeOK, JobRow
<1>1. ASSUME NEW t \in Ticks, Stays(t) \/ Turns(t) \/ Drops(t) PROVE Afford(j)
  BY <1>1, ReapAffords, StaysAffords, TurnsAffords, DropsAffords
<1>2. ASSUME NEW t \in Ticks, NEW batch \in SUBSET Queued, ClaimBatch(t, batch) PROVE Afford(j)
  BY <1>2, ClaimAffords
<1>3. ASSUME NEW i \in Jobs, job' = Inserted(i), UNCHANGED <<tick, effects, late, crashes>>
      PROVE  Afford(j)
  <2>1. CASE j = i /\ job[i].status = "none"
    <3>1. Loose(j)
      BY <2>1 DEF Loose
    <3> QED
      BY <1>3, <3>1, OutsideAffords
  <2>2. CASE j # i \/ job[i].status # "none"
    <3>1. job'[j] = job[j]
      BY <1>0, <1>3, <2>2 DEF Inserted
    <3>2. Loose(j)' => Loose(j)
      BY <1>3, <3>1 DEF Loose, Active, Ahead
    <3> QED
      BY <1>3, <3>2, OutsideAffords
  <2> QED
    BY <2>1, <2>2
<1>4. CASE Asks
  <2>1. CASE \E r \in Requests : EnqueueApproved(r)
    <3>1. \A r \in Requests : request[r].id \in Jobs
      BY DEF TypeOK
    <3> QED
      BY <1>3, <2>1, <3>1 DEF EnqueueApproved
  <2>2. CASE UNCHANGED <<job, tick, effects, late>> /\ crashes' \in {crashes, crashes + 1}
    <3>1. Loose(j)' => Loose(j)
      BY <2>2 DEF Loose, Active, Ahead
    <3> QED
      BY <2>2, <3>1, OutsideAffords
  <2> QED
    BY <1>4, <2>1, <2>2 DEF Asks, Expire, Ask, Decide, RequestDies
<1>5. CASE \E x \in Runs, d \in Direct : EnqueueDirect(x, d)
  BY <1>3, <1>5 DEF EnqueueDirect, Jobs
<1>6. CASE \E i \in Jobs : Overdue(i)
  BY <1>6, OverdueAffords
<1>7. CASE UNCHANGED <<job, tick, effects, late, crashes>>
  <2>1. Loose(j)' => Loose(j)
    BY <1>7 DEF Loose, Active, Ahead
  <2> QED
    BY <1>7, <2>1, OutsideAffords
<1> QED
  BY <1>1, <1>2, <1>4, <1>5, <1>6, <1>7, StepKinds, ActsType
     DEF Asks, vars, BreakerCloses, RuleRecovers

LEMMA NextHand == TypeOK /\ HandInv /\ [Next]_vars => HandInv'
<1> SUFFICES ASSUME TypeOK, HandInv, [Next]_vars PROVE HandInv'
  OBVIOUS
<1>0. job \in [Jobs -> JobRow]
  BY DEF TypeOK, JobRow
<1>1. ASSUME NEW t \in Ticks, Stays(t) \/ Turns(t) \/ Drops(t) PROVE HandInv'
  <2>0. \A u \in Ticks : u # t => tick'[u] = tick[u]
    BY <1>1, StaysType, TurnType, DropsType
       DEF Turns, Release, ResetConnection, SaveRetry, WriteStreak
  <2>1. BatchInv(tick'[t])
    <3>1. BatchInv(tick[t])
      BY DEF HandInv
    <3>2. CASE Stays(t)
      <4>1. tick'[t].rest = tick[t].rest /\ tick'[t].row.id = tick[t].row.id
        BY <3>2, StaysType
      <4>2. CASE Reap(t)
        BY <3>1, <4>1, <4>2 DEF Reap, BatchInv
      <4>3. CASE ~Reap(t)
        <5>1. tick[t].at \notin {"idle", "claim"}
          BY <3>2, <4>3
             DEF Stays, GiveUp, Begin, Succeed, SaveSuccess, Fail, FinalizeThrows, SaveFailure,
                 ReadStreak
        <5>2. tick'[t].at \notin {"idle", "claim"}
          <6>1. \E at \in Places \ {"idle", "claim"} : tick'[t].at = at
            BY <3>2, <4>3, TickType
               DEF Stays, GiveUp, Begin, Succeed, SaveSuccess, Fail, FinalizeThrows, SaveFailure,
                   ReadStreak, Pass, Places
          <6> QED
            BY <6>1
        <5> QED
          BY <3>1, <4>1, <5>1, <5>2 DEF BatchInv
      <4> QED
        BY <4>2, <4>3
    <3>3. CASE Turns(t)
      <4>1. NextInBatch(t) /\ tick[t].at \notin {"idle", "claim"}
        BY <3>3 DEF Turns, Release, ResetConnection, SaveRetry, WriteStreak
      <4>2. CASE tick'[t] = NoTick
        BY <4>2, NothingInHand DEF BatchInv
      <4>3. CASE \E next \in tick[t].rest :
                   /\ tick'[t].at = "gate" /\ tick'[t].row = next
                   /\ tick'[t].rest = tick[t].rest \ {next}
        BY <3>1, <4>3 DEF BatchInv
      <4> QED
        BY <4>1, <4>2, <4>3, TurnType
    <3>4. CASE Drops(t)
      BY <3>4, DropsType, NothingInHand DEF BatchInv
    <3> QED
      BY <1>1, <3>2, <3>3, <3>4
  <2>2. ASSUME NEW j \in Jobs, job'[j].status \in {"none", "queued"} PROVE ~job'[j].overdue
    <3> DEFINE i == tick[t].row.id
    <3>0. i \in Jobs
      BY TickType
    <3>1. CASE Reap(t)
      <4>1. job'[j] = ReapedRow(job[j]) /\ job[j] \in JobRow
        BY <1>0, <3>1 DEF Reap
      <4> QED
        BY <2>2, <4>1 DEF ReapedRow, HandInv, JobRow
    <3>2. CASE GiveUp(t) \/ SaveFailure(t) \/ SaveSuccess(t)
      <4>1. \E status \in Settled : job' = [job EXCEPT ![i].status = status]
        BY <3>2 DEF GiveUp, SaveFailure, SaveSuccess, Settled
      <4>2. j # i
        BY <1>0, <2>2, <3>0, <4>1 DEF JobRow, Settled
      <4> QED
        BY <1>0, <2>2, <4>1, <4>2 DEF HandInv
    <3>3. CASE Release(t) \/ SaveRetry(t)
      <4>1. job' = [job EXCEPT ![i].status = "queued", ![i].overdue = FALSE]
        BY <3>3 DEF Release, SaveRetry
      <4> QED
        BY <1>0, <2>2, <4>1 DEF HandInv, JobRow
    <3>4. CASE Begin(t)
      <4>1. job'[j].status = job[j].status /\ job'[j].overdue = job[j].overdue
        BY <1>0, <3>0, <3>4 DEF Begin, JobRow
      <4> QED
        BY <2>2, <4>1 DEF HandInv
    <3>5. CASE job' = job
      BY <2>2, <3>5 DEF HandInv
    <3> QED
      BY <1>1, <3>1, <3>2, <3>3, <3>4, <3>5
         DEF Stays, Turns, Drops, Succeed, Fail, FinalizeThrows, ReadStreak, ResetConnection,
             WriteStreak, NothingDue, Crash
  <2> QED
    BY <2>0, <2>1, <2>2 DEF HandInv, BatchInv
<1>2. ASSUME NEW t \in Ticks, NEW batch \in SUBSET Queued, ClaimBatch(t, batch) PROVE HandInv'
  <2>1. \A u \in Ticks : u # t => tick'[u] = tick[u]
    BY <1>2, ClaimType
  <2>2. PICK first \in batch :
          /\ tick'[t].at = "gate" /\ tick'[t].row = [id |-> first, attempts |-> job[first].attempts]
          /\ tick'[t].rest = {[id |-> j, attempts |-> job[j].attempts] : j \in batch \ {first}}
    BY <1>2, ClaimType
  <2>3. BatchInv(tick'[t])
    BY <2>2 DEF BatchInv
  <2>4. \A j \in Jobs : job'[j].status \in {"none", "queued"} => ~job'[j].overdue
    <3>1. job' = [j \in Jobs |-> IF j \in batch THEN [job[j] EXCEPT !.status = "running"] ELSE job[j]]
      BY <1>2 DEF ClaimBatch
    <3> QED
      BY <1>0, <3>1 DEF HandInv, JobRow
  <2> QED
    BY <2>1, <2>3, <2>4 DEF HandInv, BatchInv
<1>3. ASSUME NEW i \in Jobs, job' = Inserted(i), tick' = tick PROVE HandInv'
  <2>1. \A j \in Jobs : job'[j].overdue = job[j].overdue
                        /\ (job'[j].status \in {"none", "queued"} => job[j].status \in {"none", "queued"})
    BY <1>0, <1>3 DEF Inserted, JobRow
  <2> QED
    BY <1>3, <2>1 DEF HandInv, BatchInv
<1>4. CASE Asks
  <2>1. CASE \E r \in Requests : EnqueueApproved(r)
    <3>1. \A r \in Requests : request[r].id \in Jobs
      BY DEF TypeOK
    <3> QED
      BY <1>3, <2>1, <3>1 DEF EnqueueApproved
  <2>2. CASE UNCHANGED <<job, tick>>
    BY <2>2 DEF HandInv, BatchInv
  <2> QED
    BY <1>4, <2>1, <2>2 DEF Asks, Expire, Ask, Decide, RequestDies
<1>5. CASE \E x \in Runs, d \in Direct : EnqueueDirect(x, d)
  BY <1>3, <1>5 DEF EnqueueDirect, Jobs
<1>6. ASSUME NEW i \in Jobs, Overdue(i) PROVE HandInv'
  <2>1. job[i].status = "running" /\ job' = [job EXCEPT ![i].overdue = TRUE] /\ tick' = tick
    BY <1>6 DEF Overdue
  <2>2. \A j \in Jobs : job'[j].status \in {"none", "queued"} => ~job'[j].overdue
    BY <1>0, <2>1 DEF HandInv, JobRow
  <2> QED
    BY <2>1, <2>2 DEF HandInv, BatchInv
<1>7. CASE UNCHANGED <<job, tick>>
  BY <1>7 DEF HandInv, BatchInv
<1> QED
  BY <1>1, <1>2, <1>4, <1>5, <1>6, <1>7, StepKinds, ActsType
     DEF Asks, vars, BreakerCloses, RuleRecovers

\* The action of a job succeeds once more at most for each crash, and for each time a live
\* tick lost a job to the reaper.
RepeatInv == TypeOK /\ HandInv /\ OwedInv

LEMMA InitRepeat == Init => RepeatInv
<1> SUFFICES ASSUME Init PROVE RepeatInv
  OBVIOUS
<1>1. TypeOK /\ \A u \in Ticks : tick[u].at = "idle" /\ tick[u].rest = {}
  BY InitType, NothingInHand DEF Init
<1>2. HandInv
  BY <1>1 DEF Init, HandInv, BatchInv
<1>3. ASSUME NEW j \in Jobs PROVE effects[j] + Debt(j) + Spare(j) <= 1 + crashes + late
  <2>1. {u \in Ticks : Owes(tick[u], j)} = {}
    BY <1>1 DEF Owes, Ahead
  <2>2. Debt(j) = 0
    BY <2>1, FS_EmptySet DEF Debt
  <2>3. effects[j] = 0 /\ crashes = 0 /\ late = 0
    BY DEF Init
  <2> QED
    BY <2>2, <2>3, SpareType
<1> QED
  BY <1>1, <1>2, <1>3 DEF RepeatInv, OwedInv

LEMMA NextRepeat == RepeatInv /\ [Next]_vars => RepeatInv'
<1> SUFFICES ASSUME RepeatInv, [Next]_vars PROVE RepeatInv'
  OBVIOUS
<1>1. TypeOK /\ TypeOK' /\ HandInv /\ HandInv'
  BY NextType, NextHand DEF RepeatInv
<1>2. ASSUME NEW j \in Jobs PROVE effects'[j] + Debt(j)' + Spare(j)' <= 1 + crashes' + late'
  <2>1. Afford(j)
    BY <1>1, NextAffords
  <2>2. /\ effects[j] \in Nat /\ late \in Nat /\ crashes \in Nat
        /\ effects'[j] \in Nat /\ late' \in Nat /\ crashes' \in Nat
    BY <1>1 DEF TypeOK
  <2>3. effects[j] + Debt(j) + Spare(j) <= 1 + crashes + late
    BY DEF RepeatInv, OwedInv
  <2>4. Debt(j) \in Nat /\ Spare(j) \in {0, 1}
    BY Counts
  <2>5. Spare(j)' \in {0, 1}
    BY SpareType
  <2>6. Debt(j)' \in Nat
    <3>1. {u \in Ticks : Owes(tick'[u], j)} \subseteq Ticks
      OBVIOUS
    <3>2. Cardinality({u \in Ticks : Owes(tick'[u], j)}) \in Nat
      BY <3>1, TicksAssumption, FS_Subset, FS_CardinalityType
    <3> QED
      BY <3>2 DEF Debt, Owes, Ahead
  <2> QED
    BY <2>1, <2>2, <2>3, <2>4, <2>5, <2>6 DEF Afford
<1> QED
  BY <1>1, <1>2 DEF RepeatInv, OwedInv

\* An action is carried out once, and once more at most for each disturbance, however its
\* ticks overtake each other.
THEOREM ActionsRepeatOnlyWhenDisturbed == Spec => []RepeatsBounded
<1>1. RepeatInv => RepeatsBounded
  <2> SUFFICES ASSUME RepeatInv, NEW j \in Jobs PROVE effects[j] <= 1 + crashes + late
    BY DEF RepeatsBounded
  <2>1. effects[j] + Debt(j) + Spare(j) <= 1 + crashes + late
    BY DEF RepeatInv, OwedInv
  <2>2. effects[j] \in Nat /\ crashes \in Nat /\ late \in Nat
    BY DEF RepeatInv, TypeOK
  <2> QED
    BY <2>1, <2>2, Counts
<1> QED
  BY <1>1, InitRepeat, NextRepeat, PTL DEF Spec

(***************************************************************************)
(* How often a job is attempted.                                           *)
(***************************************************************************)

\* With so many attempts behind it, the job has room for those that may still be made.
Fits(n, j) == n + Room(j) + Spare(j) <= MaxAttempts + crashes + late

TriesInv ==
  /\ \A j \in Jobs, n \in Nat : n = job[j].attempts => Fits(n, j)
  /\ \A t \in Ticks, r \in Rows :
       r \in tick[t].rest \/ (tick[t].at = "gate" /\ r = tick[t].row) => Fits(r.attempts, r.id)

LEMMA RoomType ==
  ASSUME NEW j
  PROVE  Room(j) \in Nat /\ Room(j)' \in Nat /\ Spare(j) \in {0, 1} /\ Spare(j)' \in {0, 1}
<1> DEFINE T == {u \in Ticks : Tries(tick'[u], j)}
<1>1. T \subseteq Ticks
  OBVIOUS
<1>2. Cardinality(T) \in Nat
  BY <1>1, TicksAssumption, FS_Subset, FS_CardinalityType
<1>3. Room(j)' = Cardinality(T)
  BY DEF Room, Tries, Ahead
<1> QED
  BY <1>2, <1>3, Counts, SpareType

LEMMA FitsKept ==
  ASSUME TypeOK, TypeOK', NEW j \in Jobs, Afford(j), NEW n \in Nat, Fits(n, j)
  PROVE  n + Room(j)' + Spare(j)' <= MaxAttempts + crashes' + late'
<1>1. /\ crashes \in Nat /\ late \in Nat /\ crashes' \in Nat /\ late' \in Nat /\ MaxAttempts \in Nat
  BY LimitsAssumption DEF TypeOK
<1> QED
  BY <1>1, RoomType DEF Fits, Afford

LEMMA InitTries == Init => TriesInv
<1> SUFFICES ASSUME Init PROVE TriesInv
  OBVIOUS
<1>1. \A u \in Ticks : tick[u].at = "idle" /\ tick[u].rest = {}
  BY NothingInHand DEF Init
<1>2. ASSUME NEW j \in Jobs, NEW n \in Nat, n = job[j].attempts PROVE Fits(n, j)
  <2>1. {u \in Ticks : Tries(tick[u], j)} = {}
    BY <1>1 DEF Tries, Ahead
  <2>2. Room(j) = 0
    BY <2>1, FS_EmptySet DEF Room
  <2>3. n = 0 /\ crashes = 0 /\ late = 0 /\ MaxAttempts \in Nat \ {0}
    BY <1>2, LimitsAssumption DEF Init
  <2> QED
    BY <2>2, <2>3, SpareType DEF Fits
<1> QED
  BY <1>1, <1>2 DEF TriesInv

\* An attempt is counted: of those the job had room for, or, if another may follow, of
\* MaxAttempts.
LEMMA BeginFits ==
  ASSUME RepeatInv, RepeatInv', TriesInv, NEW t \in Ticks, Begin(t), NEW j, j = tick[t].row.id
  PROVE  tick[t].row.attempts + 1 + Room(j)' + Spare(j)' <= MaxAttempts + crashes' + late'
<1> DEFINE n == tick[t].row.attempts
<1>1. /\ TypeOK /\ TypeOK' /\ HandInv /\ j \in Jobs /\ n \in Nat /\ tick[t] \in Pass
      /\ job \in [Jobs -> JobRow] /\ crashes \in Nat /\ late \in Nat
      /\ MaxAttempts \in Nat \ {0} /\ effects[j] \in Nat
  BY TickType, LimitsAssumption DEF RepeatInv, TypeOK
<1>2. /\ tick[t].at = "gate" /\ job' = [job EXCEPT ![j].attempts = n + 1]
      /\ crashes' = crashes /\ late' = late
      /\ tick' = [tick EXCEPT ![t].at = "call", ![t].row.attempts = n + 1]
  BY DEF Begin
<1>3. /\ \A u \in Ticks : u # t => tick'[u] = tick[u]
      /\ tick'[t].rest = tick[t].rest /\ tick'[t].row.id = j
  BY <1>1, StaysType DEF Stays
<1>4. tick'[t].at = "call" /\ tick'[t].row.attempts = n + 1
  BY <1>1, <1>2, TickType DEF Pass, Rows
<1>5. ~Ahead(tick[t], j) /\ ~Ahead(tick'[t], j)
  BY <1>1, <1>2, <1>3 DEF HandInv, BatchInv, Ahead
<1>6. Tries(tick[t], j) /\ (Tries(tick'[t], j) <=> n + 1 < MaxAttempts)
  BY <1>2, <1>3, <1>4, <1>5 DEF Tries
<1>7. Spare(j)' <= Spare(j)
  <2>1. job'[j].status = job[j].status /\ job'[j].overdue = job[j].overdue
    BY <1>1, <1>2 DEF JobRow
  <2>2. Active(tick'[t], j)
    BY <1>3, <1>4 DEF Active
  <2> QED
    BY <1>3, <2>1, <2>2, LooseKept, SpareType
<1>8. /\ Room(j) \in Nat /\ Room(j)' \in Nat /\ Room(j)' <= Room(j)
      /\ ~(n + 1 < MaxAttempts) => Room(j)' = Room(j) - 1
  BY <1>3, <1>6, RoomMoves
<1>9. Fits(n, j)
  <2>1. tick[t].row \in Rows /\ tick[t].at = "gate"
    BY <1>1, <1>2, TickType
  <2> QED
    BY <2>1 DEF TriesInv
<1>10. Room(j) + Spare(j) <= 1 + crashes + late
  <2>1. effects[j] + Debt(j) + Spare(j) <= 1 + crashes + late
    BY <1>1 DEF RepeatInv, OwedInv
  <2> QED
    BY <1>1, <2>1, Counts
<1>11. Spare(j) \in {0, 1} /\ Spare(j)' \in {0, 1}
  BY SpareType
<1> HIDE DEF n
<1>12. ASSUME n + 1 < MaxAttempts
       PROVE  n + 1 + Room(j)' + Spare(j)' <= MaxAttempts + crashes' + late'
  BY <1>1, <1>2, <1>7, <1>8, <1>10, <1>11, <1>12
<1>13. ASSUME ~(n + 1 < MaxAttempts)
       PROVE  n + 1 + Room(j)' + Spare(j)' <= MaxAttempts + crashes' + late'
  BY <1>1, <1>2, <1>7, <1>8, <1>9, <1>11, <1>13 DEF Fits
<1>14. n + 1 + Room(j)' + Spare(j)' <= MaxAttempts + crashes' + late'
  BY <1>12, <1>13
<1> QED
  BY <1>14 DEF n

\* What a tick has in hand after a step it had before, or has read in it.
LEMMA RowsFrom ==
  ASSUME TypeOK, HandInv, [Next]_vars, NEW u \in Ticks, NEW r,
         r \in tick'[u].rest \/ (tick'[u].at = "gate" /\ r = tick'[u].row)
  PROVE  \/ r \in tick[u].rest
         \/ tick[u].at = "gate" /\ r = tick[u].row
         \/ r.id \in Jobs /\ r.attempts = job[r.id].attempts
<1>1. ASSUME NEW t \in Ticks, Stays(t) \/ Turns(t) \/ Drops(t)
      PROVE  \/ r \in tick[u].rest
             \/ tick[u].at = "gate" /\ r = tick[u].row
  <2>1. CASE u # t
    <3>1. tick'[u] = tick[u]
      BY <1>1, <2>1, StaysType, TurnType, DropsType
         DEF Turns, Release, ResetConnection, SaveRetry, WriteStreak
    <3> QED
      BY <3>1
  <2>2. CASE u = t /\ Stays(t)
    <3>1. tick'[t].rest = tick[t].rest
      BY <2>2, StaysType
    <3>2. tick'[t].at # "gate"
      <4>1. \E at \in Places \ {"gate"} : tick'[t].at = at
        BY <2>2, TickType
           DEF Stays, Reap, GiveUp, Begin, Succeed, SaveSuccess, Fail, FinalizeThrows,
               SaveFailure, ReadStreak, Pass, Places
      <4> QED
        BY <4>1
    <3> QED
      BY <2>2, <3>1, <3>2
  <2>3. CASE u = t /\ Turns(t)
    <3>1. NextInBatch(t)
      BY <2>3 DEF Turns, Release, ResetConnection, SaveRetry, WriteStreak
    <3>2. \/ tick'[t] = NoTick
          \/ \E next \in tick[t].rest :
               tick'[t].row = next /\ tick'[t].rest = tick[t].rest \ {next}
      BY <3>1, TurnType
    <3> QED
      BY <2>3, <3>2, NothingInHand
  <2>4. CASE u = t /\ Drops(t)
    BY <2>4, DropsType, NothingInHand
  <2> QED
    BY <1>1, <2>1, <2>2, <2>3, <2>4
<1>2. ASSUME NEW t \in Ticks, NEW batch \in SUBSET Queued, ClaimBatch(t, batch)
      PROVE  \/ r \in tick[u].rest
             \/ tick[u].at = "gate" /\ r = tick[u].row
             \/ r.id \in Jobs /\ r.attempts = job[r.id].attempts
  <2>1. CASE u # t
    BY <1>2, <2>1, ClaimType
  <2>2. CASE u = t
    <3>1. PICK first \in batch :
            /\ tick'[t].row = [id |-> first, attempts |-> job[first].attempts]
            /\ tick'[t].rest = {[id |-> j, attempts |-> job[j].attempts] : j \in batch \ {first}}
      BY <1>2, ClaimType
    <3>2. \E j \in batch : r = [id |-> j, attempts |-> job[j].attempts]
      BY <2>2, <3>1
    <3> QED
      BY <3>2 DEF Queued
  <2> QED
    BY <2>1, <2>2
<1>3. CASE tick' = tick
  BY <1>3
<1> QED
  BY <1>1, <1>2, <1>3, StepKinds, ActsType
     DEF vars, Expire, Ask, Decide, EnqueueApproved, RequestDies, EnqueueDirect, Overdue,
         BreakerCloses, RuleRecovers

\* Only the start of an attempt counts one.
LEMMA AttemptsFrom ==
  ASSUME TypeOK, [Next]_vars, NEW j \in Jobs,
         \A t \in Ticks : ~(Begin(t) /\ j = tick[t].row.id)
  PROVE  job'[j].attempts = job[j].attempts
<1>0. job \in [Jobs -> JobRow] /\ \A t \in Ticks : tick[t].row.id \in Jobs
  BY TickType DEF TypeOK, JobRow
<1>1. ASSUME NEW i \in Jobs, job' = Inserted(i) PROVE job'[j].attempts = job[j].attempts
  BY <1>0, <1>1 DEF Inserted, JobRow
<1>2. ASSUME NEW t \in Ticks, Stays(t) \/ Turns(t) \/ Drops(t)
      PROVE  job'[j].attempts = job[j].attempts
  <2> DEFINE i == tick[t].row.id
  <2>1. CASE Reap(t)
    <3>1. job'[j] = ReapedRow(job[j])
      BY <2>1 DEF Reap
    <3> QED
      BY <1>0, <3>1 DEF ReapedRow, JobRow
  <2>2. CASE GiveUp(t) \/ SaveFailure(t) \/ SaveSuccess(t)
    <3>1. \E status \in Settled : job' = [job EXCEPT ![i].status = status]
      BY <2>2 DEF GiveUp, SaveFailure, SaveSuccess, Settled
    <3> QED
      BY <1>0, <3>1 DEF JobRow
  <2>3. CASE Release(t) \/ SaveRetry(t)
    <3>1. job' = [job EXCEPT ![i].status = "queued", ![i].overdue = FALSE]
      BY <2>3 DEF Release, SaveRetry
    <3> QED
      BY <1>0, <3>1 DEF JobRow
  <2>4. CASE Begin(t)
    <3>1. j # i /\ job' = [job EXCEPT ![i].attempts = tick[t].row.attempts + 1]
      BY <2>4 DEF Begin
    <3> QED
      BY <1>0, <3>1
  <2>5. CASE job' = job
    BY <2>5
  <2> QED
    BY <1>2, <2>1, <2>2, <2>3, <2>4, <2>5
       DEF Stays, Turns, Drops, Succeed, Fail, FinalizeThrows, ReadStreak, ResetConnection,
           WriteStreak, NothingDue, Crash
<1>3. ASSUME NEW t \in Ticks, NEW batch \in SUBSET Queued, ClaimBatch(t, batch)
      PROVE  job'[j].attempts = job[j].attempts
  BY <1>0, <1>3 DEF ClaimBatch, JobRow
<1>4. ASSUME NEW i \in Jobs, Overdue(i) PROVE job'[j].attempts = job[j].attempts
  BY <1>0, <1>4 DEF Overdue, JobRow
<1>5. ASSUME NEW r \in Requests, EnqueueApproved(r) PROVE job'[j].attempts = job[j].attempts
  <2>1. request[r].id \in Jobs
    BY DEF TypeOK
  <2> QED
    BY <1>1, <1>5, <2>1 DEF EnqueueApproved
<1>6. ASSUME NEW x \in Runs, NEW d \in Direct, EnqueueDirect(x, d)
      PROVE  job'[j].attempts = job[j].attempts
  BY <1>1, <1>6 DEF EnqueueDirect, Jobs
<1>7. CASE job' = job
  BY <1>7
<1> QED
  BY <1>2, <1>3, <1>4, <1>5, <1>6, <1>7, StepKinds, ActsType
     DEF vars, Expire, Ask, Decide, RequestDies, BreakerCloses, RuleRecovers

LEMMA NextTries == RepeatInv /\ TriesInv /\ [Next]_vars => TriesInv'
<1> SUFFICES ASSUME RepeatInv, TriesInv, [Next]_vars PROVE TriesInv'
  OBVIOUS
<1>1. RepeatInv' /\ TypeOK /\ TypeOK' /\ HandInv /\ HandInv'
  BY NextRepeat DEF RepeatInv
<1> DEFINE Fitted(n, j) == n + Room(j)' + Spare(j)' <= MaxAttempts + crashes' + late'
<1>2. ASSUME NEW j \in Jobs, NEW n \in Nat, Fits(n, j) PROVE Fitted(n, j)
  BY <1>1, <1>2, NextAffords, FitsKept
<1>3. ASSUME NEW j \in Jobs, NEW n \in Nat, n = job'[j].attempts PROVE Fitted(n, j)
  <2>1. ASSUME NEW t \in Ticks, Begin(t), j = tick[t].row.id
        PROVE  Fitted(n, j)
    <3>1. n = tick[t].row.attempts + 1
      BY <1>1, <1>3, <2>1, TickType DEF Begin, JobRow
    <3>2. tick[t].row.attempts + 1 + Room(j)' + Spare(j)' <= MaxAttempts + crashes' + late'
      BY <1>1, <2>1, BeginFits
    <3> QED
      BY <3>1, <3>2
  <2>2. CASE \A t \in Ticks : ~(Begin(t) /\ j = tick[t].row.id)
    <3>1. n = job[j].attempts
      BY <1>1, <1>3, <2>2, AttemptsFrom
    <3>2. Fits(n, j)
      BY <3>1 DEF TriesInv
    <3> QED
      BY <1>2, <3>2
  <2> QED
    BY <2>1, <2>2
<1>4. ASSUME NEW u \in Ticks, NEW r \in Rows,
             r \in tick'[u].rest \/ (tick'[u].at = "gate" /\ r = tick'[u].row)
      PROVE  Fitted(r.attempts, r.id)
  <2>1. r.id \in Jobs /\ r.attempts \in Nat
    BY DEF Rows
  <2>2. Fits(r.attempts, r.id)
    <3>1. \/ r \in tick[u].rest
          \/ tick[u].at = "gate" /\ r = tick[u].row
          \/ r.attempts = job[r.id].attempts
      BY <1>1, <1>4, RowsFrom
    <3> QED
      BY <2>1, <3>1 DEF TriesInv
  <2> QED
    BY <1>2, <2>1, <2>2
<1> QED
  BY <1>3, <1>4 DEF TriesInv, Fits

\* MaxAttempts is exceeded by one at most for each disturbance.
THEOREM AttemptsOnlyWhenDisturbed == Spec => []AttemptsBounded
<1>1. RepeatInv /\ TriesInv => AttemptsBounded
  <2> SUFFICES ASSUME RepeatInv, TriesInv, NEW j \in Jobs
               PROVE  job[j].attempts <= MaxAttempts + crashes + late
    BY DEF AttemptsBounded
  <2>1. /\ job[j].attempts \in Nat /\ crashes \in Nat /\ late \in Nat /\ MaxAttempts \in Nat
    BY LimitsAssumption DEF RepeatInv, TypeOK
  <2>2. Fits(job[j].attempts, j)
    BY <2>1 DEF TriesInv
  <2> QED
    BY <2>1, <2>2, Counts DEF Fits
<1> QED
  BY <1>1, InitRepeat, NextRepeat, InitTries, NextTries, PTL DEF Spec
=============================================================================
