---------------------------- MODULE BulkRecordJobs ----------------------------
(***************************************************************************)
(* Durable bulk record operations                                          *)
(* (src/apps/api/src/records/bulk-record-jobs.service.ts) and the two      *)
(* batch calls they make (batchUpdate and batchDelete of                   *)
(* src/apps/api/src/records/records.service.ts).                           *)
(*                                                                         *)
(* A job names a list of records.  A tick of the worker returns the jobs   *)
(* that have been running too long to the queue, claims the oldest queued  *)
(* job, applies ONE chunk of its list, and saves the cursor.  The timer    *)
(* starts a tick whether or not the last one has ended, every replica has  *)
(* its own timer, and a tick saves what it computed from the row it read   *)
(* when it claimed: a tick that outlives the two minutes after which its   *)
(* job is taken from it goes on all the same, and saves over the work of   *)
(* the tick that took over.                                                *)
(*                                                                         *)
(* A record is its position in the list of the job, 1..Total.              *)
(***************************************************************************)
EXTENDS Naturals, FiniteSets

CONSTANTS
  Jobs,        \* job ids, numbers in the order of created_at
  Total,       \* length of the list of every job
  ChunkSize,   \* JOB_CHUNK_SIZE
  Ticks,       \* worker passes that may be in flight at once
  Ops,         \* the operations asked for, a subset of {"update", "delete"}
  MaxReaps,    \* bound on how often a job outlasts the patience of the reaper in a live tick
  MaxCrashes   \* bound on how many ticks die with their process

ASSUME JobsAssumption == Jobs \subseteq Nat /\ Jobs # {}
ASSUME TotalAssumption == Total \in Nat \ {0}
ASSUME ChunkAssumption == ChunkSize \in Nat \ {0}
ASSUME TicksAssumption == IsFiniteSet(Ticks)
ASSUME OpsAssumption == Ops \subseteq {"update", "delete"} /\ Ops # {}

VARIABLES
  job,       \* the row of each job
  applied,   \* per job, the records that carry the change (updated or deleted)
  tick,      \* what each tick has in hand
  reaps,     \* how many times a live tick ran past its two minutes
  crashes    \* how many ticks died

vars == <<job, applied, tick, reaps, crashes>>

Positions == 1..Total
Done == {"succeeded", "partially_failed"}
Statuses == {"none", "queued", "running"} \cup Done

Row == [status : Statuses, op : Ops, cursor : 0..Total, succeeded : 0..Total,
        failed : SUBSET Positions, overdue : BOOLEAN]

\* A tick: the job it claimed, the row it read, what it has counted since, the
\* next record to update and the records found to delete.
Pass == [at : {"idle", "claim", "read", "work", "delete", "save"}, job : Jobs, row : Row,
         succeeded : 0..Total, failed : SUBSET Positions, next : 1..(Total + 1),
         found : SUBSET Positions]

NewRow == [status |-> "none", op |-> CHOOSE op \in Ops : TRUE, cursor |-> 0,
           succeeded |-> 0, failed |-> {}, overdue |-> FALSE]

\* A tick that has nothing in hand.
Idle == [at |-> "idle", job |-> CHOOSE j \in Jobs : TRUE, row |-> NewRow,
         succeeded |-> 0, failed |-> {}, next |-> 1, found |-> {}]

\* slice(cursor, cursor + JOB_CHUNK_SIZE): the positions of the chunk.
Chunk(row) == {i \in Positions : row.cursor < i /\ i <= row.cursor + ChunkSize}

ChunkEnd(row) == row.cursor + Cardinality(Chunk(row))

(***************************************************************************)
(* Enqueue, and the clock.                                                 *)
(***************************************************************************)

\* enqueue(): the list is frozen on the row.
Enqueue(j, op) ==
  /\ job[j].status = "none"
  /\ \A k \in Jobs : k < j => job[k].status # "none"
  /\ job' = [job EXCEPT ![j].status = "queued", ![j].op = op]
  /\ UNCHANGED <<applied, tick, reaps, crashes>>

\* The ticks that have the job in hand.
Holders(j) == {t \in Ticks : tick[t].at \notin {"idle", "claim"} /\ tick[t].job = j}

Held(j) == Holders(j) # {}

\* Two minutes have passed since started_at.  Nothing stops a tick that works on
\* the job: a chunk may be slow, and its process may be alive.
Overdue(j) ==
  /\ job[j].status = "running" /\ ~job[j].overdue
  /\ Held(j) => reaps < MaxReaps
  /\ job' = [job EXCEPT ![j].overdue = TRUE]
  /\ reaps' = IF Held(j) THEN reaps + 1 ELSE reaps
  /\ UNCHANGED <<applied, tick, crashes>>

(***************************************************************************)
(* A tick.                                                                 *)
(***************************************************************************)

\* Mutant: only a job that has saved nothing yet is returned.
ReapedRowUnbegun(row) ==
  IF row.status = "running" /\ row.overdue /\ row.cursor = 0
    THEN [row EXCEPT !.status = "queued", !.overdue = FALSE]
    ELSE row

\* reap(): every job that has been running too long is queued again, its cursor
\* as it was last saved.
ReapedRow(row) ==
  IF row.status = "running" /\ row.overdue
    THEN [row EXCEPT !.status = "queued", !.overdue = FALSE]
    ELSE row

Reap(t) ==
  /\ tick[t].at = "idle"
  /\ \E j \in Jobs : job[j].status \in {"queued", "running"}
  /\ job' = [j \in Jobs |-> ReapedRow(job[j])]
  /\ tick' = [tick EXCEPT ![t].at = "claim"]
  /\ UNCHANGED <<applied, reaps, crashes>>

\* Mutant: the claim does not look at the status of a job that has begun.
QueuedOrRunning == {j \in Jobs : job[j].status \in {"queued", "running"}}

Queued == {j \in Jobs : job[j].status = "queued"}

\* claimOne(), its UPDATE: the oldest queued job.  With none the tick ends.
ClaimOne(t) ==
  /\ tick[t].at = "claim"
  /\ IF Queued = {}
       THEN /\ tick' = [tick EXCEPT ![t] = Idle]
            /\ UNCHANGED job
       ELSE LET j == CHOOSE k \in Queued : \A l \in Queued : k <= l
            IN /\ job' = [job EXCEPT ![j].status = "running", ![j].overdue = FALSE]
               /\ tick' = [tick EXCEPT ![t].at = "read", ![t].job = j]
  /\ UNCHANGED <<applied, reaps, crashes>>

\* claimOne(), its read: the row as it is now, which another tick may have saved
\* since the claim.  processOneChunk starts from it.
ReadRow(t) ==
  LET row == job[tick[t].job]
  IN /\ tick[t].at = "read"
     /\ tick' = [tick EXCEPT ![t] = [@ EXCEPT !.at = "work", !.row = row,
                   !.succeeded = row.succeeded, !.failed = row.failed,
                   !.next = row.cursor + 1]]
     /\ UNCHANGED <<job, applied, reaps, crashes>>

\* batchUpdate(), one record: each update is a transaction of its own.  One that
\* is refused is reported by name; one that is applied is counted, and its version
\* is then looked up: when that fails, it is counted and reported as well.
UpdateRecord(t, outcome) ==
  LET p == tick[t]
      applies == outcome \in {"updated", "unversioned"}
  IN /\ p.at = "work" /\ p.row.op = "update" /\ p.next \in Chunk(p.row)
     /\ applied' = IF applies THEN [applied EXCEPT ![p.job] = @ \cup {p.next}] ELSE applied
     /\ tick' = [tick EXCEPT ![t] = [p EXCEPT !.next = @ + 1,
                   !.succeeded = IF applies THEN @ + 1 ELSE @,
                   !.failed = IF outcome = "updated" THEN @ ELSE @ \cup {p.next}]]
     /\ UNCHANGED <<job, reaps, crashes>>

\* The end of batchUpdate().
UpdatesDone(t) ==
  LET p == tick[t]
  IN /\ p.at = "work" /\ p.row.op = "update" /\ p.next \notin Chunk(p.row)
     /\ tick' = [tick EXCEPT ![t].at = "save"]
     /\ UNCHANGED <<job, applied, reaps, crashes>>

\* batchDelete(), past the gate: the records of the chunk that are still there.
FindLive(t) ==
  LET p == tick[t]
  IN /\ p.at = "work" /\ p.row.op = "delete"
     /\ tick' = [tick EXCEPT ![t] = [p EXCEPT !.at = "delete",
                   !.found = Chunk(p.row) \ applied[p.job]]]
     /\ UNCHANGED <<job, applied, reaps, crashes>>

\* They are deleted in one transaction, and counted although another tick may have
\* deleted them since.
DeleteFound(t) ==
  LET p == tick[t]
  IN /\ p.at = "delete"
     /\ applied' = [applied EXCEPT ![p.job] = @ \cup p.found]
     /\ tick' = [tick EXCEPT ![t] = [p EXCEPT !.at = "save",
                   !.succeeded = @ + Cardinality(p.found)]]
     /\ UNCHANGED <<job, reaps, crashes>>

\* The chunk is not deleted: a gate holds it for approval ("Held for approval"), or
\* it throws (its database is gone, the transaction cannot be committed).  All of
\* its records are reported as failed.
ChunkFails(t) ==
  LET p == tick[t]
  IN /\ p.at = "delete" \/ (p.at = "work" /\ p.row.op = "delete")
     /\ tick' = [tick EXCEPT ![t] = [p EXCEPT !.at = "save", !.failed = @ \cup Chunk(p.row)]]
     /\ UNCHANGED <<job, applied, reaps, crashes>>

\* The row with these results of the chunk.
Saved(p, cursor, failed) ==
  [job[p.job] EXCEPT
     !.cursor = cursor, !.succeeded = p.succeeded, !.failed = failed,
     !.status = IF cursor < Total THEN "queued"
                ELSE IF failed # {} THEN "partially_failed" ELSE "succeeded",
     !.overdue = FALSE]

\* Mutant: the failures are appended to those of the row as it is now.
SavedRowMergesFailed(p) == Saved(p, ChunkEnd(p.row), job[p.job].failed \cup p.failed)

\* Mutant: the cursor never moves back, the results are the tick's own.
SavedRowKeepsCursor(p) ==
  Saved(p, IF job[p.job].cursor > ChunkEnd(p.row) THEN job[p.job].cursor ELSE ChunkEnd(p.row),
        p.failed)

\* The last statement of processOneChunk, by id: what the tick computed is written
\* over whatever the row has become since it was read.
SavedRow(p) == Saved(p, ChunkEnd(p.row), p.failed)

Save(t) ==
  /\ tick[t].at = "save"
  /\ job' = [job EXCEPT ![tick[t].job] = SavedRow(tick[t])]
  /\ tick' = [tick EXCEPT ![t] = Idle]
  /\ UNCHANGED <<applied, reaps, crashes>>

\* The process dies: what the tick applied stays, its counts are lost, and its
\* job is left running.
Crash(t) ==
  /\ tick[t].at # "idle"
  /\ crashes < MaxCrashes
  /\ tick' = [tick EXCEPT ![t] = Idle]
  /\ crashes' = crashes + 1
  /\ UNCHANGED <<job, applied, reaps>>

(***************************************************************************)
(* The specification.                                                      *)
(***************************************************************************)
Init ==
  /\ job = [j \in Jobs |-> NewRow]
  /\ applied = [j \in Jobs |-> {}]
  /\ tick = [t \in Ticks |-> Idle]
  /\ reaps = 0
  /\ crashes = 0

\* What a tick does with the chunk in hand.
Work(t) ==
  \/ \E outcome \in {"updated", "refused", "unversioned"} : UpdateRecord(t, outcome)
  \/ UpdatesDone(t)
  \/ FindLive(t)
  \/ DeleteFound(t)
  \/ ChunkFails(t)

Step(t) == Reap(t) \/ ClaimOne(t) \/ ReadRow(t) \/ Work(t) \/ Save(t)

Next ==
  \/ \E j \in Jobs, op \in Ops : Enqueue(j, op)
  \/ \E j \in Jobs : Overdue(j)
  \/ \E t \in Ticks : Step(t)
  \/ \E t \in Ticks : Crash(t)

Spec == Init /\ [][Next]_vars

\* The timer keeps firing and every tick goes on until its process dies; time
\* passes for a job that nobody works on.
Fairness ==
  /\ \A t \in Ticks : WF_vars(Step(t))
  /\ \A j \in Jobs : WF_vars(~Held(j) /\ Overdue(j))

FairSpec == Spec /\ Fairness

(***************************************************************************)
(* Properties.                                                             *)
(***************************************************************************)

\* Every variable has the shape of its column or of its local variables.
TypeOK ==
  /\ job \in [Jobs -> Row]
  /\ applied \in [Jobs -> SUBSET Positions]
  /\ tick \in [Ticks -> Pass]
  /\ reaps \in Nat /\ crashes \in Nat

\* The row a client polls is the account of ONE walk over the list: only records
\* behind the cursor are named as failed or counted, and every record an update has
\* passed is one or the other.  The counts of ticks that save over each other are
\* never mixed.
CountsAgree ==
  \A j \in Jobs :
    /\ job[j].failed \subseteq 1..job[j].cursor
    /\ job[j].succeeded <= job[j].cursor
    /\ LET counted == job[j].succeeded + Cardinality(job[j].failed)
       IN IF job[j].op = "update" THEN counted >= job[j].cursor
                                  ELSE counted <= job[j].cursor

\* A record behind the cursor that is not reported as failed carries the change:
\* whatever ticks died or were overtaken, "succeeded" was not said of a record
\* that was skipped.
AppliedUnlessFailed ==
  \A j \in Jobs : \A i \in 1..job[j].cursor : i \in job[j].failed \/ i \in applied[j]

\* The chunks of a job are worked on one at a time, except for what was taken from
\* a live tick: the ticks that have a job in hand, and the one that its place in
\* the queue will start, are at most one more than those.
WorkersBounded ==
  \A j \in Jobs :
    Cardinality(Holders(j)) + (IF job[j].status = "queued" THEN 1 ELSE 0) <= 1 + reaps

\* Every job is done in the end and stays done, although a tick that was
\* overtaken may put a job that was done back in the queue.
EveryJobSettles ==
  \A j \in Jobs : job[j].status # "none" ~> [](job[j].status \in Done)
=============================================================================
