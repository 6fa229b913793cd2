------------------------- MODULE BulkRecordJobsProofs -------------------------
(***************************************************************************)
(* The row of a bulk job is the account of one walk over its list, skips   *)
(* no record, and has one worker more than was taken from live ticks at    *)
(* most, for every number of jobs and ticks, every list and chunk size.    *)
(***************************************************************************)
EXTENDS BulkRecordJobs, FiniteSetTheorems, WellFoundedInduction, TLAPS

\* A walk that has reached so far names and counts only records behind it: an update
\* every one of them, a delete each of them once; and those it does not name carry the
\* change.
Account(op, reach, succeeded, failed, changed) ==
  /\ failed \subseteq 1..reach
  /\ succeeded <= reach
  /\ op = "update" => succeeded + Cardinality(failed) >= reach
  /\ op # "update" => succeeded + Cardinality(failed) <= reach
  /\ \A i \in 1..reach : i \in failed \/ i \in changed

InHand(p) == p.at \notin {"idle", "claim"}

JobInv(j) ==
  /\ Account(job[j].op, job[j].cursor, job[j].succeeded, job[j].failed, applied[j])
  /\ job[j].status = "none" =>
       job[j].cursor = 0 /\ job[j].succeeded = 0 /\ job[j].failed = {} /\ ~job[j].overdue

\* The account of the chunk in hand goes on from the row as it was read.
PassInv(p, S) ==
  /\ p.at = "work" =>
       /\ p.row.cursor < p.next /\ p.next <= ChunkEnd(p.row) + 1
       /\ p.row.op # "update" => p.next = p.row.cursor + 1
       /\ Account(p.row.op, p.next - 1, p.succeeded, p.failed, S)
  /\ p.at = "delete" =>
       /\ p.row.op # "update"
       /\ Account(p.row.op, p.row.cursor, p.succeeded, p.failed, S)
       /\ p.found \subseteq Chunk(p.row) /\ Chunk(p.row) \subseteq p.found \cup S
  /\ p.at = "save" => Account(p.row.op, ChunkEnd(p.row), p.succeeded, p.failed, S)

\* A tick works on a job that was queued, for the operation that was asked for.
HoldInv(t) ==
  InHand(tick[t]) =>
    /\ job[tick[t].job].status # "none"
    /\ tick[t].at # "read" => tick[t].row.op = job[tick[t].job].op

BulkInv ==
  /\ TypeOK
  /\ \A j \in Jobs : JobInv(j)
  /\ \A t \in Ticks : PassInv(tick[t], applied[tick[t].job]) /\ HoldInv(t)

LEMMA NothingInHand == NewRow \in Row /\ Idle \in Pass /\ Idle.at = "idle"
<1>1. (CHOOSE op \in Ops : TRUE) \in Ops /\ (CHOOSE j \in Jobs : TRUE) \in Jobs
  BY OpsAssumption, JobsAssumption
<1>2. 0 \in 0..Total /\ 1 \in 1..(Total + 1)
  BY TotalAssumption
<1>3. NewRow \in Row
  BY <1>1, <1>2 DEF NewRow, Row, Statuses
<1>4. Idle \in Pass
  BY <1>1, <1>2, <1>3 DEF Idle, Pass
<1> QED
  BY <1>3, <1>4 DEF Idle

\* The chunk of a row is what lies between its cursor and the end of the chunk.
LEMMA ChunkFacts ==
  ASSUME NEW row \in Row
  PROVE  /\ ChunkEnd(row) \in 0..Total /\ row.cursor <= ChunkEnd(row)
         /\ Chunk(row) = (row.cursor + 1)..ChunkEnd(row)
         /\ IsFiniteSet(Chunk(row)) /\ Cardinality(Chunk(row)) = ChunkEnd(row) - row.cursor
<1>1. row.cursor \in 0..Total /\ Total \in Nat /\ ChunkSize \in Nat
  BY TotalAssumption, ChunkAssumption DEF Row
<1> DEFINE end == IF row.cursor + ChunkSize <= Total THEN row.cursor + ChunkSize ELSE Total
<1>2. end \in 0..Total /\ row.cursor <= end
  BY <1>1
<1>3. Chunk(row) = (row.cursor + 1)..end
  BY <1>1 DEF Chunk, Positions
<1> HIDE DEF end
<1>4. IsFiniteSet(Chunk(row)) /\ Cardinality(Chunk(row)) = end - row.cursor
  <2>1. row.cursor + 1 \in Int /\ end \in Int
    BY <1>1, <1>2
  <2>2. /\ IsFiniteSet((row.cursor + 1)..end)
        /\ Cardinality((row.cursor + 1)..end) =
             IF row.cursor + 1 > end THEN 0 ELSE end - (row.cursor + 1) + 1
    BY <2>1, FS_Interval
  <2> QED
    BY <1>1, <1>2, <1>3, <2>2
<1>5. ChunkEnd(row) = end
  BY <1>1, <1>2, <1>4 DEF ChunkEnd
<1> QED
  BY <1>2, <1>3, <1>4, <1>5

\* More records may have been changed by others.
LEMMA AccountGrows ==
  ASSUME NEW op, NEW reach, NEW succeeded, NEW failed, NEW S, NEW T, S \subseteq T,
         Account(op, reach, succeeded, failed, S)
  PROVE  Account(op, reach, succeeded, failed, T)
BY DEF Account

LEMMA PassGrows ==
  ASSUME NEW p, NEW S, NEW T, S \subseteq T, PassInv(p, S)
  PROVE  PassInv(p, T)
BY AccountGrows DEF PassInv

\* The named records of a walk are finitely many.
LEMMA AccountFinite ==
  ASSUME NEW op, NEW reach \in Nat, NEW succeeded, NEW failed, NEW S,
         Account(op, reach, succeeded, failed, S)
  PROVE  IsFiniteSet(failed) /\ Cardinality(failed) \in Nat
<1>1. IsFiniteSet(1..reach)
  BY FS_Interval
<1> QED
  BY <1>1, FS_Subset, FS_CardinalityType DEF Account

(***************************************************************************)
(* The ways a walk goes on.                                                *)
(***************************************************************************)

\* The next record is updated, refused, or updated and reported all the same.
LEMMA AccountUpdate ==
  ASSUME NEW next \in Nat, NEW succeeded \in Nat, NEW failed, NEW S, NEW T, S \subseteq T,
         Account("update", next - 1, succeeded, failed, S), next - 1 \in Nat,
         NEW more \in {0, 1}, NEW named \in {{}, {next}},
         more = 1 => next \in T, more = 0 => named = {next}
  PROVE  Account("update", next, succeeded + more, failed \cup named, T)
<1>1. IsFiniteSet(failed) /\ Cardinality(failed) \in Nat
  BY AccountFinite
<1>2. next \notin failed
  BY DEF Account
<1>3. /\ Cardinality(failed \cup {next}) = Cardinality(failed) + 1
      /\ failed \cup {} = failed
  BY <1>1, <1>2, FS_AddElement
<1>4. succeeded + more + Cardinality(failed \cup named) >= next
  <2>1. succeeded + Cardinality(failed) >= next - 1
    BY <1>1 DEF Account
  <2>2. CASE named = {next}
    BY <1>1, <1>3, <2>1, <2>2
  <2>3. CASE named = {}
    BY <1>1, <1>3, <2>1, <2>3
  <2> QED
    BY <2>2, <2>3
<1>5. failed \cup named \subseteq 1..next /\ succeeded + more <= next
  <2>1. failed \subseteq 1..(next - 1) /\ succeeded <= next - 1
    BY DEF Account
  <2>2. 1..(next - 1) \subseteq 1..next /\ next \in 1..next
    OBVIOUS
  <2>3. failed \cup named \subseteq 1..next
    BY <2>1, <2>2
  <2> QED
    BY <2>1, <2>3
<1>6. \A i \in 1..next : i \in failed \cup named \/ i \in T
  <2> SUFFICES ASSUME NEW i \in 1..next PROVE i \in failed \cup named \/ i \in T
    OBVIOUS
  <2>1. CASE i = next
    BY <2>1
  <2>2. CASE i # next
    <3>1. i \in 1..(next - 1)
      BY <2>2
    <3> QED
      BY <3>1 DEF Account
  <2> QED
    BY <2>1, <2>2
<1> QED
  BY <1>4, <1>5, <1>6 DEF Account

\* The records found in a chunk are deleted and counted.
LEMMA AccountDelete ==
  ASSUME NEW row \in Row, NEW op, op # "update", NEW succeeded \in Nat, NEW failed, NEW S, NEW T,
         Account(op, row.cursor, succeeded, failed, S), S \subseteq T,
         NEW found, found \subseteq Chunk(row), Chunk(row) \subseteq T
  PROVE  /\ Account(op, ChunkEnd(row), succeeded + Cardinality(found), failed, T)
         /\ Cardinality(found) \in Nat
<1>1. /\ ChunkEnd(row) \in Nat /\ row.cursor <= ChunkEnd(row) /\ row.cursor \in Nat
      /\ Chunk(row) = (row.cursor + 1)..ChunkEnd(row)
      /\ IsFiniteSet(Chunk(row)) /\ Cardinality(Chunk(row)) = ChunkEnd(row) - row.cursor
  BY ChunkFacts DEF Row
<1>2. Cardinality(found) \in Nat /\ Cardinality(found) <= ChunkEnd(row) - row.cursor
  BY <1>1, FS_Subset, FS_CardinalityType
<1>3. Cardinality(failed) \in Nat
  BY <1>1, AccountFinite
<1>4. /\ failed \subseteq 1..ChunkEnd(row)
      /\ succeeded + Cardinality(found) <= ChunkEnd(row)
      /\ succeeded + Cardinality(found) + Cardinality(failed) <= ChunkEnd(row)
  <2>1. /\ failed \subseteq 1..row.cursor /\ succeeded <= row.cursor
        /\ succeeded + Cardinality(failed) <= row.cursor
    BY DEF Account
  <2> QED
    BY <1>1, <1>2, <1>3, <2>1
<1>5. \A i \in 1..ChunkEnd(row) : i \in failed \/ i \in T
  <2> SUFFICES ASSUME NEW i \in 1..ChunkEnd(row) PROVE i \in failed \/ i \in T
    OBVIOUS
  <2>1. i \in 1..row.cursor \/ i \in Chunk(row)
    BY <1>1
  <2> QED
    BY <2>1 DEF Account
<1> QED
  BY <1>2, <1>4, <1>5 DEF Account

\* All of a chunk is reported as failed.
LEMMA AccountFails ==
  ASSUME NEW row \in Row, NEW op, op # "update", NEW succeeded \in Nat, NEW failed, NEW S,
         Account(op, row.cursor, succeeded, failed, S)
  PROVE  Account(op, ChunkEnd(row), succeeded, failed \cup Chunk(row), S)
<1>1. /\ ChunkEnd(row) \in Nat /\ row.cursor <= ChunkEnd(row) /\ row.cursor \in Nat
      /\ Chunk(row) = (row.cursor + 1)..ChunkEnd(row)
      /\ IsFiniteSet(Chunk(row)) /\ Cardinality(Chunk(row)) = ChunkEnd(row) - row.cursor
  BY ChunkFacts DEF Row
<1>2. IsFiniteSet(failed) /\ Cardinality(failed) \in Nat
  BY <1>1, AccountFinite
<1>3. /\ Cardinality(failed \cup Chunk(row)) =
           Cardinality(failed) + Cardinality(Chunk(row)) - Cardinality(failed \cap Chunk(row))
      /\ Cardinality(failed \cap Chunk(row)) \in Nat
      /\ Cardinality(failed \cup Chunk(row)) \in Nat
  <2>1. IsFiniteSet(failed \cap Chunk(row)) /\ IsFiniteSet(failed \cup Chunk(row))
    BY <1>1, <1>2, FS_Subset, FS_Union
  <2> QED
    BY <1>1, <1>2, <2>1, FS_Union, FS_CardinalityType
<1>4. /\ failed \subseteq 1..row.cursor /\ succeeded <= row.cursor
      /\ succeeded + Cardinality(failed) <= row.cursor
  BY DEF Account
<1>5. /\ failed \cup Chunk(row) \subseteq 1..ChunkEnd(row) /\ succeeded <= ChunkEnd(row)
      /\ succeeded + Cardinality(failed \cup Chunk(row)) <= ChunkEnd(row)
  <2>1. 1..row.cursor \subseteq 1..ChunkEnd(row) /\ Chunk(row) \subseteq 1..ChunkEnd(row)
    BY <1>1
  <2>2. failed \cup Chunk(row) \subseteq 1..ChunkEnd(row)
    BY <1>4, <2>1
  <2>3. Cardinality(failed \cup Chunk(row)) <= Cardinality(failed) + (ChunkEnd(row) - row.cursor)
    BY <1>1, <1>2, <1>3
  <2>4. succeeded + Cardinality(failed \cup Chunk(row)) <= ChunkEnd(row)
    BY <1>1, <1>2, <1>3, <1>4, <2>3
  <2> QED
    BY <1>1, <1>4, <2>2, <2>4
<1>6. \A i \in 1..ChunkEnd(row) : i \in failed \cup Chunk(row) \/ i \in S
  <2> SUFFICES ASSUME NEW i \in 1..ChunkEnd(row) PROVE i \in failed \cup Chunk(row) \/ i \in S
    OBVIOUS
  <2>1. i \in 1..row.cursor \/ i \in Chunk(row)
    BY <1>1
  <2> QED
    BY <2>1 DEF Account
<1> QED
  BY <1>5, <1>6 DEF Account

(***************************************************************************)
(* One step of a tick with its chunk.                                      *)
(***************************************************************************)
LEMMA TickType ==
  ASSUME TypeOK, NEW t \in Ticks
  PROVE  /\ tick[t] \in Pass /\ tick[t].row \in Row /\ tick[t].job \in Jobs
         /\ tick[t].row.op \in Ops /\ tick[t].row.cursor \in 0..Total
         /\ tick[t].succeeded \in Nat /\ tick[t].failed \subseteq Positions
         /\ tick[t].next \in 1..(Total + 1) /\ tick[t].found \subseteq Positions
         /\ Total \in Nat
BY TotalAssumption DEF TypeOK, Pass, Row

\* A step that changes one tick, and records for the better, keeps the invariant when it
\* holds of that tick.
LEMMA PassKept ==
  ASSUME BulkInv, NEW t \in Ticks, NEW q \in Pass, tick' = [tick EXCEPT ![t] = q],
         job' = job, reaps' = reaps, crashes' \in {crashes, crashes + 1},
         applied' \in [Jobs -> SUBSET Positions], \A j \in Jobs : applied[j] \subseteq applied'[j],
         PassInv(q, applied'[q.job]),
         InHand(q) => /\ job[q.job].status # "none"
                      /\ q.at # "read" => q.row.op = job[q.job].op
  PROVE  BulkInv'
<1>1. /\ TypeOK /\ tick' \in [Ticks -> Pass] /\ tick'[t] = q
      /\ \A u \in Ticks : u # t => tick'[u] = tick[u]
  BY DEF BulkInv, TypeOK
<1>2. TypeOK'
  BY <1>1 DEF TypeOK
<1>3. ASSUME NEW j \in Jobs PROVE JobInv(j)'
  <2>1. JobInv(j) /\ applied[j] \subseteq applied'[j]
    BY DEF BulkInv
  <2>2. Account(job[j].op, job[j].cursor, job[j].succeeded, job[j].failed, applied'[j])
    BY <2>1, AccountGrows DEF JobInv
  <2> QED
    BY <2>1, <2>2 DEF JobInv
<1>4. ASSUME NEW u \in Ticks
      PROVE  PassInv(tick'[u], applied'[tick'[u].job]) /\ HoldInv(u)'
  <2>1. CASE u = t
    BY <1>1, <2>1 DEF HoldInv
  <2>2. CASE u # t
    <3>1. tick'[u] = tick[u] /\ tick[u].job \in Jobs
      BY <1>1, <2>2, TickType
    <3>2. PassInv(tick[u], applied[tick[u].job]) /\ HoldInv(u)
      BY DEF BulkInv
    <3>3. PassInv(tick[u], applied'[tick[u].job])
      BY <3>1, <3>2, PassGrows
    <3> QED
      BY <3>1, <3>2, <3>3 DEF HoldInv
  <2> QED
    BY <2>1, <2>2
<1> QED
  BY <1>2, <1>3, <1>4 DEF BulkInv

LEMMA UpdateRecordBulk ==
  ASSUME BulkInv, NEW t \in Ticks, NEW outcome \in {"updated", "refused", "unversioned"},
         UpdateRecord(t, outcome)
  PROVE  BulkInv'
<1> DEFINE p == tick[t]
           more == IF outcome \in {"updated", "unversioned"} THEN 1 ELSE 0
           named == IF outcome = "updated" THEN {} ELSE {p.next}
           q == [p EXCEPT !.next = p.next + 1, !.succeeded = p.succeeded + more,
                   !.failed = p.failed \cup named]
           T == applied'[p.job]
<1>1. /\ TypeOK /\ p \in Pass /\ p.job \in Jobs /\ p.row \in Row /\ p.row.op \in Ops
      /\ p.succeeded \in Nat /\ p.failed \subseteq Positions /\ p.next \in 1..(Total + 1)
      /\ p.row.cursor \in 0..Total /\ Total \in Nat
  BY TickType DEF BulkInv
<1>2. /\ p.at = "work" /\ p.row.op = "update" /\ p.next \in Chunk(p.row)
      /\ job' = job /\ reaps' = reaps /\ crashes' = crashes
      /\ applied' = IF outcome \in {"updated", "unversioned"}
                      THEN [applied EXCEPT ![p.job] = @ \cup {p.next}] ELSE applied
  BY DEF UpdateRecord
<1>3. tick' = [tick EXCEPT ![t] = q]
  <2> DEFINE counted == IF outcome \in {"updated", "unversioned"} THEN p.succeeded + 1 ELSE p.succeeded
             refused == IF outcome = "updated" THEN p.failed ELSE p.failed \cup {p.next}
  <2>1. tick' = [tick EXCEPT ![t] = [p EXCEPT !.next = p.next + 1, !.succeeded = counted,
                                       !.failed = refused]]
    BY DEF UpdateRecord
  <2>2. p.succeeded + more = counted /\ p.failed \cup named = refused
    BY <1>1
  <2> HIDE DEF counted, refused, more, named
  <2> QED
    BY <2>1, <2>2
<1>4. p.next \in Positions /\ p.next <= ChunkEnd(p.row) /\ ChunkEnd(p.row) \in 0..Total
  <2>1. p.next \in Positions
    BY <1>2 DEF Chunk
  <2>2. p.next \in (p.row.cursor + 1)..ChunkEnd(p.row) /\ ChunkEnd(p.row) \in 0..Total
    BY <1>1, <1>2, ChunkFacts
  <2> QED
    BY <2>1, <2>2
<1>5. /\ applied' \in [Jobs -> SUBSET Positions]
      /\ \A j \in Jobs : applied[j] \subseteq applied'[j]
      /\ more = 1 => p.next \in T
  BY <1>1, <1>2, <1>4 DEF TypeOK
<1>6. /\ PassInv(p, applied[p.job])
      /\ job[p.job].status # "none" /\ p.row.op = job[p.job].op
  BY <1>2 DEF BulkInv, HoldInv, InHand
<1>7. /\ p.row.cursor < p.next
      /\ Account("update", p.next - 1, p.succeeded, p.failed, applied[p.job])
  BY <1>2, <1>6 DEF PassInv
<1>8. Account("update", p.next, p.succeeded + more, p.failed \cup named, T)
  <2>1. /\ p.next \in Nat /\ p.next - 1 \in Nat /\ applied[p.job] \subseteq T
        /\ more \in {0, 1} /\ named \in {{}, {p.next}} /\ (more = 0 => named = {p.next})
    BY <1>1, <1>5
  <2> HIDE DEF p, more, named, T
  <2> QED
    BY <1>1, <1>5, <1>7, <2>1, AccountUpdate
<1>9. p.succeeded + more \in 0..Total
  <2>1. p.succeeded + more <= p.next
    BY <1>8 DEF Account
  <2>2. p.next <= Total
    BY <1>4 DEF Positions
  <2> QED
    BY <1>1, <2>1, <2>2
<1>10. /\ q.at = "work" /\ q.job = p.job /\ q.row = p.row /\ q.next = p.next + 1
       /\ q.succeeded = p.succeeded + more /\ q.failed = p.failed \cup named
       /\ q.found = p.found
  BY <1>1, <1>2 DEF Pass
<1>11. q \in Pass
  <2>1. p.next + 1 \in 1..(Total + 1) /\ p.failed \cup named \in SUBSET Positions
    BY <1>1, <1>4 DEF Positions
  <2> HIDE DEF more, named
  <2> QED
    BY <1>1, <1>9, <2>1 DEF Pass
<1>12. PassInv(q, T)
  <2>1. (p.next + 1) - 1 = p.next
    BY <1>1
  <2>2. Account(q.row.op, q.next - 1, q.succeeded, q.failed, T)
    BY <1>2, <1>8, <1>10, <2>1
  <2>3. q.row.cursor < q.next /\ q.next <= ChunkEnd(q.row) + 1
    BY <1>1, <1>4, <1>7, <1>10
  <2> QED
    BY <1>2, <1>10, <2>2, <2>3 DEF PassInv
<1> HIDE DEF q
<1> QED
  BY <1>2, <1>3, <1>5, <1>6, <1>10, <1>11, <1>12, PassKept

LEMMA DeleteFoundBulk ==
  ASSUME BulkInv, NEW t \in Ticks, DeleteFound(t)
  PROVE  BulkInv'
<1> DEFINE p == tick[t]
           n == p.succeeded + Cardinality(p.found)
           q == [p EXCEPT !.at = "save", !.succeeded = n]
           T == applied'[p.job]
<1>1. /\ TypeOK /\ p \in Pass /\ p.job \in Jobs /\ p.row \in Row /\ p.row.op \in Ops
      /\ p.succeeded \in Nat /\ p.failed \subseteq Positions /\ p.found \subseteq Positions
      /\ Total \in Nat
  BY TickType DEF BulkInv
<1>2. /\ p.at = "delete" /\ job' = job /\ reaps' = reaps /\ crashes' = crashes
      /\ applied' = [applied EXCEPT ![p.job] = @ \cup p.found]
      /\ tick' = [tick EXCEPT ![t] = q]
  BY DEF DeleteFound
<1>3. /\ applied' \in [Jobs -> SUBSET Positions]
      /\ \A j \in Jobs : applied[j] \subseteq applied'[j]
      /\ T = applied[p.job] \cup p.found
  BY <1>1, <1>2 DEF TypeOK
<1>4. /\ PassInv(p, applied[p.job])
      /\ job[p.job].status # "none" /\ p.row.op = job[p.job].op
  BY <1>2 DEF BulkInv, HoldInv, InHand
<1>5. /\ p.row.op # "update" /\ Account(p.row.op, p.row.cursor, p.succeeded, p.failed, applied[p.job])
      /\ p.found \subseteq Chunk(p.row) /\ Chunk(p.row) \subseteq p.found \cup applied[p.job]
  BY <1>2, <1>4 DEF PassInv
<1>6. Account(p.row.op, ChunkEnd(p.row), n, p.failed, T) /\ Cardinality(p.found) \in Nat
  <2>1. Chunk(p.row) \subseteq T /\ applied[p.job] \subseteq T
    BY <1>3, <1>5
  <2> HIDE DEF p, T
  <2> QED
    BY <1>1, <1>5, <2>1, AccountDelete
<1>7. n \in 0..Total
  <2>1. n <= ChunkEnd(p.row) /\ ChunkEnd(p.row) \in 0..Total
    BY <1>1, <1>6, ChunkFacts DEF Account
  <2> QED
    BY <1>1, <1>6, <2>1
<1> HIDE DEF n
<1>8. /\ q.at = "save" /\ q.job = p.job /\ q.row = p.row /\ q.succeeded = n /\ q.failed = p.failed
      /\ q \in Pass
  BY <1>1, <1>7 DEF Pass
<1>9. PassInv(q, T)
  BY <1>6, <1>8 DEF PassInv
<1> HIDE DEF q
<1> QED
  BY <1>2, <1>3, <1>4, <1>8, <1>9, PassKept

LEMMA ChunkFailsBulk ==
  ASSUME BulkInv, NEW t \in Ticks, ChunkFails(t)
  PROVE  BulkInv'
<1> DEFINE p == tick[t]
           named == p.failed \cup Chunk(p.row)
           q == [p EXCEPT !.at = "save", !.failed = named]
           S == applied[p.job]
<1>1. /\ TypeOK /\ p \in Pass /\ p.job \in Jobs /\ p.row \in Row /\ p.row.op \in Ops
      /\ p.succeeded \in Nat /\ p.failed \subseteq Positions
      /\ p.row.cursor \in 0..Total /\ p.next \in 1..(Total + 1) /\ Total \in Nat
  BY TickType DEF BulkInv
<1>2. /\ p.at = "delete" \/ (p.at = "work" /\ p.row.op = "delete")
      /\ job' = job /\ reaps' = reaps /\ crashes' = crashes /\ applied' = applied
      /\ tick' = [tick EXCEPT ![t] = q]
  BY DEF ChunkFails
<1>3. /\ PassInv(p, S) /\ job[p.job].status # "none" /\ p.row.op = job[p.job].op
  BY <1>2 DEF BulkInv, HoldInv, InHand
<1>4. p.row.op # "update" /\ Account(p.row.op, p.row.cursor, p.succeeded, p.failed, S)
  <2>1. CASE p.at = "delete"
    BY <1>3, <2>1 DEF PassInv
  <2>2. CASE p.at = "work" /\ p.row.op = "delete"
    <3>1. /\ p.next = p.row.cursor + 1
          /\ Account(p.row.op, p.next - 1, p.succeeded, p.failed, S)
      BY <1>3, <2>2 DEF PassInv
    <3>2. p.next - 1 = p.row.cursor
      BY <1>1, <3>1
    <3> QED
      BY <2>2, <3>1, <3>2
  <2> QED
    BY <1>2, <2>1, <2>2
<1>5. Account(p.row.op, ChunkEnd(p.row), p.succeeded, named, S)
  <2> HIDE DEF p, S
  <2> QED
    BY <1>1, <1>4, AccountFails
<1>6. named \subseteq Positions
  BY <1>1 DEF Chunk
<1> HIDE DEF named
<1>7. /\ q.at = "save" /\ q.job = p.job /\ q.row = p.row /\ q.succeeded = p.succeeded
      /\ q.failed = named /\ q \in Pass
  BY <1>1, <1>6 DEF Pass
<1>8. PassInv(q, S)
  BY <1>5, <1>7 DEF PassInv
<1> HIDE DEF q
<1> QED
  BY <1>1, <1>2, <1>3, <1>7, <1>8, PassKept DEF TypeOK

(***************************************************************************)
(* The invariant.                                                          *)
(***************************************************************************)
LEMMA EmptyAccount ==
  ASSUME NEW op, NEW S
  PROVE  Account(op, 0, 0, {}, S)
BY FS_EmptySet DEF Account

LEMMA InitBulk == Init => BulkInv
<1> SUFFICES ASSUME Init PROVE BulkInv
  OBVIOUS
<1>1. TypeOK
  BY NothingInHand DEF Init, TypeOK
<1>2. ASSUME NEW j \in Jobs PROVE JobInv(j)
  <2>1. job[j] = NewRow
    BY DEF Init
  <2> QED
    BY <2>1, EmptyAccount DEF JobInv, NewRow
<1>3. ASSUME NEW t \in Ticks PROVE PassInv(tick[t], applied[tick[t].job]) /\ HoldInv(t)
  <2>1. tick[t].at = "idle"
    BY NothingInHand DEF Init
  <2> QED
    BY <2>1 DEF PassInv, HoldInv, InHand
<1> QED
  BY <1>1, <1>2, <1>3 DEF BulkInv

\* A step that changes what a job is waiting for, and none that is worked on to "none".
LEMMA RowsKept ==
  ASSUME BulkInv, job' \in [Jobs -> Row], applied' = applied,
         \A j \in Jobs : JobInv(j)',
         \A j \in Jobs : job[j].status # "none" => /\ job'[j].status # "none"
                                                   /\ job'[j].op = job[j].op,
         tick' \in [Ticks -> Pass],
         \A u \in Ticks : \/ tick'[u] = tick[u] \/ tick'[u].at \in {"idle", "claim"}
                          \/ tick'[u].at = "read" /\ job'[tick'[u].job].status # "none",
         reaps' \in {reaps, reaps + 1}, crashes' = crashes
  PROVE  BulkInv'
<1>1. TypeOK /\ TypeOK'
  BY DEF BulkInv, TypeOK
<1>2. ASSUME NEW u \in Ticks PROVE PassInv(tick'[u], applied'[tick'[u].job]) /\ HoldInv(u)'
  <2>1. CASE tick'[u] = tick[u]
    <3>1. PassInv(tick[u], applied[tick[u].job]) /\ HoldInv(u) /\ tick[u].job \in Jobs
      BY <1>1, TickType DEF BulkInv
    <3> QED
      BY <2>1, <3>1 DEF HoldInv
  <2>2. CASE tick'[u].at \in {"idle", "claim"}
    BY <2>2 DEF PassInv, HoldInv, InHand
  <2>3. CASE tick'[u].at = "read" /\ job'[tick'[u].job].status # "none"
    BY <2>3 DEF PassInv, HoldInv, InHand
  <2> QED
    BY <2>1, <2>2, <2>3
<1> QED
  BY <1>1, <1>2 DEF BulkInv

\* Some queued job is the oldest.
LEMMA LeastOf ==
  ASSUME NEW S, S \subseteq Nat, S # {}
  PROVE  \E k \in S : \A l \in S : k <= l
<1> DEFINE R == OpToRel(<, Nat)
<1>1. IsWellFoundedOn(R, Nat)
  BY NatLessThanWellFounded
<1>2. \A k, l \in Nat : l < k => <<l, k>> \in R
  BY DEF OpToRel
<1> HIDE DEF R
<1>3. PICK k \in S : \A l \in S : ~(<<l, k>> \in R)
  BY <1>1, WFMin
<1>4. ASSUME NEW l \in S PROVE k <= l
  <2>1. k \in Nat /\ l \in Nat /\ ~(l < k)
    BY <1>2, <1>3
  <2> QED
    BY <2>1
<1> QED
  BY <1>4

\* A claim takes a queued job.
LEMMA ClaimsQueued ==
  ASSUME NEW t \in Ticks, ClaimOne(t), Queued # {}
  PROVE  \E j \in Queued : /\ job' = [job EXCEPT ![j].status = "running", ![j].overdue = FALSE]
                           /\ tick' = [tick EXCEPT ![t].at = "read", ![t].job = j]
<1> DEFINE j == CHOOSE k \in Queued : \A l \in Queued : k <= l
<1>1. Queued \subseteq Nat
  BY JobsAssumption DEF Queued
<1>2. \E k \in Queued : \A l \in Queued : k <= l
  BY <1>1, LeastOf
<1>3. j \in Queued
  BY <1>2
<1>4. /\ job' = [job EXCEPT ![j].status = "running", ![j].overdue = FALSE]
      /\ tick' = [tick EXCEPT ![t].at = "read", ![t].job = j]
  BY DEF ClaimOne
<1> HIDE DEF j
<1> QED
  BY <1>3, <1>4

LEMMA NextBulk == BulkInv /\ [Next]_vars => BulkInv'
<1> SUFFICES ASSUME BulkInv, [Next]_vars PROVE BulkInv'
  OBVIOUS
<1>0. /\ TypeOK /\ job \in [Jobs -> Row] /\ tick \in [Ticks -> Pass]
      /\ applied \in [Jobs -> SUBSET Positions] /\ \A j \in Jobs : job[j] \in Row
  BY DEF BulkInv, TypeOK
<1>1. ASSUME NEW j \in Jobs, NEW op \in Ops, Enqueue(j, op) PROVE BulkInv'
  <2>1. /\ job[j].status = "none" /\ job' = [job EXCEPT ![j].status = "queued", ![j].op = op]
        /\ applied' = applied /\ tick' = tick /\ reaps' = reaps /\ crashes' = crashes
    BY <1>1 DEF Enqueue
  <2>2. job' \in [Jobs -> Row]
    BY <1>0, <2>1 DEF Row, Statuses
  <2>3. ASSUME NEW k \in Jobs PROVE JobInv(k)'
    <3>1. CASE k # j
      <4>1. job'[k] = job[k] /\ JobInv(k)
        BY <1>0, <2>1, <3>1 DEF BulkInv
      <4> QED
        BY <2>1, <4>1 DEF JobInv
    <3>2. CASE k = j
      <4>1. job[j].cursor = 0 /\ job[j].succeeded = 0 /\ job[j].failed = {}
        BY <2>1 DEF BulkInv, JobInv
      <4>2. /\ job'[j].cursor = 0 /\ job'[j].succeeded = 0 /\ job'[j].failed = {}
            /\ job'[j].status = "queued"
        BY <1>0, <2>1, <4>1 DEF Row
      <4> QED
        BY <3>2, <4>2, EmptyAccount DEF JobInv
    <3> QED
      BY <3>1, <3>2
  <2> QED
    BY <1>0, <2>1, <2>2, <2>3, RowsKept
<1>2. ASSUME NEW j \in Jobs, Overdue(j) PROVE BulkInv'
  <2>1. /\ job[j].status = "running" /\ job' = [job EXCEPT ![j].overdue = TRUE]
        /\ applied' = applied /\ tick' = tick /\ reaps' \in {reaps, reaps + 1}
        /\ crashes' = crashes
    BY <1>2 DEF Overdue
  <2>2. job' \in [Jobs -> Row]
    BY <1>0, <2>1 DEF Row
  <2>3. \A k \in Jobs : /\ job'[k].cursor = job[k].cursor /\ job'[k].succeeded = job[k].succeeded
                        /\ job'[k].failed = job[k].failed /\ job'[k].status = job[k].status
                        /\ job'[k].op = job[k].op
    BY <1>0, <2>1 DEF Row
  <2>4. ASSUME NEW k \in Jobs PROVE JobInv(k)'
    <3>1. JobInv(k) /\ (job[k].status = "none" => job'[k] = job[k])
      BY <1>0, <2>1 DEF BulkInv
    <3> QED
      BY <2>1, <2>3, <3>1 DEF JobInv
  <2> QED
    BY <1>0, <2>1, <2>2, <2>3, <2>4, RowsKept
<1>3. ASSUME NEW t \in Ticks, Reap(t) PROVE BulkInv'
  <2>1. /\ job' = [j \in Jobs |-> ReapedRow(job[j])] /\ tick' = [tick EXCEPT ![t].at = "claim"]
        /\ applied' = applied /\ reaps' = reaps /\ crashes' = crashes
    BY <1>3 DEF Reap
  <2>2. ASSUME NEW k \in Jobs
        PROVE  /\ job'[k] \in Row
               /\ job'[k].cursor = job[k].cursor /\ job'[k].succeeded = job[k].succeeded
               /\ job'[k].failed = job[k].failed /\ job'[k].op = job[k].op
               /\ job'[k].status = "none" <=> job[k].status = "none"
               /\ job[k].status = "none" => job'[k] = job[k]
    <3>1. job'[k] = ReapedRow(job[k]) /\ job[k] \in Row
      BY <1>0, <2>1
    <3>2. CASE job[k].status = "running" /\ job[k].overdue
      <4>1. job'[k] = [job[k] EXCEPT !.status = "queued", !.overdue = FALSE]
        BY <3>1, <3>2 DEF ReapedRow
      <4> QED
        BY <3>1, <3>2, <4>1 DEF Row, Statuses
    <3>3. CASE ~(job[k].status = "running" /\ job[k].overdue)
      <4>1. job'[k] = job[k]
        BY <3>1, <3>3 DEF ReapedRow
      <4> QED
        BY <3>1, <4>1
    <3> QED
      BY <3>2, <3>3
  <2>3. ASSUME NEW k \in Jobs PROVE JobInv(k)'
    <3>1. JobInv(k)
      BY DEF BulkInv
    <3> QED
      BY <2>1, <2>2, <3>1 DEF JobInv
  <2>4. job' \in [Jobs -> Row]
    BY <2>1, <2>2
  <2>5. /\ tick' \in [Ticks -> Pass] /\ tick'[t].at = "claim"
        /\ \A u \in Ticks : u # t => tick'[u] = tick[u]
    BY <1>0, <2>1 DEF Pass
  <2> QED
    BY <2>1, <2>2, <2>3, <2>4, <2>5, RowsKept
<1>4. ASSUME NEW t \in Ticks, ClaimOne(t) PROVE BulkInv'
  <2>1. CASE Queued = {}
    <3>1. /\ tick' = [tick EXCEPT ![t] = Idle] /\ job' = job
          /\ applied' = applied /\ reaps' = reaps /\ crashes' = crashes
      BY <1>4, <2>1 DEF ClaimOne
    <3>2. \A k \in Jobs : JobInv(k)'
      BY <3>1 DEF BulkInv, JobInv
    <3>3. /\ tick' \in [Ticks -> Pass] /\ tick'[t].at = "idle"
          /\ \A u \in Ticks : u # t => tick'[u] = tick[u]
      BY <1>0, <3>1, NothingInHand
    <3> QED
      BY <1>0, <3>1, <3>2, <3>3, RowsKept
  <2>2. CASE Queued # {}
    <3>1. PICK j \in Queued : /\ job' = [job EXCEPT ![j].status = "running", ![j].overdue = FALSE]
                              /\ tick' = [tick EXCEPT ![t].at = "read", ![t].job = j]
      BY <1>4, <2>2, ClaimsQueued
    <3>2. applied' = applied /\ reaps' = reaps /\ crashes' = crashes
      BY <1>4 DEF ClaimOne
    <3>3. j \in Jobs /\ job[j].status = "queued"
      BY DEF Queued
    <3>4. job' \in [Jobs -> Row]
      BY <1>0, <3>1, <3>3 DEF Row, Statuses
    <3>5. /\ job'[j].cursor = job[j].cursor /\ job'[j].succeeded = job[j].succeeded
          /\ job'[j].failed = job[j].failed /\ job'[j].op = job[j].op
          /\ job'[j].status = "running"
          /\ \A k \in Jobs : k # j => job'[k] = job[k]
      BY <1>0, <3>1, <3>3 DEF Row
    <3>6. ASSUME NEW k \in Jobs PROVE JobInv(k)'
      <4>1. JobInv(k)
        BY DEF BulkInv
      <4> QED
        BY <3>2, <3>5, <4>1 DEF JobInv
    <3>7. /\ tick' \in [Ticks -> Pass] /\ tick'[t].at = "read" /\ tick'[t].job = j
          /\ \A u \in Ticks : u # t => tick'[u] = tick[u]
      BY <1>0, <3>1, <3>3 DEF Pass
    <3> QED
      BY <3>2, <3>4, <3>5, <3>6, <3>7, RowsKept
  <2> QED
    BY <2>1, <2>2
<1>5. ASSUME NEW t \in Ticks, ReadRow(t) PROVE BulkInv'
  <2> DEFINE p == tick[t]
             row == job[p.job]
             n == row.cursor + 1
             q == [p EXCEPT !.at = "work", !.row = row, !.succeeded = row.succeeded,
                            !.failed = row.failed, !.next = n]
             S == applied[p.job]
  <2>1. p \in Pass /\ p.job \in Jobs /\ row \in Row /\ Total \in Nat
    BY <1>0, TickType
  <2>2. /\ p.at = "read" /\ tick' = [tick EXCEPT ![t] = q]
        /\ job' = job /\ applied' = applied /\ reaps' = reaps /\ crashes' = crashes
    BY <1>5 DEF ReadRow
  <2>3. row.status # "none" /\ Account(row.op, row.cursor, row.succeeded, row.failed, S)
    BY <2>1, <2>2 DEF BulkInv, HoldInv, InHand, JobInv
  <2>4. /\ row.cursor \in 0..Total /\ row.succeeded \in 0..Total /\ row.failed \subseteq Positions
        /\ n \in 1..(Total + 1) /\ n - 1 = row.cursor
    BY <2>1 DEF Row
  <2> HIDE DEF n
  <2>5. /\ q.at = "work" /\ q.job = p.job /\ q.row = row /\ q.next = n
        /\ q.succeeded = row.succeeded /\ q.failed = row.failed /\ q \in Pass
    BY <2>1, <2>4 DEF Pass
  <2>6. row.cursor < n /\ n <= ChunkEnd(row) + 1 /\ n = row.cursor + 1
    <3>1. ChunkEnd(row) \in 0..Total /\ row.cursor <= ChunkEnd(row)
      BY <2>1, ChunkFacts
    <3> QED
      BY <2>1, <2>4, <3>1 DEF n
  <2>7. PassInv(q, S)
    <3>1. Account(q.row.op, q.next - 1, q.succeeded, q.failed, S)
      BY <2>3, <2>4, <2>5
    <3> HIDE DEF q, S
    <3> QED
      BY <2>5, <2>6, <3>1 DEF PassInv
  <2> HIDE DEF q
  <2> QED
    BY <1>0, <2>2, <2>3, <2>5, <2>7, PassKept
<1>6. ASSUME NEW t \in Ticks, UpdatesDone(t) PROVE BulkInv'
  <2> DEFINE p == tick[t]
             q == [p EXCEPT !.at = "save"]
             S == applied[p.job]
  <2>1. /\ p \in Pass /\ p.row \in Row /\ Total \in Nat /\ p.next \in 1..(Total + 1)
        /\ p.row.cursor \in 0..Total
    BY <1>0, TickType
  <2>2. /\ p.at = "work" /\ p.row.op = "update" /\ p.next \notin Chunk(p.row)
        /\ tick' = [tick EXCEPT ![t] = q]
        /\ job' = job /\ applied' = applied /\ reaps' = reaps /\ crashes' = crashes
    BY <1>6 DEF UpdatesDone
  <2>3. PassInv(p, S) /\ job[p.job].status # "none" /\ p.row.op = job[p.job].op
    BY <2>2 DEF BulkInv, HoldInv, InHand
  <2>4. /\ p.row.cursor < p.next /\ p.next <= ChunkEnd(p.row) + 1
        /\ Account(p.row.op, p.next - 1, p.succeeded, p.failed, S)
    BY <2>2, <2>3 DEF PassInv
  <2>5. p.next - 1 = ChunkEnd(p.row)
    <3>1. Chunk(p.row) = (p.row.cursor + 1)..ChunkEnd(p.row) /\ ChunkEnd(p.row) \in 0..Total
      BY <2>1, ChunkFacts
    <3> QED
      BY <2>1, <2>2, <2>4, <3>1
  <2>6. /\ q.at = "save" /\ q.job = p.job /\ q.row = p.row /\ q.succeeded = p.succeeded
        /\ q.failed = p.failed /\ q \in Pass
    BY <2>1 DEF Pass
  <2>7. PassInv(q, S)
    BY <2>4, <2>5, <2>6 DEF PassInv
  <2> HIDE DEF q
  <2> QED
    BY <1>0, <2>2, <2>3, <2>6, <2>7, PassKept
<1>7. ASSUME NEW t \in Ticks, FindLive(t) PROVE BulkInv'
  <2> DEFINE p == tick[t]
             S == applied[p.job]
             live == Chunk(p.row) \ S
             q == [p EXCEPT !.at = "delete", !.found = live]
  <2>1. /\ p \in Pass /\ p.row \in Row /\ Total \in Nat /\ p.next \in 1..(Total + 1)
        /\ p.row.cursor \in 0..Total
    BY <1>0, TickType
  <2>2. /\ p.at = "work" /\ p.row.op = "delete"
        /\ tick' = [tick EXCEPT ![t] = q]
        /\ job' = job /\ applied' = applied /\ reaps' = reaps /\ crashes' = crashes
    BY <1>7 DEF FindLive
  <2>3. PassInv(p, S) /\ job[p.job].status # "none" /\ p.row.op = job[p.job].op
    BY <2>2 DEF BulkInv, HoldInv, InHand
  <2>4. p.next = p.row.cursor + 1 /\ Account(p.row.op, p.next - 1, p.succeeded, p.failed, S)
    BY <2>2, <2>3 DEF PassInv
  <2>5. Account(p.row.op, p.row.cursor, p.succeeded, p.failed, S)
    <3>1. p.next - 1 = p.row.cursor
      BY <2>1, <2>4
    <3> QED
      BY <2>4, <3>1
  <2>6. live \subseteq Positions /\ live \subseteq Chunk(p.row) /\ Chunk(p.row) \subseteq live \cup S
    BY DEF Chunk
  <2> HIDE DEF live
  <2>7. /\ q.at = "delete" /\ q.job = p.job /\ q.row = p.row /\ q.succeeded = p.succeeded
        /\ q.failed = p.failed /\ q.found = live /\ q \in Pass
    BY <2>1, <2>6 DEF Pass
  <2>8. PassInv(q, S)
    BY <2>2, <2>5, <2>6, <2>7 DEF PassInv
  <2> HIDE DEF q
  <2> QED
    BY <1>0, <2>2, <2>3, <2>7, <2>8, PassKept
<1>8. ASSUME NEW t \in Ticks, Save(t) PROVE BulkInv'
  <2> DEFINE p == tick[t]
             j == p.job
             end == ChunkEnd(p.row)
             status == IF end < Total THEN "queued"
                       ELSE IF p.failed # {} THEN "partially_failed" ELSE "succeeded"
             row == [job[j] EXCEPT !.cursor = end, !.succeeded = p.succeeded,
                        !.failed = p.failed, !.status = status, !.overdue = FALSE]
  <2>1. /\ p \in Pass /\ j \in Jobs /\ p.row \in Row /\ p.failed \subseteq Positions
        /\ p.succeeded \in 0..Total /\ job[j] \in Row
    BY <1>0, TickType DEF Pass
  <2>2. /\ p.at = "save" /\ job' = [job EXCEPT ![j] = row] /\ tick' = [tick EXCEPT ![t] = Idle]
        /\ applied' = applied /\ reaps' = reaps /\ crashes' = crashes
    BY <1>8 DEF Save, SavedRow, Saved
  <2>3. /\ p.row.op = job[j].op /\ job[j].status # "none"
        /\ Account(job[j].op, end, p.succeeded, p.failed, applied[j])
    BY <2>2 DEF BulkInv, HoldInv, InHand, PassInv
  <2>4. end \in 0..Total /\ status \in Statuses /\ status # "none"
    BY <2>1, ChunkFacts DEF Statuses, Done
  <2> HIDE DEF end, status
  <2>5. /\ row \in Row /\ row.cursor = end /\ row.succeeded = p.succeeded
        /\ row.failed = p.failed /\ row.op = job[j].op /\ row.status = status
    BY <2>1, <2>4 DEF Row
  <2> HIDE DEF row
  <2>6. /\ job' \in [Jobs -> Row] /\ job'[j] = row
        /\ \A k \in Jobs : k # j => job'[k] = job[k]
    BY <1>0, <2>1, <2>2, <2>5
  <2>7. ASSUME NEW k \in Jobs PROVE JobInv(k)'
    <3>1. CASE k = j
      BY <2>2, <2>3, <2>4, <2>5, <2>6, <3>1 DEF JobInv
    <3>2. CASE k # j
      <4>1. JobInv(k)
        BY DEF BulkInv
      <4> QED
        BY <2>2, <2>6, <3>2, <4>1 DEF JobInv
    <3> QED
      BY <3>1, <3>2
  <2>8. /\ tick' \in [Ticks -> Pass] /\ tick'[t].at = "idle"
        /\ \A u \in Ticks : u # t => tick'[u] = tick[u]
    BY <1>0, <2>2, NothingInHand
  <2>9. \A k \in Jobs : job[k].status # "none" => /\ job'[k].status # "none"
                                                  /\ job'[k].op = job[k].op
    BY <2>4, <2>5, <2>6
  <2> QED
    BY <1>0, <2>2, <2>6, <2>7, <2>8, <2>9, RowsKept
<1>9. ASSUME NEW t \in Ticks, Crash(t) PROVE BulkInv'
  <2>1. /\ tick' = [tick EXCEPT ![t] = Idle] /\ crashes' = crashes + 1
        /\ job' = job /\ applied' = applied /\ reaps' = reaps
    BY <1>9 DEF Crash
  <2>2. Idle \in Pass /\ ~InHand(Idle) /\ PassInv(Idle, applied'[Idle.job])
    BY NothingInHand DEF InHand, PassInv
  <2> QED
    BY <1>0, <2>1, <2>2, PassKept
<1>10. CASE UNCHANGED vars
  <2>1. job' = job /\ applied' = applied /\ tick' = tick /\ reaps' = reaps /\ crashes' = crashes
    BY <1>10 DEF vars
  <2>2. \A j \in Jobs : JobInv(j)'
    BY <2>1 DEF BulkInv, JobInv
  <2> QED
    BY <1>0, <2>1, <2>2, RowsKept
<1> QED
  BY <1>1, <1>2, <1>3, <1>4, <1>5, <1>6, <1>7, <1>8, <1>9, <1>10, UpdateRecordBulk,
     DeleteFoundBulk, ChunkFailsBulk DEF Next, Step, Work

LEMMA SpecBulk == Spec => []BulkInv
BY InitBulk, NextBulk, PTL DEF Spec

\* The rows of the jobs and what the ticks hold have their shape.
THEOREM TypeCorrect == Spec => []TypeOK
<1>1. BulkInv => TypeOK
  BY DEF BulkInv
<1> QED
  BY <1>1, SpecBulk, PTL

\* The row a client polls is the account of one walk over the list: ticks that save over
\* each other (processOneChunk by id) never mix their counts.
THEOREM OneWalkIsCounted == Spec => []CountsAgree
<1>1. BulkInv => CountsAgree
  <2> SUFFICES ASSUME BulkInv, NEW j \in Jobs
               PROVE  /\ job[j].failed \subseteq 1..job[j].cursor
                      /\ job[j].succeeded <= job[j].cursor
                      /\ LET counted == job[j].succeeded + Cardinality(job[j].failed)
                         IN IF job[j].op = "update" THEN counted >= job[j].cursor
                                                    ELSE counted <= job[j].cursor
    BY DEF CountsAgree
  <2>1. Account(job[j].op, job[j].cursor, job[j].succeeded, job[j].failed, applied[j])
    BY DEF BulkInv, JobInv
  <2> QED
    BY <2>1 DEF Account
<1> QED
  BY <1>1, SpecBulk, PTL

\* A record behind the cursor that is not reported as failed carries the change, whatever
\* ticks died or were overtaken.
THEOREM NoRecordIsSkipped == Spec => []AppliedUnlessFailed
<1>1. BulkInv => AppliedUnlessFailed
  BY DEF BulkInv, JobInv, Account, AppliedUnlessFailed
<1> QED
  BY <1>1, SpecBulk, PTL

(***************************************************************************)
(* The ticks that work on a job.                                           *)
(***************************************************************************)

\* A job that is running for too long has a place in the queue to come.
Waiting(row) == row.status = "queued" \/ (row.status = "running" /\ row.overdue)

Place(row) == IF Waiting(row) THEN 1 ELSE 0

Holds(p, j) == InHand(p) /\ p.job = j

WorkersInv == \A j \in Jobs : Cardinality(Holders(j)) + Place(job[j]) <= 1 + reaps

LEMMA HoldersMove ==
  ASSUME NEW t \in Ticks, NEW j, \A u \in Ticks : u # t => tick'[u] = tick[u]
  PROVE  /\ Cardinality(Holders(j)) \in Nat /\ Cardinality(Holders(j)') \in Nat
         /\ (Holds(tick[t], j) <=> Holds(tick'[t], j)) =>
              Cardinality(Holders(j)') = Cardinality(Holders(j))
         /\ Holds(tick[t], j) /\ ~Holds(tick'[t], j) =>
              Cardinality(Holders(j)') = Cardinality(Holders(j)) - 1
         /\ ~Holds(tick[t], j) /\ Holds(tick'[t], j) =>
              Cardinality(Holders(j)') = Cardinality(Holders(j)) + 1
<1> DEFINE S == Holders(j)
           T == Holders(j)'
<1>1. /\ S = {u \in Ticks : Holds(tick[u], j)} /\ T = {u \in Ticks : Holds(tick'[u], j)}
  BY DEF Holders, Holds, InHand
<1>2. /\ S \subseteq Ticks /\ T \subseteq Ticks /\ S \ {t} = T \ {t}
      /\ t \in S <=> Holds(tick[t], j)
      /\ t \in T <=> Holds(tick'[t], j)
  BY <1>1
<1>3. IsFiniteSet(S) /\ IsFiniteSet(T)
  BY <1>2, TicksAssumption, FS_Subset
<1>4. Cardinality(S) \in Nat /\ Cardinality(T) \in Nat
  BY <1>3, FS_CardinalityType
<1>5. /\ t \in S => Cardinality(S \ {t}) = Cardinality(S) - 1
      /\ t \notin S => Cardinality(S \cup {t}) = Cardinality(S) + 1
  BY <1>3, FS_AddElement, FS_RemoveElement
<1>6. /\ (t \in S <=> t \in T) => T = S
      /\ t \in S /\ t \notin T => T = S \ {t}
      /\ t \notin S /\ t \in T => T = S \cup {t}
  BY <1>2
<1> HIDE DEF S, T
<1>7. /\ (t \in S <=> t \in T) => Cardinality(T) = Cardinality(S)
      /\ t \in S /\ t \notin T => Cardinality(T) = Cardinality(S) - 1
      /\ t \notin S /\ t \in T => Cardinality(T) = Cardinality(S) + 1
  BY <1>5, <1>6
<1> QED
  BY <1>2, <1>4, <1>7 DEF S, T

\* A step of a tick that leaves the rows alone, and takes no job on.
LEMMA WorkersTick ==
  ASSUME TypeOK, WorkersInv, NEW t \in Ticks,
         \A u \in Ticks : u # t => tick'[u] = tick[u],
         InHand(tick'[t]) => InHand(tick[t]) /\ tick'[t].job = tick[t].job,
         job' = job, reaps' = reaps
  PROVE  WorkersInv'
<1> SUFFICES ASSUME NEW j \in Jobs
             PROVE  Cardinality(Holders(j)') + Place(job'[j]) <= 1 + reaps'
  BY DEF WorkersInv
<1>1. Holds(tick'[t], j) => Holds(tick[t], j)
  BY DEF Holds
<1>2. /\ Cardinality(Holders(j)') <= Cardinality(Holders(j))
      /\ Cardinality(Holders(j)') \in Nat /\ Cardinality(Holders(j)) \in Nat
  BY <1>1, HoldersMove
<1>3. Cardinality(Holders(j)) + Place(job[j]) <= 1 + reaps /\ Place(job[j]) \in Nat /\ reaps \in Nat
  BY DEF WorkersInv, Place, TypeOK
<1> QED
  BY <1>2, <1>3

\* A job that waits for nobody may get a place in the queue.
LEMMA WorkersRow ==
  ASSUME TypeOK, WorkersInv, tick' = tick, reaps' \in {reaps, reaps + 1},
         \A j \in Jobs : \/ Place(job'[j]) <= Place(job[j])
                         \/ Holders(j) = {} \/ (reaps' = reaps + 1 /\ Place(job'[j]) <= 1)
  PROVE  WorkersInv'
<1> SUFFICES ASSUME NEW j \in Jobs
             PROVE  Cardinality(Holders(j)') + Place(job'[j]) <= 1 + reaps'
  BY DEF WorkersInv
<1>1. Holders(j)' = Holders(j) /\ IsFiniteSet(Holders(j)) /\ Cardinality({}) = 0
  BY TicksAssumption, FS_Subset, FS_EmptySet DEF Holders
<1>2. Cardinality(Holders(j)) \in Nat /\ (Holders(j) = {} => Cardinality(Holders(j)) = 0)
  BY <1>1, FS_CardinalityType
<1>3. /\ Cardinality(Holders(j)) + Place(job[j]) <= 1 + reaps
      /\ Place(job[j]) \in {0, 1} /\ Place(job'[j]) \in {0, 1} /\ reaps \in Nat
  BY DEF WorkersInv, Place, TypeOK
<1> QED
  BY <1>1, <1>2, <1>3

LEMMA NextWorkers == BulkInv /\ WorkersInv /\ [Next]_vars => WorkersInv'
<1> SUFFICES ASSUME BulkInv, WorkersInv, [Next]_vars PROVE WorkersInv'
  OBVIOUS
<1>0. /\ TypeOK /\ job \in [Jobs -> Row] /\ tick \in [Ticks -> Pass] /\ reaps \in Nat
      /\ \A u \in Ticks : tick[u] \in Pass
  BY DEF BulkInv, TypeOK
<1>1. ASSUME NEW j \in Jobs, NEW op \in Ops, Enqueue(j, op) PROVE WorkersInv'
  <2>1. /\ job[j].status = "none" /\ tick' = tick /\ reaps' = reaps
        /\ \A k \in Jobs : k # j => job'[k] = job[k]
    BY <1>0, <1>1 DEF Enqueue
  <2>2. Holders(j) = {}
    BY <2>1 DEF BulkInv, HoldInv, Holders, InHand
  <2>3. \A k \in Jobs : Place(job'[k]) <= Place(job[k]) \/ Holders(k) = {}
    BY <2>1, <2>2 DEF Place
  <2> QED
    BY <1>0, <2>1, <2>3, WorkersRow
<1>2. ASSUME NEW j \in Jobs, Overdue(j) PROVE WorkersInv'
  <2>1. /\ tick' = tick /\ reaps' = IF Held(j) THEN reaps + 1 ELSE reaps
        /\ \A k \in Jobs : k # j => job'[k] = job[k]
    BY <1>0, <1>2 DEF Overdue
  <2>2. \A k \in Jobs : \/ Place(job'[k]) <= Place(job[k])
                        \/ Holders(k) = {} \/ (reaps' = reaps + 1 /\ Place(job'[k]) <= 1)
    BY <2>1 DEF Place, Held
  <2> QED
    BY <1>0, <2>1, <2>2, WorkersRow
<1>3. ASSUME NEW t \in Ticks, Reap(t) PROVE WorkersInv'
  <2>1. /\ tick[t].at = "idle" /\ job' = [j \in Jobs |-> ReapedRow(job[j])]
        /\ tick' = [tick EXCEPT ![t].at = "claim"] /\ reaps' = reaps
    BY <1>3 DEF Reap
  <2>2. tick'[t].at = "claim" /\ \A u \in Ticks : u # t => tick'[u] = tick[u]
    BY <1>0, <2>1 DEF Pass
  <2>3. ASSUME NEW j \in Jobs PROVE Place(job'[j]) = Place(job[j])
    <3>1. CASE job[j].status = "running" /\ job[j].overdue
      <4>1. job'[j] = [job[j] EXCEPT !.status = "queued", !.overdue = FALSE]
        BY <2>1, <3>1 DEF ReapedRow
      <4>2. job'[j].status = "queued"
        BY <1>0, <4>1 DEF Row
      <4> QED
        BY <3>1, <4>2 DEF Place, Waiting
    <3>2. CASE ~(job[j].status = "running" /\ job[j].overdue)
      <4>1. job'[j] = job[j]
        BY <2>1, <3>2 DEF ReapedRow
      <4> QED
        BY <4>1
    <3> QED
      BY <3>1, <3>2
  <2>4. ASSUME NEW j \in Jobs PROVE Cardinality(Holders(j)') = Cardinality(Holders(j))
    <3>1. ~Holds(tick[t], j) /\ ~Holds(tick'[t], j)
      BY <2>1, <2>2 DEF Holds, InHand
    <3> QED
      BY <2>2, <3>1, HoldersMove
  <2> QED
    BY <2>1, <2>3, <2>4 DEF WorkersInv
<1>4. ASSUME NEW t \in Ticks, ClaimOne(t) PROVE WorkersInv'
  <2>1. CASE Queued = {}
    <3>1. tick' = [tick EXCEPT ![t] = Idle] /\ job' = job /\ reaps' = reaps
      BY <1>4, <2>1 DEF ClaimOne
    <3>2. ~InHand(tick'[t]) /\ \A u \in Ticks : u # t => tick'[u] = tick[u]
      BY <1>0, <3>1, NothingInHand DEF InHand
    <3> QED
      BY <1>0, <3>1, <3>2, WorkersTick
  <2>2. CASE Queued # {}
    <3>1. PICK j \in Queued : /\ job' = [job EXCEPT ![j].status = "running", ![j].overdue = FALSE]
                              /\ tick' = [tick EXCEPT ![t].at = "read", ![t].job = j]
      BY <1>4, <2>2, ClaimsQueued
    <3>2. reaps' = reaps /\ tick[t].at = "claim"
      BY <1>4 DEF ClaimOne
    <3>3. j \in Jobs /\ job[j].status = "queued"
      BY DEF Queued
    <3>4. /\ job'[j].status = "running" /\ job'[j].overdue = FALSE
          /\ \A k \in Jobs : k # j => job'[k] = job[k]
      BY <1>0, <3>1, <3>3 DEF Row
    <3>5. /\ tick'[t].at = "read" /\ tick'[t].job = j
          /\ \A u \in Ticks : u # t => tick'[u] = tick[u]
      BY <1>0, <3>1, <3>3 DEF Pass
    <3>6. ASSUME NEW k \in Jobs
          PROVE  Cardinality(Holders(k)') + Place(job'[k]) <= 1 + reaps'
      <4>1. Cardinality(Holders(k)) + Place(job[k]) <= 1 + reaps /\ ~Holds(tick[t], k)
        BY <3>2 DEF WorkersInv, Holds, InHand
      <4>2. CASE k = j
        <5>1. Place(job[j]) = 1 /\ Place(job'[j]) = 0 /\ Holds(tick'[t], j)
          BY <3>3, <3>4, <3>5 DEF Place, Waiting, Holds, InHand
        <5>2. Cardinality(Holders(j)') = Cardinality(Holders(j)) + 1 /\ Cardinality(Holders(j)) \in Nat
          BY <3>5, <4>1, <4>2, <5>1, HoldersMove
        <5>3. Cardinality(Holders(j)) + 1 <= 1 + reaps
          BY <4>1, <4>2, <5>1
        <5> QED
          BY <1>0, <3>2, <4>2, <5>1, <5>2, <5>3
      <4>3. CASE k # j
        <5>1. ~Holds(tick'[t], k) /\ job'[k] = job[k]
          BY <3>4, <3>5, <4>3 DEF Holds
        <5>2. Cardinality(Holders(k)') = Cardinality(Holders(k))
          BY <3>5, <4>1, <5>1, HoldersMove
        <5> QED
          BY <3>2, <4>1, <5>1, <5>2
      <4> QED
        BY <4>2, <4>3
    <3> QED
      BY <3>6 DEF WorkersInv
  <2> QED
    BY <2>1, <2>2
<1>5. ASSUME NEW t \in Ticks, ReadRow(t) \/ Work(t) PROVE WorkersInv'
  <2>1. /\ job' = job /\ reaps' = reaps
        /\ \A u \in Ticks : u # t => tick'[u] = tick[u]
    BY <1>0, <1>5 DEF ReadRow, Work, UpdateRecord, UpdatesDone, FindLive, DeleteFound, ChunkFails
  <2>2. InHand(tick[t])
    BY <1>5 DEF InHand, ReadRow, Work, UpdateRecord, UpdatesDone, FindLive, DeleteFound, ChunkFails
  <2>3. tick'[t].job = tick[t].job
    <3>1. tick[t] \in Pass
      BY <1>0
    <3>2. CASE ReadRow(t)
      BY <1>0, <3>1, <3>2 DEF ReadRow, Pass
    <3>3. ASSUME NEW outcome, UpdateRecord(t, outcome) PROVE tick'[t].job = tick[t].job
      BY <1>0, <3>1, <3>3 DEF UpdateRecord, Pass
    <3>4. CASE UpdatesDone(t)
      BY <1>0, <3>1, <3>4 DEF UpdatesDone, Pass
    <3>5. CASE FindLive(t)
      BY <1>0, <3>1, <3>5 DEF FindLive, Pass
    <3>6. CASE DeleteFound(t)
      BY <1>0, <3>1, <3>6 DEF DeleteFound, Pass
    <3>7. CASE ChunkFails(t)
      BY <1>0, <3>1, <3>7 DEF ChunkFails, Pass
    <3> QED
      BY <1>5, <3>2, <3>3, <3>4, <3>5, <3>6, <3>7 DEF Work
  <2> QED
    BY <1>0, <2>1, <2>2, <2>3, WorkersTick
<1>6. ASSUME NEW t \in Ticks, Save(t) PROVE WorkersInv'
  <2> DEFINE j == tick[t].job
  <2>1. /\ tick[t].at = "save" /\ job' = [job EXCEPT ![j] = SavedRow(tick[t])]
        /\ tick' = [tick EXCEPT ![t] = Idle] /\ reaps' = reaps
    BY <1>6 DEF Save
  <2>2. /\ ~InHand(tick'[t]) /\ \A u \in Ticks : u # t => tick'[u] = tick[u]
        /\ \A k \in Jobs : k # j => job'[k] = job[k]
    BY <1>0, <2>1, NothingInHand DEF InHand
  <2>3. ASSUME NEW k \in Jobs
        PROVE  Cardinality(Holders(k)') + Place(job'[k]) <= 1 + reaps'
    <3>1. /\ Cardinality(Holders(k)) + Place(job[k]) <= 1 + reaps /\ ~Holds(tick'[t], k)
          /\ Place(job[k]) \in {0, 1} /\ Place(job'[k]) \in {0, 1}
      BY <2>2 DEF WorkersInv, Holds, Place
    <3>2. CASE k = j
      <4>1. Holds(tick[t], k)
        BY <2>1, <3>2 DEF Holds, InHand
      <4>2. Cardinality(Holders(k)') = Cardinality(Holders(k)) - 1 /\ Cardinality(Holders(k)) \in Nat
        BY <2>2, <3>1, <4>1, HoldersMove
      <4> QED
        BY <1>0, <2>1, <3>1, <4>2
    <3>3. CASE k # j
      <4>1. ~Holds(tick[t], k) /\ job'[k] = job[k]
        BY <2>2, <3>3 DEF Holds
      <4>2. Cardinality(Holders(k)') = Cardinality(Holders(k))
        BY <2>2, <3>1, <4>1, HoldersMove
      <4> QED
        BY <2>1, <3>1, <4>1, <4>2
    <3> QED
      BY <3>2, <3>3
  <2> QED
    BY <2>3 DEF WorkersInv
<1>7. ASSUME NEW t \in Ticks, Crash(t) PROVE WorkersInv'
  <2>1. tick' = [tick EXCEPT ![t] = Idle] /\ job' = job /\ reaps' = reaps
    BY <1>7 DEF Crash
  <2>2. ~InHand(tick'[t]) /\ \A u \in Ticks : u # t => tick'[u] = tick[u]
    BY <1>0, <2>1, NothingInHand DEF InHand
  <2> QED
    BY <1>0, <2>1, <2>2, WorkersTick
<1>8. CASE UNCHANGED vars
  <2>1. job' = job /\ tick' = tick /\ reaps' = reaps
    BY <1>8 DEF vars
  <2>2. \A k \in Jobs : Place(job'[k]) <= Place(job[k])
    BY <2>1 DEF Place
  <2> QED
    BY <1>0, <2>1, <2>2, WorkersRow
<1> QED
  BY <1>1, <1>2, <1>3, <1>4, <1>5, <1>6, <1>7, <1>8 DEF Next, Step

LEMMA InitWorkers == Init => WorkersInv
<1> SUFFICES ASSUME Init, NEW j \in Jobs
             PROVE  Cardinality(Holders(j)) + Place(job[j]) <= 1 + reaps
  BY DEF WorkersInv
<1>1. Holders(j) = {} /\ Place(job[j]) = 0 /\ reaps = 0
  BY NothingInHand DEF Init, Holders, Place, Waiting, NewRow
<1> QED
  BY <1>1, FS_EmptySet

\* The chunks of a job are worked on one at a time, but for what reap() takes from a tick
\* that is alive.
THEOREM OneWorkerMoreThanWasTaken == Spec => []WorkersBounded
<1>1. BulkInv /\ WorkersInv => WorkersBounded
  <2> SUFFICES ASSUME BulkInv, WorkersInv, NEW j \in Jobs
               PROVE  Cardinality(Holders(j)) + (IF job[j].status = "queued" THEN 1 ELSE 0) <= 1 + reaps
    BY DEF WorkersBounded
  <2>1. Cardinality(Holders(j)) \in Nat /\ reaps \in Nat
    <3>1. IsFiniteSet(Holders(j))
      BY TicksAssumption, FS_Subset DEF Holders
    <3> QED
      BY <3>1, FS_CardinalityType DEF BulkInv, TypeOK
  <2>2. Cardinality(Holders(j)) + Place(job[j]) <= 1 + reaps
    BY DEF WorkersInv
  <2>3. Place(job[j]) \in {0, 1} /\ (job[j].status = "queued" => Place(job[j]) = 1)
    BY DEF Place, Waiting
  <2> QED
    BY <2>1, <2>2, <2>3
<1> QED
  BY <1>1, SpecBulk, InitWorkers, NextWorkers, PTL DEF Spec
=============================================================================
