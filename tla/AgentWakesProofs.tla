-------------------------- MODULE AgentWakesProofs --------------------------
(***************************************************************************)
(* Proofs about the wake queue, for every number of wakes, Runs, Runners,  *)
(* claim requests and claims, and every choice of disruptions.             *)
(***************************************************************************)
EXTENDS AgentWakes, TLAPS

-----------------------------------------------------------------------------
(* The inductive invariant behind TypeOK.  A handler uses the row, Runner  *)
(* and Run its local variables name long after it read them, so the type   *)
(* of what it writes rests on what holds of them at each pc; and a row is  *)
(* reaped into attempts + 1, so that rests on AttemptsBound.               *)

\* A row below the attempts at which it fails.
GoodRow == {row \in Row : IsOpen(row) => row.attempts < MaxAttempts}

PollsInFlight ==
  \A p \in Polls :
    /\ poll[p].pc # "idle" => poll[p].runner \in Runners
    /\ poll[p].pc \notin {"idle", "checked"} =>
         /\ poll[p].wake \in Wakes
         /\ poll[p].nonce \in 1..claims
         /\ wake[poll[p].wake].status # "absent"

CreatorsInFlight ==
  /\ \A x \in Wakes \cup Polls : creator[x].pc # "none" =>
       /\ creator[x].wake \in Wakes
       /\ wake[creator[x].wake].status # "absent"
       /\ creator[x].pc \notin {"create", "undo"} => creator[x].run \in Runs
  /\ \A w \in Wakes : creator[w].pc # "none" => creator[w].wake = w
  /\ \A p \in Polls : creator[p].pc # "none" =>
       poll[p].pc = "ensure" /\ creator[p].kind # "trigger"

TypeInv == TypeOK /\ wake \in [Wakes -> GoodRow] /\ PollsInFlight /\ CreatorsInFlight

\* No step takes a row out of the table.
NoneVanishes ==
  \A w \in Wakes : wake[w].status # "absent" => wake'[w].status # "absent"

-----------------------------------------------------------------------------
(* What each row update of the queue yields.                               *)

LEMMA RowConstants ==
  /\ 0 \in 0..MaxClaims
  /\ 0 \in 0..MaxAttempts /\ 0 < MaxAttempts
  /\ Ended \cup {"queued", "claimed"} \subseteq Statuses
  BY ConstantsAssumption DEF Statuses, Ended

LEMMA NewRowGood ==
  ASSUME NEW rec \in Records \cup {NoRecord}
  PROVE  NewRow(rec) \in GoodRow /\ NewRow(rec).status = "queued"
  BY RowConstants DEF NewRow, GoodRow, Row, Statuses

LEMMA AttachedRow ==
  ASSUME NEW row \in GoodRow, NEW u \in Runs
  PROVE  [row EXCEPT !.run = u] \in GoodRow /\ [row EXCEPT !.run = u].status = row.status
  BY DEF GoodRow, Row, IsOpen

LEMMA RewakeRow ==
  ASSUME NEW row \in GoodRow, NEW b \in BOOLEAN
  PROVE  [row EXCEPT !.rewake = b] \in GoodRow /\ [row EXCEPT !.rewake = b].status = row.status
  BY DEF GoodRow, Row, IsOpen

LEMMA EndedRow ==
  ASSUME NEW row \in GoodRow, NEW st \in Ended
  PROVE  [row EXCEPT !.status = st] \in GoodRow /\ [row EXCEPT !.status = st].status = st
  BY RowConstants DEF GoodRow, Row, IsOpen, Ended

LEMMA UnstartedRow ==
  ASSUME NEW row \in GoodRow
  PROVE  Unstarted(row) \in GoodRow /\ (row.status # "absent" => Unstarted(row).status # "absent")
  BY EndedRow DEF Unstarted, Ended

LEMMA ReleasedRow ==
  ASSUME NEW row \in GoodRow, IsOpen(row)
  PROVE  Released(row) \in GoodRow /\ Released(row).status = "queued"
<1>1. Released(row) \in Row
  BY RowConstants, Zenon DEF GoodRow, Row, Released
<1>2. Released(row).status = "queued" /\ Released(row).attempts = row.attempts
  BY DEF GoodRow, Row, Released
<1> QED
  BY <1>1, <1>2 DEF GoodRow

LEMMA CompletedRow ==
  ASSUME NEW row \in GoodRow, IsOpen(row),
         NEW out \in {"limit", "rewoken", "done", "failed", "canceled"}
  PROVE  Completed(row, out) \in GoodRow /\ Completed(row, out).status # "absent"
<1>1. CASE out \in {"limit", "rewoken"}
  <2>1. (out = "limit") \in BOOLEAN /\ (row.must \/ out = "rewoken") \in BOOLEAN
    OBVIOUS
  <2>2. Completed(row, out) \in Row
    BY <1>1, <2>1, RowConstants, Zenon DEF GoodRow, Row, Completed
  <2>3. Completed(row, out).status = "queued" /\ Completed(row, out).attempts = row.attempts
    BY <1>1 DEF GoodRow, Row, Completed
  <2> QED
    BY <2>2, <2>3 DEF GoodRow
<1>2. CASE out \notin {"limit", "rewoken"}
  <2>1. Completed(row, out) \in Row
    BY <1>2, RowConstants DEF GoodRow, Row, Completed, Ended
  <2>2. Completed(row, out).status = out /\ Completed(row, out).attempts = row.attempts
    BY <1>2 DEF GoodRow, Row, Completed
  <2> QED
    BY <2>1, <2>2 DEF GoodRow, IsOpen
<1> QED
  BY <1>1, <1>2

LEMMA ReapedRow ==
  ASSUME NEW row \in GoodRow, IsOpen(row)
  PROVE  Reaped(row) \in GoodRow /\ Reaped(row).status # "absent"
<1>1. row.attempts \in 0..MaxAttempts /\ row.attempts + 1 \in 0..MaxAttempts
  BY ConstantsAssumption DEF GoodRow, Row
<1>2. Released(row) \in Row
  BY ReleasedRow DEF GoodRow
<1>3. Reaped(row) \in Row
  BY <1>1, <1>2, RowConstants, Zenon DEF Row, Reaped, Released, Ended
<1>4. /\ Reaped(row).attempts = row.attempts + 1
      /\ Reaped(row).status = IF row.attempts + 1 >= MaxAttempts THEN "failed" ELSE "queued"
  BY <1>2 DEF Row, Reaped, Released, GoodRow
<1> QED
  BY <1>1, <1>3, <1>4, ConstantsAssumption DEF GoodRow, IsOpen

-----------------------------------------------------------------------------
(* What the steps leave alone.                                             *)

LEMMA PollsKept ==
  ASSUME TypeInv, NoneVanishes, claims' \in Nat, claims <= claims', poll' = poll
  PROVE  PollsInFlight'
<1>1. claims \in Nat
  BY ConstantsAssumption DEF TypeInv, TypeOK
<1> QED
  BY <1>1 DEF TypeInv, PollsInFlight, NoneVanishes

LEMMA CreatorsKept ==
  ASSUME TypeInv, NoneVanishes, creator' = creator, poll' = poll
  PROVE  CreatorsInFlight'
  BY DEF TypeInv, CreatorsInFlight, NoneVanishes

\* A step that writes neither rows nor claim requests nor dispatches.
LEMMA Elsewhere ==
  ASSUME TypeInv, UNCHANGED <<wake, claims, poll, creator>>, TypeOK'
  PROVE  TypeInv'
  BY DEF TypeInv, PollsInFlight, CreatorsInFlight

\* A step that writes row w only.
LEMMA OneRow ==
  ASSUME TypeInv, NEW w \in Wakes, NEW row \in GoodRow,
         wake' = [wake EXCEPT ![w] = row],
         wake[w].status # "absent" => row.status # "absent"
  PROVE  wake' \in [Wakes -> GoodRow] /\ wake' \in [Wakes -> Row] /\ NoneVanishes
  BY DEF TypeInv, NoneVanishes, GoodRow

-----------------------------------------------------------------------------
(* enqueue and dispatchRun.                                                *)

LEMMA InsertOrMergeType ==
  ASSUME TypeInv, NEW rec \in Records \cup {NoRecord}, NEW kind \in {"trigger", "mention"},
         InsertOrMerge(rec, kind)
  PROVE  /\ wake' \in [Wakes -> GoodRow] /\ wake' \in [Wakes -> Row] /\ NoneVanishes
         /\ creator' \in [Wakes \cup Polls -> Creator]
         /\ poll' = poll => CreatorsInFlight'
<1>1. CASE \E w \in Wakes : /\ wake[w].status = "absent"
                            /\ wake' = [wake EXCEPT ![w] = NewRow(rec)]
                            /\ creator' = [creator EXCEPT ![w] = Creating(w, kind)]
  <2>1. PICK w \in Wakes : /\ wake[w].status = "absent"
                           /\ wake' = [wake EXCEPT ![w] = NewRow(rec)]
                           /\ creator' = [creator EXCEPT ![w] = Creating(w, kind)]
    BY <1>1
  <2>2. wake' \in [Wakes -> GoodRow] /\ wake' \in [Wakes -> Row] /\ NoneVanishes
    BY <2>1, NewRowGood, OneRow
  <2>3. creator' \in [Wakes \cup Polls -> Creator]
    BY <2>1 DEF TypeInv, TypeOK, Creating, Creator
  <2>4. wake'[w].status = "queued"
    BY <2>1, NewRowGood DEF TypeInv, TypeOK
  <2>5. poll' = poll => CreatorsInFlight'
    BY <2>1, <2>2, <2>4, ConstantsAssumption
    DEF TypeInv, TypeOK, Creating, CreatorsInFlight, NoneVanishes
  <2> QED
    BY <2>2, <2>3, <2>5
<1>2. CASE \E w \in OpenFor(rec) :
             wake' = [wake EXCEPT ![w].rewake = @ \/ wake[w].status = "claimed"]
             /\ UNCHANGED creator
  <2>1. PICK w \in Wakes :
          wake' = [wake EXCEPT ![w].rewake = @ \/ wake[w].status = "claimed"]
          /\ UNCHANGED creator
    BY <1>2 DEF OpenFor
  <2> DEFINE b == wake[w].rewake \/ wake[w].status = "claimed"
  <2>2. b \in BOOLEAN /\ wake[w] \in GoodRow
    BY DEF TypeInv, TypeOK
  <2>3. wake' = [wake EXCEPT ![w] = [wake[w] EXCEPT !.rewake = b]]
    BY <2>1
  <2>4. [wake[w] EXCEPT !.rewake = b] \in GoodRow
        /\ [wake[w] EXCEPT !.rewake = b].status = wake[w].status
    BY <2>2, RewakeRow
  <2>5. wake' \in [Wakes -> GoodRow] /\ wake' \in [Wakes -> Row] /\ NoneVanishes
    BY <2>3, <2>4, OneRow
  <2> QED
    BY <2>1, <2>5, CreatorsKept DEF TypeInv, TypeOK
<1> QED
  BY <1>1, <1>2 DEF InsertOrMerge

LEMMA EnqueueType ==
  ASSUME TypeInv, NEW rec \in Records, NEW kind \in Kinds, Enqueue(rec, kind)
  PROVE  TypeInv'
<1>1. /\ wake' \in [Wakes -> GoodRow] /\ wake' \in [Wakes -> Row] /\ NoneVanishes
      /\ creator' \in [Wakes \cup Polls -> Creator]
      /\ CreatorsInFlight'
  BY InsertOrMergeType, ConstantsAssumption DEF Enqueue
<1>2. TypeOK'
  BY <1>1 DEF TypeInv, TypeOK, Enqueue, runVars, runnerVars, clientVars
<1>3. PollsInFlight'
  BY <1>1, <1>2, PollsKept, ConstantsAssumption DEF TypeInv, TypeOK, Enqueue
<1> QED
  BY <1>1, <1>2, <1>3 DEF TypeInv

LEMMA CreateRunType ==
  ASSUME TypeInv, NEW x \in Wakes \cup Polls, CreateRun(x)
  PROVE  TypeInv'
<1>1. /\ UNCHANGED <<wake, claims, poll>> /\ creator[x].pc = "create"
      /\ \E u \in Runs, pc \in {"blocked", "attach"} :
           creator' = [creator EXCEPT ![x].pc = pc, ![x].run = u]
  BY DEF CreateRun, rowVars
<1>2. creator' \in [Wakes \cup Polls -> Creator]
  BY <1>1 DEF TypeInv, TypeOK, Creator
<1>3. runStatus' \in [Runs -> RunStates] /\ runFor' \in [Runs -> Wakes \cup {NoWake}]
  BY DEF TypeInv, TypeOK, CreatorsInFlight, CreateRun, RunStates
<1>4. TypeOK'
  BY <1>1, <1>2, <1>3 DEF TypeInv, TypeOK, CreateRun, rowVars, runnerVars, clientVars
<1>5. CreatorsInFlight'
  BY <1>1 DEF TypeInv, TypeOK, CreatorsInFlight, Creator
<1> QED
  BY <1>1, <1>4, <1>5 DEF TypeInv, PollsInFlight

\* The steps of a dispatch that write the row and move on.
LEMMA DispatchStepType ==
  ASSUME TypeInv, NEW x \in Wakes \cup Polls, creator[x].pc # "none",
         NEW row \in GoodRow,
         wake[creator[x].wake].status # "absent" => row.status # "absent",
         wake' = [wake EXCEPT ![creator[x].wake] = row],
         NEW c \in Creator,
         creator' = [creator EXCEPT ![x] = c],
         c.pc # "none" => /\ c.wake = creator[x].wake /\ c.kind = creator[x].kind
                          /\ c.pc \notin {"create", "undo"} => c.run \in Runs,
         UNCHANGED <<claims, creds, runFor, runnerVars, completing, after,
                     canceling, clientVars, poll>>,
         runStatus' \in [Runs -> RunStates]
  PROVE  TypeInv'
<1>1. wake' \in [Wakes -> GoodRow] /\ wake' \in [Wakes -> Row] /\ NoneVanishes
  BY OneRow DEF TypeInv, CreatorsInFlight
<1>2. creator' \in [Wakes \cup Polls -> Creator]
  BY DEF TypeInv, TypeOK
<1>3. TypeOK'
  BY <1>1, <1>2 DEF TypeInv, TypeOK, runnerVars, clientVars
<1>4. PollsInFlight'
  BY <1>1, <1>3, PollsKept, ConstantsAssumption DEF TypeInv, TypeOK
<1>5. CreatorsInFlight'
  BY <1>1, <1>2 DEF TypeInv, TypeOK, CreatorsInFlight, NoneVanishes, Creator
<1> QED
  BY <1>1, <1>3, <1>4, <1>5 DEF TypeInv

LEMMA BlockedRunType ==
  ASSUME TypeInv, NEW x \in Wakes \cup Polls, BlockedRun(x)
  PROVE  TypeInv'
<1> DEFINE w == creator[x].wake
           c == [creator[x] EXCEPT !.pc = "reattach"]
<1>1. w \in Wakes /\ wake[w] \in GoodRow /\ creator[x] \in Creator /\ creator[x].pc = "blocked"
  BY DEF TypeInv, TypeOK, CreatorsInFlight, BlockedRun
<1>2. Unstarted(wake[w]) \in GoodRow
      /\ (wake[w].status # "absent" => Unstarted(wake[w]).status # "absent")
  BY <1>1, UnstartedRow
<1>3. c \in Creator /\ c.wake = w /\ c.kind = creator[x].kind /\ c.run \in Runs
  BY <1>1 DEF Creator, TypeInv, CreatorsInFlight
<1>4. wake' = [wake EXCEPT ![w] = Unstarted(wake[w])] /\ creator' = [creator EXCEPT ![x] = c]
  BY DEF BlockedRun
<1> QED
  BY <1>1, <1>2, <1>3, <1>4, DispatchStepType
  DEF BlockedRun, TypeInv, TypeOK, runVars, runnerVars, clientVars

LEMMA AttachRunType ==
  ASSUME TypeInv, NEW x \in Wakes \cup Polls, AttachRun(x)
  PROVE  TypeInv'
<1> DEFINE w == creator[x].wake
           c == [creator[x] EXCEPT !.pc = "execute"]
           row == [wake[w] EXCEPT !.run = creator[x].run]
<1>1. /\ w \in Wakes /\ wake[w] \in GoodRow /\ creator[x] \in Creator
      /\ creator[x].pc = "attach" /\ creator[x].run \in Runs
  BY DEF TypeInv, TypeOK, CreatorsInFlight, AttachRun
<1>2. row \in GoodRow /\ row.status = wake[w].status
  BY <1>1, AttachedRow
<1>3. c \in Creator /\ c.wake = w /\ c.kind = creator[x].kind /\ c.run \in Runs
  BY <1>1 DEF Creator
<1>4. wake' = [wake EXCEPT ![w] = row] /\ creator' = [creator EXCEPT ![x] = c]
  BY DEF AttachRun
<1> QED
  BY <1>1, <1>2, <1>3, <1>4, DispatchStepType
  DEF AttachRun, TypeInv, TypeOK, runVars, runnerVars, clientVars

LEMMA DispatchedCreator ==
  ASSUME TypeInv, NEW x \in Wakes \cup Polls, creator[x].pc = "execute"
  PROVE  /\ Dispatched(x) \in Creator
         /\ Dispatched(x).pc # "none" =>
              /\ Dispatched(x).wake = creator[x].wake
              /\ Dispatched(x).kind = creator[x].kind
              /\ Dispatched(x).run \in Runs
  BY DEF TypeInv, TypeOK, CreatorsInFlight, Dispatched, Creator, NoCreator

LEMMA DispatchDoneType ==
  ASSUME TypeInv, NEW x \in Wakes \cup Polls, DispatchDone(x)
  PROVE  TypeInv'
<1> DEFINE w == creator[x].wake
<1>1. w \in Wakes /\ wake[w] \in GoodRow /\ creator[x].pc = "execute"
  BY DEF TypeInv, TypeOK, CreatorsInFlight, DispatchDone
<1>2. wake' = [wake EXCEPT ![w] = wake[w]]
  BY <1>1 DEF TypeInv, TypeOK, DispatchDone, rowVars
<1> QED
  BY <1>1, <1>2, DispatchedCreator, DispatchStepType
  DEF DispatchDone, TypeInv, TypeOK, rowVars, runVars, runnerVars, clientVars

LEMMA DispatchFailsType ==
  ASSUME TypeInv, NEW x \in Wakes \cup Polls, DispatchFails(x)
  PROVE  TypeInv'
<1> DEFINE w == creator[x].wake
<1>1. w \in Wakes /\ wake[w] \in GoodRow /\ creator[x].pc = "execute"
  BY DEF TypeInv, TypeOK, CreatorsInFlight, DispatchFails
<1>2. Unstarted(wake[w]) \in GoodRow
      /\ (wake[w].status # "absent" => Unstarted(wake[w]).status # "absent")
  BY <1>1, UnstartedRow
<1>3. wake' = [wake EXCEPT ![w] = Unstarted(wake[w])]
  BY DEF DispatchFails
<1>4. runStatus' \in [Runs -> RunStates]
  BY DEF TypeInv, TypeOK, DispatchFails, RunMoved, RunStates
<1> QED
  BY <1>1, <1>2, <1>3, <1>4, DispatchedCreator, DispatchStepType
  DEF DispatchFails, runnerVars, clientVars

LEMMA CreateRunFailsType ==
  ASSUME TypeInv, NEW x \in Wakes \cup Polls, CreateRunFails(x)
  PROVE  TypeInv'
<1> DEFINE w == creator[x].wake
           c == IF creator[x].kind = "trigger" THEN NoCreator
                ELSE [creator[x] EXCEPT !.pc = "undo"]
<1>1. w \in Wakes /\ wake[w] \in GoodRow /\ creator[x] \in Creator /\ creator[x].pc = "create"
  BY DEF TypeInv, TypeOK, CreatorsInFlight, CreateRunFails
<1>2. PICK row \in {Unstarted(wake[w]), wake[w]} : wake' = [wake EXCEPT ![w] = row]
  <2>1. wake = [wake EXCEPT ![w] = wake[w]]
    BY <1>1 DEF TypeInv, TypeOK
  <2> QED
    BY <2>1 DEF CreateRunFails
<1>3. row \in GoodRow /\ (wake[w].status # "absent" => row.status # "absent")
  BY <1>1, UnstartedRow
<1>4. /\ c \in Creator
      /\ c.pc # "none" => c.wake = w /\ c.kind = creator[x].kind /\ c.pc = "undo"
  BY <1>1 DEF Creator, NoCreator
<1>5. creator' = [creator EXCEPT ![x] = c]
  BY DEF CreateRunFails
<1> QED
  BY <1>1, <1>2, <1>3, <1>4, <1>5, DispatchStepType
  DEF CreateRunFails, TypeInv, TypeOK, runVars, runnerVars, clientVars

LEMMA UndoEnqueueType ==
  ASSUME TypeInv, NEW w \in Wakes, UndoEnqueue(w)
  PROVE  TypeInv'
<1>1. creator[w].pc = "undo" /\ creator[w].wake = w /\ wake[w] \in GoodRow
  BY DEF TypeInv, CreatorsInFlight, UndoEnqueue
<1>2. [wake[w] EXCEPT !.status = "canceled"] \in GoodRow
      /\ [wake[w] EXCEPT !.status = "canceled"].status # "absent"
  BY <1>1, EndedRow DEF Ended
<1>3. wake' = [wake EXCEPT ![w] = [wake[w] EXCEPT !.status = "canceled"]]
  BY DEF UndoEnqueue
<1>4. NoCreator \in Creator /\ NoCreator.pc = "none"
  BY DEF NoCreator, Creator
<1> QED
  BY <1>1, <1>2, <1>3, <1>4, DispatchStepType
  DEF UndoEnqueue, TypeInv, TypeOK, runVars, runnerVars, clientVars

LEMMA ReattachRunType ==
  ASSUME TypeInv, NEW x \in Wakes \cup Polls, ReattachRun(x)
  PROVE  TypeInv'
<1> DEFINE w == creator[x].wake
           row == [wake[w] EXCEPT !.run = creator[x].run]
<1>1. /\ w \in Wakes /\ wake[w] \in GoodRow
      /\ creator[x].pc = "reattach" /\ creator[x].run \in Runs
  BY DEF TypeInv, TypeOK, CreatorsInFlight, ReattachRun
<1>2. row \in GoodRow /\ row.status = wake[w].status
  BY <1>1, AttachedRow
<1>3. wake' = [wake EXCEPT ![w] = row] /\ creator' = [creator EXCEPT ![x] = NoCreator]
  BY DEF ReattachRun
<1>4. wake' \in [Wakes -> GoodRow] /\ wake' \in [Wakes -> Row] /\ NoneVanishes
  BY <1>1, <1>2, <1>3, OneRow
<1>5. creator' \in [Wakes \cup Polls -> Creator]
  BY <1>3 DEF TypeInv, TypeOK, NoCreator, Creator
<1>6. poll' \in [Polls -> PollState]
  <2>1. poll \in [Polls -> PollState]
    BY DEF TypeInv, TypeOK
  <2>2. CASE x \in Polls
    <3> DEFINE q == [poll[x] EXCEPT !.pc = "mint", !.run = creator[x].run]
    <3>1. q \in PollState
      BY <1>1, <2>1, <2>2 DEF PollState
    <3>2. poll' = [poll EXCEPT ![x] = q]
      BY <2>1, <2>2 DEF ReattachRun, PollState
    <3> QED
      BY <2>1, <3>1, <3>2
  <2>3. CASE x \notin Polls
    BY <2>1, <2>3 DEF ReattachRun
  <2> QED
    BY <2>2, <2>3
<1>7. TypeOK'
  BY <1>4, <1>5, <1>6 DEF TypeInv, TypeOK, ReattachRun, runVars, runnerVars, clientVars
<1>8. PollsInFlight'
  <2> SUFFICES ASSUME NEW p \in Polls
               PROVE  /\ poll'[p].pc # "idle" => poll'[p].runner \in Runners
                      /\ poll'[p].pc \notin {"idle", "checked"} =>
                           /\ poll'[p].wake \in Wakes
                           /\ poll'[p].nonce \in 1..claims
                           /\ wake'[poll'[p].wake].status # "absent"
    BY DEF PollsInFlight, ReattachRun
  <2>1. poll[p].pc \notin {"idle", "checked"} =>
          poll[p].wake \in Wakes /\ poll[p].nonce \in 1..claims
          /\ wake'[poll[p].wake].status # "absent"
    BY <1>4 DEF TypeInv, PollsInFlight, NoneVanishes
  <2>2. x \in Polls => poll[x].pc = "ensure"
    BY <1>1 DEF TypeInv, CreatorsInFlight
  <2>3. /\ poll'[p].runner = poll[p].runner /\ poll'[p].wake = poll[p].wake
        /\ poll'[p].nonce = poll[p].nonce
        /\ poll'[p].pc = poll[p].pc \/ poll[p].pc = "ensure"
    BY <2>2 DEF TypeInv, TypeOK, ReattachRun, PollState
  <2> QED
    BY <2>1, <2>3 DEF TypeInv, PollsInFlight
<1>9. CreatorsInFlight'
  BY <1>3, <1>4 DEF TypeInv, TypeOK, CreatorsInFlight, ReattachRun, NoneVanishes, NoCreator, PollState
<1> QED
  BY <1>4, <1>7, <1>8, <1>9 DEF TypeInv

-----------------------------------------------------------------------------
(* claim.                                                                  *)

\* A step that moves the request p to q.
LEMMA PollStep ==
  ASSUME TypeInv, NoneVanishes, claims' \in Nat, claims <= claims',
         NEW p \in Polls, NEW q \in PollState, poll' = [poll EXCEPT ![p] = q],
         q.pc # "idle" => q.runner \in Runners,
         q.pc \notin {"idle", "checked"} =>
           q.wake \in Wakes /\ q.nonce \in 1..claims' /\ wake'[q.wake].status # "absent"
  PROVE  poll' \in [Polls -> PollState] /\ PollsInFlight'
<1>1. poll \in [Polls -> PollState] /\ claims \in Nat
  BY ConstantsAssumption DEF TypeInv, TypeOK
<1>2. PollsInFlight'
  <2> SUFFICES ASSUME NEW o \in Polls
               PROVE  /\ poll'[o].pc # "idle" => poll'[o].runner \in Runners
                      /\ poll'[o].pc \notin {"idle", "checked"} =>
                           /\ poll'[o].wake \in Wakes
                           /\ poll'[o].nonce \in 1..claims'
                           /\ wake'[poll'[o].wake].status # "absent"
    BY DEF PollsInFlight
  <2>1. CASE o = p
    BY <1>1, <2>1
  <2>2. CASE o # p
    <3>1. poll'[o] = poll[o]
      BY <1>1, <2>2
    <3> QED
      BY <1>1, <3>1 DEF TypeInv, PollsInFlight, NoneVanishes
  <2> QED
    BY <2>1, <2>2
<1> QED
  BY <1>1, <1>2

\* The dispatches are untouched by a request that waits for none of them.
LEMMA CreatorsKeptByPoll ==
  ASSUME TypeInv, NoneVanishes, creator' = creator,
         NEW p \in Polls, poll[p].pc # "ensure",
         NEW q \in PollState, poll' = [poll EXCEPT ![p] = q]
  PROVE  CreatorsInFlight'
  BY DEF TypeInv, TypeOK, CreatorsInFlight, NoneVanishes

\* A request that gives up takes its dispatch with it.
LEMMA CreatorDropped ==
  ASSUME TypeInv, NoneVanishes, NEW p \in Polls,
         creator' = [creator EXCEPT ![p] = NoCreator],
         poll' = [poll EXCEPT ![p] = IdlePoll]
  PROVE  creator' \in [Wakes \cup Polls -> Creator] /\ CreatorsInFlight'
<1>1. creator' \in [Wakes \cup Polls -> Creator]
  BY DEF TypeInv, TypeOK, NoCreator, Creator
<1>2. creator'[p].pc = "none"
  BY DEF TypeInv, TypeOK, NoCreator
<1>3. \A x \in Wakes \cup Polls : x # p => creator'[x] = creator[x]
  BY DEF TypeInv, TypeOK
<1>4. \A o \in Polls : o # p => poll'[o] = poll[o]
  BY DEF TypeInv, TypeOK
<1> QED
  BY <1>1, <1>2, <1>3, <1>4 DEF TypeInv, CreatorsInFlight, NoneVanishes

LEMMA IdlePollType == IdlePoll \in PollState /\ IdlePoll.pc = "idle"
  BY RowConstants DEF IdlePoll, PollState

LEMMA PollRoundType ==
  ASSUME TypeInv, NEW p \in Polls, NEW r \in Runners, PollRound(p, r)
  PROVE  TypeInv'
<1> DEFINE q == [IdlePoll EXCEPT !.pc = "checked", !.runner = r]
<1>1. q \in PollState /\ q.pc = "checked" /\ q.runner = r
  BY RowConstants DEF IdlePoll, PollState
<1>2. /\ NoneVanishes /\ claims' \in Nat /\ claims <= claims' /\ creator' = creator
      /\ wake' = wake /\ poll[p].pc # "ensure" /\ poll' = [poll EXCEPT ![p] = q]
  BY ConstantsAssumption DEF NoneVanishes, PollRound, rowVars, TypeInv, TypeOK
<1>3. poll' \in [Polls -> PollState] /\ PollsInFlight'
  BY <1>1, <1>2, PollStep
<1>4. CreatorsInFlight'
  BY <1>1, <1>2, CreatorsKeptByPoll
<1>5. TypeOK'
  BY <1>2, <1>3 DEF TypeInv, TypeOK, PollRound, rowVars, runVars, runnerVars, clientVars
<1> QED
  BY <1>2, <1>3, <1>4, <1>5 DEF TypeInv

LEMMA PollEmptyType ==
  ASSUME TypeInv, NEW p \in Polls, PollEmpty(p)
  PROVE  TypeInv'
<1>1. /\ NoneVanishes /\ claims' \in Nat /\ claims <= claims' /\ creator' = creator
      /\ wake' = wake /\ poll[p].pc # "ensure" /\ poll' = [poll EXCEPT ![p] = IdlePoll]
  BY ConstantsAssumption DEF NoneVanishes, PollEmpty, rowVars, TypeInv, TypeOK
<1>2. poll' \in [Polls -> PollState] /\ PollsInFlight'
  BY <1>1, PollStep, IdlePollType
<1>3. CreatorsInFlight'
  BY <1>1, CreatorsKeptByPoll, IdlePollType
<1>4. TypeOK'
  BY <1>1, <1>2 DEF TypeInv, TypeOK, PollEmpty, rowVars, runVars, runnerVars, clientVars
<1> QED
  BY <1>1, <1>2, <1>3, <1>4 DEF TypeInv

LEMMA ClaimedRow ==
  ASSUME NEW row \in GoodRow, row.status = "queued", NEW r \in Runners, NEW n \in 0..MaxClaims
  PROVE  Claimed(row, r, n) \in GoodRow /\ Claimed(row, r, n).status = "claimed"
<1>1. Claimed(row, r, n) \in Row
  BY RowConstants, Zenon DEF GoodRow, Row, Claimed
<1>2. Claimed(row, r, n).status = "claimed" /\ Claimed(row, r, n).attempts = row.attempts
  BY DEF GoodRow, Row, Claimed
<1> QED
  BY <1>1, <1>2 DEF GoodRow, IsOpen

LEMMA ClaimOnceType ==
  ASSUME TypeInv, NEW p \in Polls, NEW w \in Wakes, ClaimOnce(p, w)
  PROVE  TypeInv'
<1> DEFINE r   == poll[p].runner
           row == Claimed(wake[w], r, claims + 1)
           q   == [poll[p] EXCEPT
                     !.pc = IF wake[w].run = NoRun THEN "ensure" ELSE "mint",
                     !.wake = w, !.nonce = claims + 1, !.run = wake[w].run]
<1>1. /\ poll \in [Polls -> PollState] /\ poll[p] \in PollState /\ poll[p].pc = "checked"
      /\ r \in Runners /\ wake[w] \in GoodRow /\ wake[w].status = "queued"
  BY DEF TypeInv, TypeOK, PollsInFlight, ClaimOnce, Claimable
<1>2. /\ claims \in Nat /\ claims' = claims + 1 /\ claims' \in 0..MaxClaims
      /\ claims + 1 \in 0..MaxClaims /\ claims + 1 \in 1..claims' /\ claims <= claims' /\ claims' \in Nat
  BY ConstantsAssumption DEF TypeInv, TypeOK, ClaimOnce
<1>3. row \in GoodRow /\ row.status = "claimed"
  BY <1>1, <1>2, ClaimedRow
<1>4. wake' = [wake EXCEPT ![w] = row]
  BY DEF ClaimOnce
<1>5. wake' \in [Wakes -> GoodRow] /\ wake' \in [Wakes -> Row] /\ NoneVanishes
      /\ wake'[w].status = "claimed"
  <2>1. wake' \in [Wakes -> GoodRow] /\ wake' \in [Wakes -> Row] /\ NoneVanishes
    BY <1>3, <1>4, OneRow
  <2> QED
    BY <2>1, <1>3, <1>4 DEF TypeInv, TypeOK
<1>6. wake[w].run \in Runs \cup {NoRun}
  BY <1>1 DEF GoodRow, Row
<1>7. q \in PollState /\ q.pc \in {"ensure", "mint"} /\ q.wake = w /\ q.nonce = claims + 1
      /\ q.runner = r /\ (wake[w].run = NoRun => q.pc = "ensure")
  BY <1>1, <1>2, <1>6 DEF PollState
<1>8. poll' = [poll EXCEPT ![p] = q]
  BY DEF ClaimOnce
<1>9. poll' \in [Polls -> PollState] /\ PollsInFlight'
  BY <1>1, <1>2, <1>5, <1>7, <1>8, PollStep
<1>10. creator' \in [Wakes \cup Polls -> Creator] /\ CreatorsInFlight'
  <2>1. CASE wake[w].run = NoRun
    <3>1. creator' = [creator EXCEPT ![p] = Creating(w, "claim")]
      BY <2>1 DEF ClaimOnce
    <3>2. creator' \in [Wakes \cup Polls -> Creator] /\ creator'[p] = Creating(w, "claim")
      BY <3>1 DEF Creating, Creator, TypeInv, TypeOK
    <3>3. \A x \in Wakes \cup Polls : x # p => creator'[x] = creator[x]
      BY <3>1 DEF TypeInv, TypeOK
    <3>4. poll'[p].pc = "ensure" /\ \A o \in Polls : o # p => poll'[o] = poll[o]
      BY <1>1, <1>7, <1>8, <2>1
    <3>5. p \notin Wakes
      BY ConstantsAssumption
    <3> QED
      BY <1>5, <3>2, <3>3, <3>4, <3>5 DEF TypeInv, CreatorsInFlight, NoneVanishes, Creating
  <2>2. CASE wake[w].run # NoRun
    <3>1. creator' = creator
      BY <2>2 DEF ClaimOnce
    <3> QED
      BY <1>1, <1>5, <1>7, <1>8, <3>1, CreatorsKeptByPoll DEF TypeInv, TypeOK
  <2> QED
    BY <2>1, <2>2
<1>11. TypeOK'
  BY <1>2, <1>5, <1>9, <1>10
  DEF TypeInv, TypeOK, ClaimOnce, runVars, runnerVars, clientVars
<1> QED
  BY <1>5, <1>9, <1>10, <1>11 DEF TypeInv

LEMMA FailClaimType ==
  ASSUME TypeInv, NEW p \in Polls, FailClaim(p)
  PROVE  TypeInv'
<1> DEFINE w   == poll[p].wake
           mine == wake[w].status = "claimed" /\ wake[w].holder = poll[p].runner
           row == [wake[w] EXCEPT !.status = "failed", !.lease = "none"]
<1>1. /\ poll[p] \in PollState /\ poll[p].pc \in {"ensure", "mint"}
      /\ w \in Wakes /\ wake[w] \in GoodRow
  BY DEF TypeInv, TypeOK, PollsInFlight, FailClaim
<1>2. /\ claims' \in Nat /\ claims <= claims' /\ claims' = claims
      /\ poll' = [poll EXCEPT ![p] = IdlePoll]
      /\ creator' = [creator EXCEPT ![p] = NoCreator]
  BY ConstantsAssumption DEF TypeInv, TypeOK, FailClaim
<1>3. row \in GoodRow /\ row.status = "failed"
  <2>1. row \in Row
    BY <1>1, RowConstants DEF GoodRow, Row, Ended
  <2> QED
    BY <1>1, <2>1 DEF GoodRow, Row, IsOpen
<1>4. wake' \in [Wakes -> GoodRow] /\ wake' \in [Wakes -> Row] /\ NoneVanishes
  <2>1. CASE mine
    <3>1. wake' = [wake EXCEPT ![w] = row]
      BY <1>1, <2>1 DEF FailClaim, TypeInv, TypeOK
    <3> QED
      BY <1>1, <1>3, <3>1, OneRow
  <2>2. CASE ~mine
    BY <2>2 DEF FailClaim, TypeInv, TypeOK, NoneVanishes
  <2> QED
    BY <2>1, <2>2
<1>5. after' \subseteq FollowUpRec
  <2>1. CASE mine
    <3> DEFINE todo == IF poll[p].pc = "ensure" /\ creator[p].pc = "undo"
                       THEN {"rewake"} ELSE {"status", "rewake"}
    <3>1. after' = after \cup {f \in {FollowUp(w, wake[w], "Failed", todo)} : f.todo # {}}
      BY <2>1 DEF FailClaim, Owe
    <3>2. FollowUp(w, wake[w], "Failed", todo) \in FollowUpRec
      BY <1>1 DEF FollowUp, FollowUpRec, GoodRow, Row, RunStates
    <3> QED
      BY <3>1, <3>2 DEF TypeInv, TypeOK
  <2>2. CASE ~mine
    BY <2>2 DEF FailClaim, TypeInv, TypeOK
  <2> QED
    BY <2>1, <2>2
<1>6. poll' \in [Polls -> PollState] /\ PollsInFlight'
  BY <1>2, <1>4, PollStep, IdlePollType
<1>7. creator' \in [Wakes \cup Polls -> Creator] /\ CreatorsInFlight'
  BY <1>2, <1>4, CreatorDropped
<1>8. TypeOK'
  BY <1>2, <1>4, <1>5, <1>6, <1>7
  DEF TypeInv, TypeOK, FailClaim, runVars, runnerVars, clientVars
<1> QED
  BY <1>4, <1>6, <1>7, <1>8 DEF TypeInv

LEMMA MintRefusedType ==
  ASSUME TypeInv, NEW p \in Polls, MintRefused(p)
  PROVE  TypeInv'
<1> DEFINE w   == poll[p].wake
           row == IF wake[w].status = "claimed" /\ wake[w].holder = poll[p].runner
                  THEN Released(wake[w]) ELSE wake[w]
<1>1. /\ poll[p].pc = "mint" /\ w \in Wakes /\ wake[w] \in GoodRow
  BY DEF TypeInv, TypeOK, PollsInFlight, MintRefused
<1>2. /\ claims' \in Nat /\ claims <= claims' /\ claims' = claims /\ creator' = creator
      /\ poll' = [poll EXCEPT ![p] = IdlePoll]
      /\ wake' = [wake EXCEPT ![w] = row]
  BY ConstantsAssumption DEF TypeInv, TypeOK, MintRefused
<1>3. row \in GoodRow /\ (wake[w].status # "absent" => row.status # "absent")
  BY <1>1, ReleasedRow DEF IsOpen
<1>4. wake' \in [Wakes -> GoodRow] /\ wake' \in [Wakes -> Row] /\ NoneVanishes
  BY <1>1, <1>2, <1>3, OneRow
<1>5. poll' \in [Polls -> PollState] /\ PollsInFlight'
  BY <1>2, <1>4, PollStep, IdlePollType
<1>6. CreatorsInFlight'
  BY <1>1, <1>2, <1>4, CreatorsKeptByPoll, IdlePollType
<1>7. TypeOK'
  BY <1>2, <1>4, <1>5 DEF TypeInv, TypeOK, MintRefused, runVars, runnerVars, clientVars
<1> QED
  BY <1>4, <1>5, <1>6, <1>7 DEF TypeInv

\* A request that mints or answers: it keeps what it claimed.
LEMMA MintStep ==
  ASSUME TypeInv, NEW p \in Polls, poll[p].pc \in {"mint", "insert", "answer"},
         NEW q \in PollState, poll' = [poll EXCEPT ![p] = q],
         q.pc # "idle" => /\ q.runner = poll[p].runner
                          /\ q.wake = poll[p].wake /\ q.nonce = poll[p].nonce,
         UNCHANGED <<wake, claims, creator>>
  PROVE  /\ poll' \in [Polls -> PollState]
         /\ PollsInFlight' /\ CreatorsInFlight'
<1>1. /\ NoneVanishes /\ claims' \in Nat /\ claims <= claims' /\ claims' = claims
      /\ poll[p].pc # "ensure" /\ wake' = wake /\ creator' = creator
  BY ConstantsAssumption DEF TypeInv, TypeOK, NoneVanishes
<1>2. /\ poll[p].runner \in Runners /\ poll[p].wake \in Wakes
      /\ poll[p].nonce \in 1..claims /\ wake[poll[p].wake].status # "absent"
  BY DEF TypeInv, PollsInFlight
<1>3. CreatorsInFlight'
  BY <1>1, CreatorsKeptByPoll
<1> QED
  BY <1>1, <1>2, <1>3, PollStep

LEMMA MintRevokeType ==
  ASSUME TypeInv, NEW p \in Polls, MintRevoke(p)
  PROVE  TypeInv'
<1> DEFINE q == [poll[p] EXCEPT !.pc = "insert"]
<1>1. /\ poll[p].pc = "mint" /\ poll[p] \in PollState
      /\ UNCHANGED <<wake, claims, creator>> /\ poll' = [poll EXCEPT ![p] = q]
  BY DEF TypeInv, TypeOK, MintRevoke, rowVars
<1>2. q \in PollState /\ q.runner = poll[p].runner /\ q.wake = poll[p].wake
      /\ q.nonce = poll[p].nonce
  BY <1>1 DEF PollState
<1>3. poll' \in [Polls -> PollState] /\ PollsInFlight' /\ CreatorsInFlight'
  BY <1>1, <1>2, MintStep
<1>4. TypeOK'
  BY <1>1, <1>3
  DEF TypeInv, TypeOK, MintRevoke, RevokedForWake, runVars, runnerVars, clientVars
<1> QED
  BY <1>1, <1>3, <1>4 DEF TypeInv

LEMMA MintInsertType ==
  ASSUME TypeInv, NEW p \in Polls, MintInsert(p)
  PROVE  TypeInv'
<1> DEFINE q == [poll[p] EXCEPT !.pc = "answer"]
<1>1. /\ poll[p].pc = "insert" /\ poll[p] \in PollState
      /\ UNCHANGED <<wake, claims, creator>> /\ poll' = [poll EXCEPT ![p] = q]
  BY DEF TypeInv, TypeOK, MintInsert, rowVars
<1>2. q \in PollState /\ q.runner = poll[p].runner /\ q.wake = poll[p].wake
      /\ q.nonce = poll[p].nonce
  BY <1>1 DEF PollState
<1>3. poll' \in [Polls -> PollState] /\ PollsInFlight' /\ CreatorsInFlight'
  BY <1>1, <1>2, MintStep
<1>4. poll[p].nonce \in Nonces /\ poll[p].wake \in Wakes /\ poll[p].runner \in Runners
      /\ poll[p].run \in Runs \cup {NoRun}
  BY <1>1, ConstantsAssumption DEF TypeInv, TypeOK, PollsInFlight, PollState, Nonces
<1>5. creds' \subseteq Cred
  <2>1. \E st \in {"live", "expired"} :
          creds' = creds \cup {[nonce |-> poll[p].nonce, wake |-> poll[p].wake,
                     runner |-> poll[p].runner, run |-> poll[p].run, state |-> st]}
    BY Zenon DEF MintInsert
  <2> QED
    BY <1>4, <2>1 DEF TypeInv, TypeOK, Cred
<1>6. TypeOK'
  BY <1>1, <1>3, <1>5 DEF TypeInv, TypeOK, MintInsert, runVars, runnerVars, clientVars
<1> QED
  BY <1>1, <1>3, <1>6 DEF TypeInv

LEMMA RunMovedType ==
  ASSUME TypeInv, NEW run \in Runs \cup {NoRun}, NEW to \in RunStates
  PROVE  RunMoved(run, to) \in [Runs -> RunStates]
  BY DEF TypeInv, TypeOK, RunMoved

LEMMA HandOverType ==
  ASSUME TypeInv, NEW p \in Polls, HandOver(p)
  PROVE  TypeInv'
<1>1. /\ poll[p].pc = "answer" /\ poll[p] \in PollState
      /\ UNCHANGED <<wake, claims, creator>> /\ poll' = [poll EXCEPT ![p] = IdlePoll]
  BY DEF TypeInv, TypeOK, HandOver, rowVars
<1>2. poll' \in [Polls -> PollState] /\ PollsInFlight' /\ CreatorsInFlight'
  BY <1>1, MintStep, IdlePollType
<1>3. poll[p].nonce \in Nonces /\ poll[p].wake \in Wakes /\ poll[p].runner \in Runners
      /\ poll[p].run \in Runs \cup {NoRun}
  BY <1>1, ConstantsAssumption DEF TypeInv, TypeOK, PollsInFlight, PollState, Nonces
<1>4. sessions' \subseteq SessionRec
  BY <1>3 DEF TypeInv, TypeOK, HandOver, SessionRec
<1>5. runStatus' \in [Runs -> RunStates]
  BY <1>3, RunMovedType DEF HandOver, RunStates
<1>6. TypeOK'
  BY <1>1, <1>2, <1>4, <1>5 DEF TypeInv, TypeOK, HandOver, runnerVars
<1> QED
  BY <1>1, <1>2, <1>6 DEF TypeInv

LEMMA ClaimType ==
  ASSUME TypeInv, Claim
  PROVE  TypeInv'
  BY PollRoundType, PollEmptyType, ClaimOnceType, FailClaimType, MintRefusedType,
     MintRevokeType, MintInsertType, HandOverType
  DEF Claim

LEMMA DispatchType ==
  ASSUME TypeInv, Dispatch
  PROVE  TypeInv'
  BY EnqueueType, CreateRunType, BlockedRunType, AttachRunType, DispatchDoneType,
     DispatchFailsType, ReattachRunType, CreateRunFailsType, UndoEnqueueType
  DEF Dispatch

-----------------------------------------------------------------------------
(* The Runner's calls and the follow-ups.                                  *)

\* A step that writes rows, but neither claim requests nor dispatches.
LEMMA RowsStep ==
  ASSUME TypeInv, wake' \in [Wakes -> GoodRow], NoneVanishes,
         UNCHANGED <<claims, poll, creator>>, TypeOK'
  PROVE  TypeInv'
<1>1. claims' \in Nat /\ claims <= claims'
  BY ConstantsAssumption DEF TypeInv, TypeOK
<1> QED
  BY <1>1, PollsKept, CreatorsKept DEF TypeInv

LEMMA OweType ==
  ASSUME TypeInv, NEW S, S \subseteq FollowUpRec, Owe(S)
  PROVE  after' \subseteq FollowUpRec
  BY DEF TypeInv, TypeOK, Owe

LEMMA FollowUpType ==
  ASSUME NEW w \in Wakes, NEW row \in GoodRow, NEW to \in RunStates \ {"none"},
         NEW todo \in SUBSET {"revoke", "status", "rewake"}
  PROVE  FollowUp(w, row, to, todo) \in FollowUpRec
  BY DEF FollowUp, FollowUpRec, GoodRow, Row

LEMMA OutcomeType ==
  ASSUME NEW row, NEW exit \in Exits
  PROVE  Outcome(row, exit) \in {"limit", "rewoken", "done", "failed", "canceled"}
<1>1. exit \in {"ok", "failed", "aborted", "limit_reached"}
  BY ConstantsAssumption
<1> QED
  BY <1>1 DEF Outcome

LEMMA SessionCallType ==
  ASSUME TypeInv, NEW s \in sessions,
         \/ Comment(s) \/ SessionGone(s) \/ CompleteRead(s)
         \/ \E exit \in Exits : SessionEnds(s, exit)
  PROVE  TypeInv'
<1>1. CASE Comment(s)
  BY <1>1, Elsewhere
  DEF Comment, Cred, TypeInv, TypeOK, rowVars, runVars, runnerVars, handlerVars
<1>2. CASE SessionGone(s)
  BY <1>2, Elsewhere
  DEF SessionGone, TypeInv, TypeOK, rowVars, runVars, runnerVars, handlerVars
<1>3. CASE CompleteRead(s)
  <2>1. s \in SessionRec
    BY DEF TypeInv, TypeOK
  <2>2. Outcome(wake[s.wake], s.phase) \in {"limit", "rewoken", "done", "failed", "canceled"}
    BY <1>3, OutcomeType DEF CompleteRead
  <2>3. completing' \subseteq Completing
    BY <1>3, <2>1, <2>2 DEF CompleteRead, SessionRec, Completing, TypeInv, TypeOK
  <2> QED
    BY <1>3, <2>3, Elsewhere
    DEF CompleteRead, TypeInv, TypeOK, rowVars, runVars, runnerVars, clientVars
<1>4. CASE \E exit \in Exits : SessionEnds(s, exit)
  <2>1. sessions' \subseteq SessionRec
    BY <1>4 DEF SessionEnds, SessionRec, TypeInv, TypeOK
  <2> QED
    BY <1>4, <2>1, Elsewhere
    DEF SessionEnds, TypeInv, TypeOK, rowVars, runVars, runnerVars, handlerVars
<1> QED
  BY <1>1, <1>2, <1>3, <1>4

LEMMA HeartbeatType ==
  ASSUME TypeInv, NEW s \in sessions, Heartbeat(s)
  PROVE  TypeInv'
<1> DEFINE w == s.wake
           row == [wake[w] EXCEPT !.lease = "live"]
<1>1. w \in Wakes /\ wake[w] \in GoodRow
  BY DEF TypeInv, TypeOK, SessionRec
<1>2. row \in GoodRow /\ row.status = wake[w].status
  BY <1>1 DEF GoodRow, Row, IsOpen
<1>3. wake' = [wake EXCEPT ![w] = row]
  BY DEF Heartbeat
<1>4. wake' \in [Wakes -> GoodRow] /\ wake' \in [Wakes -> Row] /\ NoneVanishes
  BY <1>1, <1>2, <1>3, OneRow
<1>5. creds' \subseteq Cred
  BY DEF Heartbeat, Cred, TypeInv, TypeOK
<1>6. TypeOK'
  BY <1>4, <1>5
  DEF Heartbeat, TypeInv, TypeOK, runVars, runnerVars, handlerVars, clientVars
<1> QED
  BY <1>4, <1>6, RowsStep DEF Heartbeat, handlerVars

LEMMA CompleteFlipType ==
  ASSUME TypeInv, NEW c \in completing, CompleteFlip(c)
  PROVE  TypeInv'
<1> DEFINE w == c.wake
           todo == IF c.out \in {"limit", "rewoken"} THEN {"revoke", "status"}
                   ELSE {"revoke", "status", "rewake"}
<1>1. /\ w \in Wakes /\ wake[w] \in GoodRow /\ IsOpen(wake[w])
      /\ c.runner \in Runners /\ c.nonce \in Nonces /\ wake[w].nonce = c.nonce
      /\ c.out \in {"limit", "rewoken", "done", "failed", "canceled"}
  BY DEF TypeInv, TypeOK, Completing, CompleteFlip, HeldBy, IsOpen
<1>2. wake' = [wake EXCEPT ![w] = Completed(wake[w], c.out)]
  BY DEF CompleteFlip
<1>3. wake' \in [Wakes -> GoodRow] /\ wake' \in [Wakes -> Row] /\ NoneVanishes
  BY <1>1, <1>2, CompletedRow, OneRow
<1>4. CompletedRun(c.out) \in RunStates \ {"none"}
  BY <1>1 DEF CompletedRun, RunStates
<1>5. Owe({FollowUp(w, wake[w], CompletedRun(c.out), todo)})
  BY DEF CompleteFlip
<1>6. FollowUp(w, wake[w], CompletedRun(c.out), todo) \in FollowUpRec
  BY <1>1, <1>4, FollowUpType
<1>7. after' \subseteq FollowUpRec
  BY <1>5, <1>6, OweType
<1>8. paused' \in [Runners -> BOOLEAN]
  BY DEF CompleteFlip, TypeInv, TypeOK
<1>9. accepted' \subseteq Nonces \X Nonces /\ completing' \subseteq Completing
  <2>1. accepted' = accepted \cup {<<c.nonce, c.nonce>>}
    BY <1>1 DEF CompleteFlip
  <2>2. <<c.nonce, c.nonce>> \in Nonces \X Nonces
    BY <1>1
  <2>3. accepted \subseteq Nonces \X Nonces /\ completing \subseteq Completing
    BY DEF TypeInv, TypeOK
  <2> QED
    BY <2>1, <2>2, <2>3 DEF CompleteFlip
<1>10. TypeOK'
  BY <1>3, <1>7, <1>8, <1>9 DEF CompleteFlip, TypeInv, TypeOK, runVars
<1> QED
  BY <1>3, <1>10, RowsStep DEF CompleteFlip

LEMMA CompleteLostType ==
  ASSUME TypeInv, NEW c \in completing, CompleteLost(c)
  PROVE  TypeInv'
  BY Elsewhere DEF CompleteLost, TypeInv, TypeOK, rowVars, runVars, runnerVars, clientVars

LEMMA SessionType ==
  ASSUME TypeInv, Session
  PROVE  TypeInv'
  BY SessionCallType, HeartbeatType, CompleteFlipType, CompleteLostType DEF Session

LEMMA DidType ==
  ASSUME TypeInv, NEW f \in after, NEW what, Did(f, what)
  PROVE  after' \subseteq FollowUpRec
<1>1. f \in FollowUpRec /\ after \subseteq FollowUpRec
  BY DEF TypeInv, TypeOK
<1>2. [f EXCEPT !.todo = @ \ {what}] \in FollowUpRec
  BY <1>1 DEF FollowUpRec
<1> QED
  BY <1>1, <1>2 DEF Did

LEMMA FollowUpsType ==
  ASSUME TypeInv, FollowUps
  PROVE  TypeInv'
<1>1. PICK f \in after : AfterRevoke(f) \/ AfterStatus(f) \/ AfterRewake(f)
  BY DEF FollowUps
<1>2. after' \subseteq FollowUpRec /\ f \in FollowUpRec
  BY <1>1, DidType DEF AfterRevoke, AfterStatus, AfterRewake, TypeInv, TypeOK
<1>3. CASE AfterRevoke(f)
  BY <1>2, <1>3, Elsewhere
  DEF AfterRevoke, RevokedForWake, TypeInv, TypeOK, rowVars, runVars, runnerVars, clientVars
<1>4. CASE AfterStatus(f)
  <2>1. runStatus' \in [Runs -> RunStates]
    BY <1>2, <1>4, RunMovedType DEF AfterStatus, FollowUpRec
  <2> QED
    BY <1>2, <1>4, <2>1, Elsewhere
    DEF AfterStatus, TypeInv, TypeOK, rowVars, runnerVars, clientVars
<1>5. CASE AfterRewake(f)
  <2>1. /\ wake' \in [Wakes -> GoodRow] /\ wake' \in [Wakes -> Row] /\ NoneVanishes
        /\ creator' \in [Wakes \cup Polls -> Creator] /\ CreatorsInFlight'
    <3>1. CASE eligible
      <4>1. f.wake \in Wakes
        BY <1>2 DEF FollowUpRec
      <4>2. wake[f.wake].record \in Records \cup {NoRecord}
        BY <4>1 DEF TypeInv, TypeOK, Row
      <4> QED
        BY <1>5, <3>1, <4>2, InsertOrMergeType DEF AfterRewake
    <3>2. CASE ~eligible
      <4>1. wake' = wake /\ creator' = creator /\ poll' = poll
        BY <1>5, <3>2 DEF AfterRewake
      <4> QED
        BY <4>1, CreatorsKept DEF NoneVanishes, TypeInv, TypeOK
    <3> QED
      BY <3>1, <3>2
  <2>2. TypeOK'
    BY <1>2, <1>5, <2>1 DEF AfterRewake, TypeInv, TypeOK, runVars, runnerVars, clientVars
  <2>3. PollsInFlight'
    BY <1>5, <2>1, <2>2, PollsKept, ConstantsAssumption DEF AfterRewake, TypeInv, TypeOK
  <2> QED
    BY <2>1, <2>2, <2>3 DEF TypeInv
<1> QED
  BY <1>1, <1>3, <1>4, <1>5

-----------------------------------------------------------------------------
(* The sweeper, people, time and handlers that stop.                       *)

LEMMA ReapType ==
  ASSUME TypeInv, ReapExpiredLeases
  PROVE  TypeInv'
<1>1. \A w \in Lapsed : /\ w \in Wakes /\ wake[w] \in GoodRow /\ IsOpen(wake[w])
                        /\ Reaped(wake[w]) \in GoodRow
                        /\ Reaped(wake[w]).status # "absent"
  BY ReapedRow DEF Lapsed, IsOpen, TypeInv, TypeOK
<1>2. wake' \in [Wakes -> GoodRow] /\ wake' \in [Wakes -> Row]
  BY <1>1 DEF ReapExpiredLeases, TypeInv, GoodRow
<1>3. NoneVanishes
  BY <1>1 DEF ReapExpiredLeases, NoneVanishes
<1>4. after' \subseteq FollowUpRec
  <2> DEFINE owed(w) == IF Reaped(wake[w]).status = "failed"
                        THEN FollowUp(w, wake[w], "Failed", {"revoke", "status", "rewake"})
                        ELSE FollowUp(w, wake[w], "Queued", {"revoke", "status"})
  <2>1. \A w \in Lapsed : owed(w) \in FollowUpRec
    BY <1>1, FollowUpType DEF RunStates
  <2>2. Owe({owed(w) : w \in Lapsed})
    BY DEF ReapExpiredLeases
  <2> QED
    BY <2>1, <2>2, OweType
<1>5. TypeOK'
  BY <1>2, <1>4 DEF ReapExpiredLeases, TypeInv, TypeOK, runVars, runnerVars, clientVars
<1> QED
  BY <1>2, <1>3, <1>5, RowsStep DEF ReapExpiredLeases

\* Rows of the set S are ended as canceled, and something is owed for each.
LEMMA CanceledRows ==
  ASSUME TypeInv, NEW S \in SUBSET Wakes, \A w \in S : IsOpen(wake[w]),
         wake' = [w \in Wakes |-> IF w \in S
                                  THEN [wake[w] EXCEPT !.status = "canceled"]
                                  ELSE wake[w]],
         NEW todo \in SUBSET {"revoke", "status", "rewake"},
         Owe({FollowUp(w, wake[w], "Canceled", todo) : w \in S})
  PROVE  /\ wake' \in [Wakes -> GoodRow] /\ wake' \in [Wakes -> Row] /\ NoneVanishes
         /\ after' \subseteq FollowUpRec
<1>1. \A w \in Wakes : /\ wake[w] \in GoodRow
                       /\ [wake[w] EXCEPT !.status = "canceled"] \in GoodRow
                       /\ [wake[w] EXCEPT !.status = "canceled"].status = "canceled"
  BY EndedRow DEF TypeInv, Ended
<1>2. wake' \in [Wakes -> GoodRow] /\ wake' \in [Wakes -> Row]
  BY <1>1 DEF GoodRow
<1>3. NoneVanishes
  BY <1>1 DEF NoneVanishes
<1>4. \A w \in S : FollowUp(w, wake[w], "Canceled", todo) \in FollowUpRec
  BY <1>1, FollowUpType DEF RunStates
<1> QED
  BY <1>2, <1>3, <1>4, OweType

LEMMA ExpireType ==
  ASSUME TypeInv, ExpireQueued
  PROVE  TypeInv'
<1>1. /\ wake' \in [Wakes -> GoodRow] /\ wake' \in [Wakes -> Row] /\ NoneVanishes
      /\ after' \subseteq FollowUpRec
  <2>1. Expired \in SUBSET Wakes /\ \A w \in Expired : IsOpen(wake[w])
    BY DEF Expired, IsOpen
  <2> QED
    BY <2>1, CanceledRows DEF ExpireQueued
<1>2. TypeOK'
  BY <1>1 DEF ExpireQueued, TypeInv, TypeOK, runVars, runnerVars, clientVars
<1> QED
  BY <1>1, <1>2, RowsStep DEF ExpireQueued

LEMMA CancelForRunType ==
  ASSUME TypeInv, NEW u \in Runs, CancelForRun(u)
  PROVE  TypeInv'
<1> DEFINE S == {w \in Wakes : IsOpen(wake[w]) /\ wake[w].run = u}
<1>1. /\ wake' \in [Wakes -> GoodRow] /\ wake' \in [Wakes -> Row] /\ NoneVanishes
      /\ after' \subseteq FollowUpRec
  <2>1. S \in SUBSET Wakes /\ \A w \in S : IsOpen(wake[w])
    OBVIOUS
  <2>2. /\ wake' = [w \in Wakes |-> IF w \in S
                                    THEN [wake[w] EXCEPT !.status = "canceled"]
                                    ELSE wake[w]]
        /\ Owe({FollowUp(w, wake[w], "Canceled", {"revoke"}) : w \in S})
    BY DEF CancelForRun
  <2> HIDE DEF S
  <2> QED
    BY <2>1, <2>2, CanceledRows
<1>2. TypeOK'
  BY <1>1 DEF CancelForRun, TypeInv, TypeOK, runVars, runnerVars, clientVars
<1> QED
  BY <1>1, <1>2, RowsStep DEF CancelForRun

LEMMA RevokeRunnerType ==
  ASSUME TypeInv, NEW r \in Runners, RevokeRunner(r)
  PROVE  TypeInv'
<1> DEFINE S == {w \in Wakes : wake[w].status = "claimed" /\ wake[w].holder = r}
<1>1. \A w \in S : /\ w \in Wakes /\ wake[w] \in GoodRow
                   /\ Released(wake[w]) \in GoodRow
                   /\ Released(wake[w]).status = "queued"
  BY ReleasedRow DEF IsOpen, TypeInv
<1>2. /\ wake' = [w \in Wakes |-> IF w \in S THEN Released(wake[w]) ELSE wake[w]]
      /\ Owe({FollowUp(w, wake[w], "Queued", {"revoke", "status"}) : w \in S})
  BY DEF RevokeRunner
<1> HIDE DEF S
<1>3. wake' \in [Wakes -> GoodRow] /\ wake' \in [Wakes -> Row]
  BY <1>1, <1>2 DEF TypeInv, GoodRow
<1>4. NoneVanishes
  BY <1>1, <1>2 DEF NoneVanishes
<1>5. \A w \in S : FollowUp(w, wake[w], "Queued", {"revoke", "status"}) \in FollowUpRec
  BY <1>1, FollowUpType DEF RunStates
<1>6. after' \subseteq FollowUpRec
  BY <1>2, <1>5, OweType
<1>7. TypeOK'
  BY <1>3, <1>6 DEF RevokeRunner, RevokedForRunner, TypeInv, TypeOK, runVars, clientVars
<1> QED
  BY <1>3, <1>4, <1>7, RowsStep DEF RevokeRunner

LEMMA PeopleType ==
  ASSUME TypeInv, People
  PROVE  TypeInv'
<1>1. ASSUME NEW u \in Runs, AdminCancelRun(u) PROVE TypeInv'
  BY <1>1, Elsewhere
  DEF AdminCancelRun, RunStates, TypeInv, TypeOK, rowVars, runnerVars, clientVars
<1>2. ASSUME NEW r \in Runners, AssignCheck(r) \/ AssignUpsert(r) PROVE TypeInv'
  BY <1>2, Elsewhere
  DEF AssignCheck, AssignUpsert, TypeInv, TypeOK, rowVars, runVars, handlerVars, clientVars
<1>3. ASSUME Unassign \/ ToggleEligible PROVE TypeInv'
  BY <1>3, Elsewhere
  DEF Unassign, ToggleEligible, TypeInv, TypeOK, rowVars, runVars, handlerVars, clientVars
<1> QED
  BY <1>1, <1>2, <1>3, CancelForRunType, RevokeRunnerType DEF People

\* Time passing over row w.
LEMMA TimeRow ==
  ASSUME TypeInv, NEW w \in Wakes, NEW row \in GoodRow, row.status = wake[w].status,
         wake' = [wake EXCEPT ![w] = row],
         creds' \subseteq Cred,
         UNCHANGED <<claims, runVars, runnerVars, handlerVars, clientVars>>
  PROVE  TypeInv'
<1>1. wake' \in [Wakes -> GoodRow] /\ wake' \in [Wakes -> Row] /\ NoneVanishes
  BY OneRow
<1>2. TypeOK'
  BY <1>1 DEF TypeInv, TypeOK, runVars, runnerVars, handlerVars, clientVars
<1> QED
  BY <1>1, <1>2, RowsStep DEF handlerVars

LEMMA TimeType ==
  ASSUME TypeInv, Time
  PROVE  TypeInv'
<1>1. ASSUME NEW w \in Wakes, LeaseLapses(w) PROVE TypeInv'
  <2> DEFINE row == [wake[w] EXCEPT !.lease = "lapsed"]
  <2>1. row \in GoodRow /\ row.status = wake[w].status
    BY DEF TypeInv, GoodRow, Row, IsOpen
  <2>2. wake' = [wake EXCEPT ![w] = row]
    BY <1>1 DEF LeaseLapses
  <2>3. creds' \subseteq Cred
    BY <1>1 DEF LeaseLapses, Cred, TypeInv, TypeOK
  <2> QED
    BY <1>1, <2>1, <2>2, <2>3, TimeRow DEF LeaseLapses
<1>2. ASSUME NEW w \in Wakes, CeilingPasses(w) PROVE TypeInv'
  <2> DEFINE row == [wake[w] EXCEPT !.over = TRUE]
  <2>1. row \in GoodRow /\ row.status = wake[w].status
    BY DEF TypeInv, GoodRow, Row, IsOpen
  <2>2. wake' = [wake EXCEPT ![w] = row] /\ creds' \subseteq Cred
    BY <1>2 DEF CeilingPasses, TypeInv, TypeOK
  <2> QED
    BY <1>2, <2>1, <2>2, TimeRow DEF CeilingPasses
<1>3. ASSUME NEW w \in Wakes, HoldEnds(w) PROVE TypeInv'
  <2> DEFINE row == [wake[w] EXCEPT !.held = FALSE]
  <2>1. row \in GoodRow /\ row.status = wake[w].status
    BY DEF TypeInv, GoodRow, Row, IsOpen
  <2>2. wake' = [wake EXCEPT ![w] = row] /\ creds' \subseteq Cred
    BY <1>3 DEF HoldEnds, TypeInv, TypeOK
  <2> QED
    BY <1>3, <2>1, <2>2, TimeRow DEF HoldEnds
<1>4. ASSUME NEW w \in Wakes, Ages(w) PROVE TypeInv'
  <2> DEFINE row == [wake[w] EXCEPT !.aged = TRUE]
  <2>1. row \in GoodRow /\ row.status = wake[w].status
    BY DEF TypeInv, GoodRow, Row, IsOpen
  <2>2. wake' = [wake EXCEPT ![w] = row] /\ creds' \subseteq Cred
    BY <1>4 DEF Ages, TypeInv, TypeOK
  <2> QED
    BY <1>4, <2>1, <2>2, TimeRow DEF Ages
<1>5. ASSUME NEW r \in Runners, PauseEnds(r) PROVE TypeInv'
  BY <1>5, Elsewhere
  DEF PauseEnds, TypeInv, TypeOK, rowVars, runVars, handlerVars, clientVars
<1> QED
  BY <1>1, <1>2, <1>3, <1>4, <1>5 DEF Time

LEMMA DeathsType ==
  ASSUME TypeInv, Deaths
  PROVE  TypeInv'
<1>1. ASSUME NEW p \in Polls, PollDies(p) PROVE TypeInv'
  <2>1. /\ NoneVanishes /\ claims' \in Nat /\ claims <= claims' /\ wake' = wake
        /\ poll' = [poll EXCEPT ![p] = IdlePoll]
        /\ creator' = [creator EXCEPT ![p] = NoCreator]
    BY <1>1, ConstantsAssumption DEF PollDies, NoneVanishes, rowVars, TypeInv, TypeOK
  <2>2. poll' \in [Polls -> PollState] /\ PollsInFlight'
    BY <2>1, PollStep, IdlePollType
  <2>3. creator' \in [Wakes \cup Polls -> Creator] /\ CreatorsInFlight'
    BY <2>1, CreatorDropped
  <2>4. TypeOK'
    BY <1>1, <2>2, <2>3
    DEF PollDies, TypeInv, TypeOK, rowVars, runVars, runnerVars, clientVars
  <2> QED
    BY <2>1, <2>2, <2>3, <2>4 DEF TypeInv
<1>2. ASSUME NEW w \in Wakes, CreatorDies(w) PROVE TypeInv'
  <2>1. /\ creator' = [creator EXCEPT ![w] = NoCreator]
        /\ UNCHANGED <<wake, claims, poll>>
    BY <1>2 DEF CreatorDies, rowVars
  <2>2. creator' \in [Wakes \cup Polls -> Creator]
    BY <2>1 DEF TypeInv, TypeOK, NoCreator, Creator
  <2>3. CreatorsInFlight'
    BY <2>1, <2>2 DEF TypeInv, TypeOK, CreatorsInFlight, NoCreator
  <2>4. TypeOK'
    BY <1>2, <2>1, <2>2
    DEF CreatorDies, TypeInv, TypeOK, rowVars, runVars, runnerVars, clientVars
  <2> QED
    BY <2>1, <2>3, <2>4 DEF TypeInv, PollsInFlight
<1>3. ASSUME NEW f \in after, FollowUpDies(f) PROVE TypeInv'
  BY <1>3, Elsewhere
  DEF FollowUpDies, TypeInv, TypeOK, rowVars, runVars, runnerVars, clientVars
<1>4. ASSUME NEW u \in canceling, CancelDies(u) PROVE TypeInv'
  BY <1>4, Elsewhere
  DEF CancelDies, TypeInv, TypeOK, rowVars, runVars, runnerVars, clientVars
<1> QED
  BY <1>1, <1>2, <1>3, <1>4 DEF Deaths

-----------------------------------------------------------------------------
(* The theorems.                                                           *)

LEMMA InitType == Init => TypeInv
<1> SUFFICES ASSUME Init PROVE TypeInv
  OBVIOUS
<1>1. \A w \in Wakes : wake[w] = [NewRow(NoRecord) EXCEPT !.status = "absent"]
  BY DEF Init
<1>2. [NewRow(NoRecord) EXCEPT !.status = "absent"] \in GoodRow
  BY RowConstants DEF NewRow, GoodRow, Row, Statuses, IsOpen
<1>3. wake \in [Wakes -> GoodRow] /\ wake \in [Wakes -> Row]
  BY <1>2 DEF Init, GoodRow
<1>4. poll \in [Polls -> PollState] /\ \A p \in Polls : poll[p].pc = "idle"
  BY IdlePollType DEF Init
<1>5. /\ creator \in [Wakes \cup Polls -> Creator]
      /\ \A x \in Wakes \cup Polls : creator[x].pc = "none"
  BY DEF Init, NoCreator, Creator
<1>6. TypeOK
  BY <1>3, <1>4, <1>5, RowConstants DEF Init, TypeOK, RunStates
<1> QED
  BY <1>3, <1>4, <1>5, <1>6 DEF TypeInv, PollsInFlight, CreatorsInFlight

LEMMA NextType == TypeInv /\ [Next]_vars => TypeInv'
<1> SUFFICES ASSUME TypeInv, [Next]_vars PROVE TypeInv'
  OBVIOUS
<1>1. CASE Dispatch
  BY <1>1, DispatchType
<1>2. CASE Claim
  BY <1>2, ClaimType
<1>3. CASE Session
  BY <1>3, SessionType
<1>4. CASE FollowUps
  BY <1>4, FollowUpsType
<1>5. CASE Sweep
  BY <1>5, ReapType, ExpireType DEF Sweep
<1>6. CASE People
  BY <1>6, PeopleType
<1>7. CASE Time
  BY <1>7, TimeType
<1>8. CASE Deaths
  BY <1>8, DeathsType
<1>9. CASE UNCHANGED vars
  BY <1>9 DEF vars, TypeInv, TypeOK, PollsInFlight, CreatorsInFlight
<1> QED
  BY <1>1, <1>2, <1>3, <1>4, <1>5, <1>6, <1>7, <1>8, <1>9 DEF Next

LEMMA TypeInvariant == Spec => []TypeInv
  BY InitType, NextType, PTL DEF Spec

\* Whatever is lost, overtaken, reassigned or stopped half way, every handler
\* writes a row, Run, Runner or credential of the kind its variable holds: in
\* particular no follow-up or late answer acts for a claim that was never made.
THEOREM TypeCorrect == Spec => []TypeOK
<1>1. TypeInv => TypeOK
  BY DEF TypeInv
<1> QED
  BY <1>1, TypeInvariant, PTL

\* The reaper fails a wake at WAKE_MAX_ATTEMPTS lost leases, for every value of
\* that limit: nothing ever hands out a wake that has used it up.
THEOREM AttemptsBounded == Spec => []AttemptsBound
<1>1. TypeInv => AttemptsBound
  BY DEF TypeInv, AttemptsBound, GoodRow
<1> QED
  BY <1>1, TypeInvariant, PTL

-----------------------------------------------------------------------------
(* The Runs behind HandedOverWithRun and DoneMeansCommented.  A Run is made *)
(* in one statement, attached to its row in another, and read by the claim, *)
(* the session and the completion long after; both rest on what each of     *)
(* them still knows of the row by then.                                     *)

\* The row is in the table and names a Run.
Named(w) == wake[w].status # "absent" /\ wake[w].run \in Runs
NamedNext(w) == wake'[w].status # "absent" /\ wake'[w].run \in Runs

\* A Run made for the wake commented on its record.
Commented(w) == \E u \in commented \cap Runs : runFor[u] = w

\* The pcs at which a dispatch knows the Run it made.
Knows(c) == c.pc \notin {"none", "create", "undo"}

RowRuns == \A w \in Wakes : wake[w].run \in Runs => runFor[wake[w].run] = w

MadeRuns == \A u \in Runs : runFor[u] \in Wakes => runStatus[u] # "none"

CreatorRuns ==
  \A x \in Wakes \cup Polls : Knows(creator[x]) => runFor[creator[x].run] = creator[x].wake

PollRuns ==
  \A p \in Polls :
    /\ creator[p].pc # "none" => creator[p].wake = poll[p].wake
    /\ poll[p].pc \in {"mint", "insert", "answer"} => poll[p].run \in Runs /\ Named(poll[p].wake)

SessionRuns == \A s \in sessions : s.run \in Runs /\ Named(s.wake)

CompletingRuns ==
  \A c \in completing :
    /\ wake[c.wake].status # "absent"
    /\ c.out = "done" /\ wake[c.wake].record # NoRecord => Commented(c.wake)

RunsInv ==
  /\ RowRuns /\ MadeRuns /\ CreatorRuns /\ PollRuns /\ SessionRuns
  /\ CompletingRuns /\ DoneMeansCommented

-----------------------------------------------------------------------------
(* What the steps do to them.                                              *)

\* The row keeps its Run and record, and is not ended as done.
Calm(old, new) ==
  /\ old.status # "absent" => new.status # "absent"
  /\ new.record = old.record /\ new.run = old.run
  /\ new.status = "done" => old.status = "done"

\* A row of the table through a step: it is new, calm, given a Run made for it, or
\* done after a comment.
RowMoves(w) ==
  \/ wake[w].status = "absent" /\ wake'[w].status = "queued" /\ wake'[w].run = NoRun
  \/ Calm(wake[w], wake'[w])
  \/ /\ wake'[w].status = wake[w].status /\ wake'[w].record = wake[w].record
     /\ wake'[w].run \in Runs /\ runFor[wake'[w].run] = w
  \/ /\ wake[w].status # "absent" /\ wake'[w].status # "absent"
     /\ wake'[w].record = wake[w].record /\ wake'[w].run = wake[w].run
     /\ wake'[w].record # NoRecord => Commented(w)

RowsMove ==
  /\ \A w \in Wakes : RowMoves(w)
  /\ runFor' = runFor /\ commented \subseteq commented'

LEMMA RowsMoved ==
  ASSUME TypeInv, RunsInv, RowsMove
  PROVE  /\ RowRuns' /\ DoneMeansCommented'
         /\ \A w \in Wakes : /\ Named(w) => NamedNext(w)
                             /\ Commented(w) => Commented(w)'
                             /\ wake[w].status # "absent" =>
                                  wake'[w].status # "absent" /\ wake'[w].record = wake[w].record
<1>1. NoRun \notin Runs
  BY ConstantsAssumption
<1>2. \A w \in Wakes : Commented(w) => Commented(w)'
  BY DEF Commented, RowsMove
<1>3. RowRuns'
  BY <1>1 DEF RowRuns, RunsInv, RowsMove, RowMoves, Calm
<1>4. DoneMeansCommented'
  <2> SUFFICES ASSUME NEW w \in Wakes, wake'[w].status = "done", wake'[w].record # NoRecord
               PROVE  Commented(w)'
    BY DEF DoneMeansCommented, Commented
  <2>1. wake[w].status = "done" /\ wake[w].record # NoRecord => Commented(w)
    BY DEF RunsInv, DoneMeansCommented, Commented
  <2>2. RowMoves(w)
    BY DEF RowsMove
  <2>3. Commented(w)
    BY <2>1, <2>2 DEF RowMoves, Calm
  <2> QED
    BY <1>2, <2>3
<1>5. \A w \in Wakes : Named(w) => NamedNext(w)
  BY <1>1 DEF Named, NamedNext, RowsMove, RowMoves, Calm
<1>6. \A w \in Wakes : wake[w].status # "absent" =>
        wake'[w].status # "absent" /\ wake'[w].record = wake[w].record
  BY DEF RowsMove, RowMoves, Calm
<1> QED
  BY <1>2, <1>3, <1>4, <1>5, <1>6

\* Dispatches that go on know the Run they knew, for the wake they had.
CreatorsMove ==
  \A x \in Wakes \cup Polls :
    Knows(creator'[x]) => /\ Knows(creator[x])
                          /\ creator'[x].run = creator[x].run
                          /\ creator'[x].wake = creator[x].wake

StatusesMove == \A u \in Runs : runStatus[u] # "none" => runStatus'[u] # "none"

\* A step is safe when its rows, dispatches and Runs move so and what it does to
\* requests, sessions and completions is.
LEMMA RunsStep ==
  ASSUME TypeInv, RunsInv, RowsMove, CreatorsMove, StatusesMove,
         PollRuns', SessionRuns', CompletingRuns'
  PROVE  RunsInv'
<1>1. RowRuns' /\ DoneMeansCommented'
  BY RowsMoved
<1>2. MadeRuns'
  BY DEF MadeRuns, RunsInv, StatusesMove, RowsMove
<1>3. CreatorRuns'
  BY DEF CreatorRuns, RunsInv, CreatorsMove, RowsMove
<1> QED
  BY <1>1, <1>2, <1>3 DEF RunsInv

LEMMA PollsStand ==
  ASSUME TypeInv, RunsInv, RowsMove, poll' = poll,
         \A p \in Polls : creator'[p].pc # "none" =>
           creator[p].pc # "none" /\ creator'[p].wake = creator[p].wake
  PROVE  PollRuns'
<1>1. \A p \in Polls : poll[p].pc \in {"mint", "insert", "answer"} => poll[p].wake \in Wakes
  BY DEF TypeInv, PollsInFlight
<1>2. \A w \in Wakes : Named(w) => NamedNext(w)
  BY RowsMoved
<1> QED
  BY <1>1, <1>2 DEF PollRuns, RunsInv, Named, NamedNext

\* A request p that moves to q.
LEMMA PollMoves ==
  ASSUME TypeInv, RunsInv, RowsMove, NEW p \in Polls, NEW q,
         poll' = [poll EXCEPT ![p] = q],
         q.pc \in {"mint", "insert", "answer"} =>
           q.run \in Runs /\ q.wake \in Wakes /\ NamedNext(q.wake),
         creator'[p].pc # "none" => creator'[p].wake = q.wake,
         \A o \in Polls \ {p} : creator'[o] = creator[o]
  PROVE  PollRuns'
<1>1. \A o \in Polls : poll[o].pc \in {"mint", "insert", "answer"} => poll[o].wake \in Wakes
  BY DEF TypeInv, PollsInFlight
<1>2. \A w \in Wakes : Named(w) => NamedNext(w)
  BY RowsMoved
<1>3. poll'[p] = q /\ \A o \in Polls \ {p} : poll'[o] = poll[o]
  BY DEF TypeInv, TypeOK
<1>4. q.pc \in {"mint", "insert", "answer"} =>
        poll'[p].run \in Runs /\ wake'[poll'[p].wake].status # "absent"
        /\ wake'[poll'[p].wake].run \in Runs
  BY <1>3 DEF Named, NamedNext
<1> QED
  BY <1>1, <1>2, <1>3, <1>4 DEF PollRuns, RunsInv, Named, NamedNext

LEMMA SessionsStand ==
  ASSUME TypeInv, RunsInv, RowsMove, sessions' \subseteq sessions
  PROVE  SessionRuns'
<1>1. \A s \in sessions : s.wake \in Wakes
  BY DEF TypeInv, TypeOK, SessionRec
<1> QED
  BY <1>1, RowsMoved DEF SessionRuns, RunsInv, Named, NamedNext

LEMMA CompletionsStand ==
  ASSUME TypeInv, RunsInv, RowsMove, completing' \subseteq completing
  PROVE  CompletingRuns'
<1>1. \A c \in completing : c.wake \in Wakes
  BY DEF TypeInv, TypeOK, Completing
<1> QED
  BY <1>1, RowsMoved DEF CompletingRuns, RunsInv, Commented

\* A step that touches none of them.
LEMMA Bystander ==
  ASSUME TypeInv, RunsInv, RowsMove, StatusesMove, UNCHANGED <<poll, creator>>,
         sessions' \subseteq sessions, completing' \subseteq completing
  PROVE  RunsInv'
BY RunsStep, PollsStand, SessionsStand, CompletionsStand DEF CreatorsMove

LEMMA CalmRows ==
  ASSUME NEW row \in Row
  PROVE  /\ Calm(row, row) /\ Calm(row, Unstarted(row)) /\ Calm(row, Released(row))
         /\ Calm(row, Reaped(row))
         /\ \A st \in {"failed", "canceled"} : Calm(row, [row EXCEPT !.status = st])
<1>1. Calm(row, Released(row))
  BY DEF Calm, Released, Row
<1>2. Released(row).record = row.record /\ Released(row).run = row.run
  BY DEF Released, Row
<1>3. /\ Reaped(row).record = row.record /\ Reaped(row).run = row.run
      /\ Reaped(row).status \in {"failed", "queued"}
  BY DEF Released, Reaped, Row
<1> QED
  BY <1>1, <1>3 DEF Calm, Unstarted, Row

LEMMA NoRowMoves ==
  ASSUME UNCHANGED <<wake, runFor>>, commented \subseteq commented'
  PROVE  RowsMove
  BY DEF RowsMove, RowMoves, Calm

LEMMA OneRowMoves ==
  ASSUME TypeInv, NEW w \in Wakes, NEW row, wake' = [wake EXCEPT ![w] = row],
         Calm(wake[w], row), UNCHANGED <<runFor, commented>>
  PROVE  RowsMove
  BY DEF RowsMove, RowMoves, Calm, TypeInv, TypeOK

LEMMA CalmStep ==
  ASSUME \A w \in Wakes : Calm(wake[w], wake'[w]), UNCHANGED <<runFor, commented>>
  PROVE  RowsMove
  BY DEF RowsMove, RowMoves

-----------------------------------------------------------------------------
(* enqueue and dispatchRun.                                                *)

LEMMA InsertOrMergeRuns ==
  ASSUME TypeInv, RunsInv, NEW rec, NEW kind, InsertOrMerge(rec, kind),
         UNCHANGED <<runFor, commented>>
  PROVE  /\ RowsMove /\ CreatorsMove
         /\ \A p \in Polls : creator'[p] = creator[p]
<1>1. ASSUME NEW w \in Wakes, wake[w].status = "absent",
             wake' = [wake EXCEPT ![w] = NewRow(rec)],
             creator' = [creator EXCEPT ![w] = Creating(w, kind)]
      PROVE  /\ RowsMove /\ CreatorsMove
             /\ \A p \in Polls : creator'[p] = creator[p]
  <2>1. NewRow(rec).status = "queued" /\ NewRow(rec).run = NoRun
    BY DEF NewRow
  <2>2. RowsMove
    BY <1>1, <2>1 DEF RowsMove, RowMoves, Calm, TypeInv, TypeOK
  <2>3. ~Knows(Creating(w, kind))
    BY DEF Knows, Creating
  <2>4. CreatorsMove
    BY <1>1, <2>3 DEF CreatorsMove, TypeInv, TypeOK
  <2> QED
    BY <1>1, <2>2, <2>4, ConstantsAssumption DEF TypeInv, TypeOK
<1>2. ASSUME NEW w \in Wakes,
             wake' = [wake EXCEPT ![w].rewake = @ \/ wake[w].status = "claimed"],
             UNCHANGED creator
      PROVE  /\ RowsMove /\ CreatorsMove
             /\ \A p \in Polls : creator'[p] = creator[p]
  <2> DEFINE row == [wake[w] EXCEPT !.rewake = wake[w].rewake \/ wake[w].status = "claimed"]
  <2>1. Calm(wake[w], row)
    BY DEF Calm, TypeInv, TypeOK, Row
  <2>2. wake' = [wake EXCEPT ![w] = row]
    BY <1>2
  <2> HIDE DEF row
  <2> QED
    BY <1>2, <2>1, <2>2, OneRowMoves DEF CreatorsMove
<1> QED
  BY <1>1, <1>2 DEF InsertOrMerge, OpenFor

LEMMA EnqueueRuns ==
  ASSUME TypeInv, RunsInv, NEW rec, NEW kind, Enqueue(rec, kind)
  PROVE  RunsInv'
<1>1. RowsMove /\ CreatorsMove /\ \A p \in Polls : creator'[p] = creator[p]
  BY InsertOrMergeRuns DEF Enqueue, runVars, clientVars
<1>2. UNCHANGED <<poll, sessions, completing, runStatus>>
  BY DEF Enqueue, runVars, clientVars
<1> QED
  BY <1>1, <1>2, RunsStep, PollsStand, SessionsStand, CompletionsStand DEF StatusesMove

\* The Run is new: no wake has it yet.
LEMMA CreateRunRuns ==
  ASSUME TypeInv, RunsInv, NEW x \in Wakes \cup Polls, CreateRun(x)
  PROVE  RunsInv'
<1>1. PICK u \in Runs, st \in {"Failed", "Queued"}, pc \in {"blocked", "attach"} :
        /\ creator[x].pc = "create" /\ runStatus[u] = "none"
        /\ runStatus' = [runStatus EXCEPT ![u] = st]
        /\ runFor' = [runFor EXCEPT ![u] = creator[x].wake]
        /\ creator' = [creator EXCEPT ![x].pc = pc, ![x].run = u]
  BY DEF CreateRun
<1>2. UNCHANGED <<wake, poll, sessions, completing, commented>>
  BY DEF CreateRun, rowVars, clientVars
<1>3. creator[x].wake \in Wakes
  BY <1>1 DEF TypeInv, CreatorsInFlight
<1>4. \A v \in Runs : runFor[v] \in Wakes => v # u /\ runFor'[v] = runFor[v]
  BY <1>1 DEF RunsInv, MadeRuns, TypeInv, TypeOK
<1>5. runFor'[u] = creator[x].wake /\ \A v \in Runs \ {u} : runFor'[v] = runFor[v]
  BY <1>1 DEF TypeInv, TypeOK
<1>6. RowRuns'
  BY <1>2, <1>4 DEF RunsInv, RowRuns
<1>7. MadeRuns'
  BY <1>1, <1>5 DEF RunsInv, MadeRuns, TypeInv, TypeOK
<1>8. /\ creator'[x].run = u /\ creator'[x].wake = creator[x].wake
      /\ \A y \in (Wakes \cup Polls) \ {x} : creator'[y] = creator[y]
  BY <1>1 DEF TypeInv, TypeOK, Creator
<1>9. CreatorRuns'
  <2> SUFFICES ASSUME NEW y \in Wakes \cup Polls, Knows(creator'[y])
               PROVE  runFor'[creator'[y].run] = creator'[y].wake
    BY DEF CreatorRuns
  <2>1. CASE y = x
    BY <1>5, <1>8, <2>1
  <2>2. CASE y # x
    <3>1. creator'[y] = creator[y] /\ creator[y].wake \in Wakes /\ creator[y].run \in Runs
          /\ runFor[creator[y].run] = creator[y].wake
      BY <1>8, <2>2 DEF RunsInv, CreatorRuns, Knows, TypeInv, CreatorsInFlight
    <3> QED
      BY <1>4, <3>1
  <2> QED
    BY <2>1, <2>2
<1>10. PollRuns'
  BY <1>1, <1>2, <1>8 DEF RunsInv, PollRuns, Named, NamedNext
<1>11. SessionRuns'
  BY <1>2 DEF RunsInv, SessionRuns, Named, NamedNext
<1>12. \A w \in Wakes : Commented(w) => Commented(w)'
  BY <1>2, <1>4 DEF Commented
<1>13. CompletingRuns'
  BY <1>2, <1>12 DEF RunsInv, CompletingRuns, TypeInv, TypeOK, Completing
<1>14. DoneMeansCommented'
  BY <1>2, <1>4 DEF RunsInv, DoneMeansCommented
<1> QED
  BY <1>6, <1>7, <1>9, <1>10, <1>11, <1>13, <1>14 DEF RunsInv

\* The steps of a dispatch that write its row and move on, or stop.
LEMMA DispatchStepRuns ==
  ASSUME TypeInv, RunsInv, RowsMove, StatusesMove, NEW x \in Wakes \cup Polls, NEW c,
         creator' = [creator EXCEPT ![x] = c], creator[x].pc # "none",
         c.pc # "none" => c.wake = creator[x].wake,
         Knows(c) => Knows(creator[x]) /\ c.run = creator[x].run,
         UNCHANGED <<poll, sessions, completing>>
  PROVE  RunsInv'
<1>1. creator'[x] = c /\ \A y \in (Wakes \cup Polls) \ {x} : creator'[y] = creator[y]
  BY DEF TypeInv, TypeOK
<1>2. CreatorsMove
  BY <1>1 DEF CreatorsMove, Knows
<1>3. PollRuns'
  <2>1. \A p \in Polls : creator'[p].pc # "none" =>
          creator[p].pc # "none" /\ creator'[p].wake = creator[p].wake
    BY <1>1
  <2> QED
    BY <2>1, PollsStand
<1> QED
  BY <1>2, <1>3, RunsStep, SessionsStand, CompletionsStand

LEMMA DispatchRuns ==
  ASSUME TypeInv, RunsInv, Dispatch
  PROVE  RunsInv'
<1>1. ASSUME NEW rec, NEW kind, Enqueue(rec, kind) PROVE RunsInv'
  BY <1>1, EnqueueRuns
<1>2. ASSUME NEW x \in Wakes \cup Polls, creator[x].pc # "none"
      PROVE  /\ creator[x].wake \in Wakes /\ wake[creator[x].wake] \in Row
             /\ creator[x] \in Creator
             /\ \A pc \in {"reattach", "execute", "undo"} :
                  /\ [creator[x] EXCEPT !.pc = pc].wake = creator[x].wake
                  /\ [creator[x] EXCEPT !.pc = pc].run = creator[x].run
                  /\ [creator[x] EXCEPT !.pc = pc].pc = pc
  BY <1>2 DEF TypeInv, TypeOK, CreatorsInFlight, Creator
<1>3. NoCreator.pc = "none" /\ ~Knows(NoCreator)
  BY DEF NoCreator, Knows
<1>4. ASSUME NEW x \in Wakes \cup Polls, BlockedRun(x) PROVE RunsInv'
  <2>1. /\ creator[x].pc = "blocked"
        /\ wake' = [wake EXCEPT ![creator[x].wake] = Unstarted(wake[creator[x].wake])]
        /\ creator' = [creator EXCEPT ![x] = [creator[x] EXCEPT !.pc = "reattach"]]
        /\ UNCHANGED <<runFor, runStatus, poll, sessions, completing, commented>>
    BY <1>4 DEF BlockedRun, runVars, clientVars
  <2>2. RowsMove
    BY <1>2, <2>1, CalmRows, OneRowMoves
  <2> QED
    BY <1>2, <2>1, <2>2, DispatchStepRuns DEF Knows, StatusesMove
<1>5. ASSUME NEW x \in Wakes \cup Polls, Knows(creator[x]),
             wake' = [wake EXCEPT ![creator[x].wake].run = creator[x].run],
             UNCHANGED <<runFor, commented>>
      PROVE  RowsMove /\ creator[x].run \in Runs /\ NamedNext(creator[x].wake)
  <2> DEFINE w == creator[x].wake
  <2>1. /\ w \in Wakes /\ wake[w] \in Row /\ creator[x].run \in Runs
        /\ runFor[creator[x].run] = w /\ wake[w].status # "absent"
    BY <1>5 DEF TypeInv, TypeOK, CreatorsInFlight, Knows, RunsInv, CreatorRuns
  <2>2. /\ wake'[w] = [wake[w] EXCEPT !.run = creator[x].run]
        /\ \A v \in Wakes \ {w} : wake'[v] = wake[v]
    BY <1>5, <2>1 DEF TypeInv, TypeOK
  <2>3. /\ wake'[w].status = wake[w].status /\ wake'[w].record = wake[w].record
        /\ wake'[w].run = creator[x].run
    BY <2>1, <2>2 DEF Row
  <2>4. RowsMove
    BY <1>5, <2>1, <2>2, <2>3 DEF RowsMove, RowMoves, Calm
  <2> QED
    BY <2>1, <2>3, <2>4 DEF Named, NamedNext
<1>6. ASSUME NEW x \in Wakes \cup Polls, AttachRun(x) PROVE RunsInv'
  <2>1. /\ creator[x].pc = "attach"
        /\ wake' = [wake EXCEPT ![creator[x].wake].run = creator[x].run]
        /\ creator' = [creator EXCEPT ![x] = [creator[x] EXCEPT !.pc = "execute"]]
        /\ UNCHANGED <<runFor, runStatus, poll, sessions, completing, commented>>
    BY <1>6 DEF AttachRun, runVars, clientVars
  <2>2. RowsMove
    BY <1>5, <2>1 DEF Knows
  <2> QED
    BY <1>2, <2>1, <2>2, DispatchStepRuns DEF Knows, StatusesMove
<1>7. ASSUME NEW x \in Wakes \cup Polls, DispatchDone(x) \/ DispatchFails(x) PROVE RunsInv'
  <2>1. /\ creator[x].pc = "execute"
        /\ creator' = [creator EXCEPT ![x] = Dispatched(x)]
        /\ wake' = wake \/ wake' = [wake EXCEPT ![creator[x].wake] = Unstarted(wake[creator[x].wake])]
        /\ runStatus' = runStatus \/ runStatus' = RunMoved(creator[x].run, "Failed")
        /\ UNCHANGED <<runFor, poll, sessions, completing, commented>>
    BY <1>7 DEF DispatchDone, DispatchFails, rowVars, runVars, clientVars
  <2>2. RowsMove
    BY <1>2, <2>1, CalmRows, OneRowMoves, NoRowMoves
  <2>3. StatusesMove
    BY <2>1 DEF StatusesMove, RunMoved, TypeInv, TypeOK
  <2>4. Dispatched(x) \in {NoCreator, [creator[x] EXCEPT !.pc = "reattach"]}
    BY DEF Dispatched
  <2> QED
    BY <1>2, <1>3, <2>1, <2>2, <2>3, <2>4, DispatchStepRuns DEF Knows
<1>8. ASSUME NEW x \in Wakes \cup Polls, ReattachRun(x) PROVE RunsInv'
  <2>1. /\ creator[x].pc = "reattach"
        /\ wake' = [wake EXCEPT ![creator[x].wake].run = creator[x].run]
        /\ creator' = [creator EXCEPT ![x] = NoCreator]
        /\ UNCHANGED <<runFor, runStatus, sessions, completing, commented>>
    BY <1>8 DEF ReattachRun, runVars, clientVars
  <2>2. RowsMove /\ creator[x].run \in Runs /\ NamedNext(creator[x].wake)
    BY <1>5, <2>1 DEF Knows
  <2>3. CASE x \notin Polls
    BY <1>3, <1>8, <2>1, <2>2, <2>3, DispatchStepRuns DEF ReattachRun, StatusesMove
  <2>4. CASE x \in Polls
    <3> DEFINE q == [poll[x] EXCEPT !.pc = "mint", !.run = creator[x].run]
    <3>1. poll' = [poll EXCEPT ![x] = q]
      BY <1>8, <2>4 DEF ReattachRun, TypeInv, TypeOK, PollState
    <3>2. q.run = creator[x].run /\ q.wake = poll[x].wake
      BY <2>4 DEF TypeInv, TypeOK, PollState
    <3>3. creator[x].wake = poll[x].wake /\ creator[x].wake \in Wakes
      BY <1>2, <2>1, <2>4 DEF RunsInv, PollRuns
    <3>4. creator'[x] = NoCreator /\ \A y \in (Wakes \cup Polls) \ {x} : creator'[y] = creator[y]
      BY <2>1 DEF TypeInv, TypeOK
    <3> HIDE DEF q
    <3>5. NamedNext(q.wake) /\ q.wake \in Wakes /\ q.run \in Runs
      BY <2>2, <3>2, <3>3 DEF Named, NamedNext
    <3>6. PollRuns'
      BY <1>3, <2>2, <2>4, <3>1, <3>4, <3>5, PollMoves
    <3>7. CreatorsMove
      BY <1>3, <3>4 DEF CreatorsMove
    <3> QED
      BY <2>1, <2>2, <3>6, <3>7, RunsStep, SessionsStand, CompletionsStand DEF StatusesMove
  <2> QED
    BY <2>3, <2>4
<1>9. ASSUME NEW x \in Wakes \cup Polls, CreateRunFails(x) PROVE RunsInv'
  <2>1. /\ creator[x].pc = "create"
        /\ wake' = wake \/ wake' = [wake EXCEPT ![creator[x].wake] = Unstarted(wake[creator[x].wake])]
        /\ UNCHANGED <<runFor, runStatus, poll, sessions, completing, commented>>
    BY <1>9 DEF CreateRunFails, runVars, clientVars
  <2>2. PICK c \in {NoCreator, [creator[x] EXCEPT !.pc = "undo"]} :
          creator' = [creator EXCEPT ![x] = c]
    BY <1>9 DEF CreateRunFails
  <2>3. RowsMove
    BY <1>2, <2>1, CalmRows, OneRowMoves, NoRowMoves
  <2> QED
    BY <1>2, <1>3, <2>1, <2>2, <2>3, DispatchStepRuns DEF Knows, StatusesMove
<1>10. ASSUME NEW w \in Wakes, UndoEnqueue(w) PROVE RunsInv'
  <2>1. /\ creator[w].pc = "undo" /\ wake[w] \in Row
        /\ wake' = [wake EXCEPT ![w] = [wake[w] EXCEPT !.status = "canceled"]]
        /\ creator' = [creator EXCEPT ![w] = NoCreator]
        /\ UNCHANGED <<runFor, runStatus, poll, sessions, completing, commented>>
    BY <1>10 DEF UndoEnqueue, runVars, clientVars, TypeInv, TypeOK
  <2>2. RowsMove
    BY <2>1, CalmRows, OneRowMoves
  <2> QED
    BY <1>3, <2>1, <2>2, DispatchStepRuns DEF StatusesMove
<1> QED
  BY <1>1, <1>4, <1>6, <1>7, <1>8, <1>9, <1>10, CreateRunRuns DEF Dispatch

-----------------------------------------------------------------------------
(* claim.                                                                  *)

LEMMA ClaimedCalm ==
  ASSUME NEW row \in Row, NEW r, NEW n
  PROVE  Calm(row, Claimed(row, r, n))
  BY DEF Calm, Claimed, Row

\* A step of a request that has no dispatch afterwards.
LEMMA PollStepRuns ==
  ASSUME TypeInv, RunsInv, RowsMove, StatusesMove, NEW p \in Polls, NEW q,
         poll' = [poll EXCEPT ![p] = q],
         q.pc \in {"mint", "insert", "answer"} =>
           q.run \in Runs /\ q.wake \in Wakes /\ NamedNext(q.wake),
         \/ creator' = creator /\ poll[p].pc # "ensure"
         \/ creator' = [creator EXCEPT ![p] = NoCreator],
         SessionRuns', completing' = completing
  PROVE  RunsInv'
<1>1. NoCreator.pc = "none" /\ ~Knows(NoCreator)
  BY DEF NoCreator, Knows
<1>2. /\ creator'[p].pc = "none"
      /\ \A y \in (Wakes \cup Polls) \ {p} : creator'[y] = creator[y]
      /\ creator'[p] = creator[p] \/ ~Knows(creator'[p])
  BY <1>1 DEF TypeInv, TypeOK, CreatorsInFlight
<1>3. CreatorsMove
  BY <1>2 DEF CreatorsMove
<1>4. PollRuns'
  BY <1>2, PollMoves
<1> QED
  BY <1>3, <1>4, RunsStep, CompletionsStand

LEMMA ClaimRuns ==
  ASSUME TypeInv, RunsInv, Claim
  PROVE  RunsInv'
<1>1. IdlePoll.pc = "idle"
  BY DEF IdlePoll
<1>2. ASSUME NEW p \in Polls, poll[p].pc \in {"mint", "insert", "answer"}
      PROVE  /\ poll[p].run \in Runs /\ poll[p].wake \in Wakes /\ Named(poll[p].wake)
             /\ poll[p].runner \in Runners
  BY <1>2 DEF RunsInv, PollRuns, TypeInv, PollsInFlight
<1>3. ASSUME NEW p \in Polls
      PROVE  /\ poll[p] \in PollState
             /\ \A pc \in {"insert", "answer"} :
                  /\ [poll[p] EXCEPT !.pc = pc].run = poll[p].run
                  /\ [poll[p] EXCEPT !.pc = pc].wake = poll[p].wake
  BY DEF TypeInv, TypeOK, PollState
<1>4. \A w \in Wakes : wake[w] \in Row
  BY DEF TypeInv, TypeOK
<1>5. sessions' = sessions /\ RowsMove => SessionRuns'
  BY SessionsStand
<1>6. ASSUME NEW p \in Polls, NEW r \in Runners, PollRound(p, r) PROVE RunsInv'
  <2> DEFINE q == [IdlePoll EXCEPT !.pc = "checked", !.runner = r]
  <2>1. /\ poll[p].pc = "idle" /\ poll' = [poll EXCEPT ![p] = q]
        /\ UNCHANGED <<wake, runFor, runStatus, creator, completing, sessions, commented>>
    BY <1>6 DEF PollRound, rowVars, runVars, clientVars
  <2>2. q.pc = "checked"
    BY DEF IdlePoll
  <2> HIDE DEF q
  <2> QED
    BY <1>5, <2>1, <2>2, NoRowMoves, PollStepRuns DEF StatusesMove
<1>7. ASSUME NEW p \in Polls, PollEmpty(p) PROVE RunsInv'
  <2>1. /\ poll[p].pc = "checked" /\ poll' = [poll EXCEPT ![p] = IdlePoll]
        /\ UNCHANGED <<wake, runFor, runStatus, creator, completing, sessions, commented>>
    BY <1>7 DEF PollEmpty, rowVars, runVars, clientVars
  <2> QED
    BY <1>1, <1>5, <2>1, NoRowMoves, PollStepRuns DEF StatusesMove
<1>8. ASSUME NEW p \in Polls, NEW w \in Wakes, ClaimOnce(p, w) PROVE RunsInv'
  <2> DEFINE pc == IF wake[w].run = NoRun THEN "ensure" ELSE "mint"
             q == [poll[p] EXCEPT !.pc = pc, !.wake = w, !.nonce = claims + 1,
                                  !.run = wake[w].run]
  <2>1. /\ wake' = [wake EXCEPT ![w] = Claimed(wake[w], poll[p].runner, claims + 1)]
        /\ poll' = [poll EXCEPT ![p] = q]
        /\ poll[p].pc = "checked" /\ wake[w].status = "queued"
        /\ UNCHANGED <<runFor, runStatus, completing, sessions, commented>>
    BY <1>8 DEF ClaimOnce, Claimable, runVars, clientVars
  <2>2. RowsMove
    BY <1>4, <2>1, ClaimedCalm, OneRowMoves
  <2>3. q.pc = pc /\ q.wake = w /\ q.run = wake[w].run
    BY <1>3 DEF PollState
  <2>4. pc = "mint" => wake[w].run \in Runs /\ Named(w)
    BY <1>4, <2>1 DEF Row, Named
  <2>5. pc = "mint" => NamedNext(w)
    BY <2>2, <2>4, RowsMoved
  <2>6. /\ ~Knows(Creating(w, "claim")) /\ Creating(w, "claim").wake = w
        /\ creator[p].pc = "none"
    BY <2>1 DEF Knows, Creating, TypeInv, CreatorsInFlight
  <2> HIDE DEF q
  <2>7. /\ \A y \in (Wakes \cup Polls) \ {p} : creator'[y] = creator[y]
        /\ creator'[p] = creator[p] \/ creator'[p] = Creating(w, "claim")
    BY <1>8 DEF ClaimOnce, TypeInv, TypeOK
  <2>8. CreatorsMove
    BY <2>6, <2>7 DEF CreatorsMove
  <2>9. PollRuns'
    BY <2>1, <2>2, <2>3, <2>4, <2>5, <2>6, <2>7, PollMoves
  <2> QED
    BY <1>5, <2>1, <2>2, <2>8, <2>9, RunsStep, CompletionsStand DEF StatusesMove
<1>9. ASSUME NEW p \in Polls, FailClaim(p) PROVE RunsInv'
  <2> DEFINE w == poll[p].wake
             row == [wake[w] EXCEPT !.status = "failed", !.lease = "none"]
  <2>1. /\ poll[p].pc \in {"ensure", "mint"}
        /\ wake' = wake \/ wake' = [wake EXCEPT ![w] = row]
        /\ poll' = [poll EXCEPT ![p] = IdlePoll]
        /\ creator' = [creator EXCEPT ![p] = NoCreator]
        /\ UNCHANGED <<runFor, runStatus, completing, sessions, commented>>
    BY <1>9 DEF FailClaim, runVars, clientVars
  <2>2. w \in Wakes
    BY <2>1 DEF TypeInv, PollsInFlight
  <2>3. Calm(wake[w], row)
    BY <1>4, <2>2 DEF Calm, Row
  <2> HIDE DEF w, row
  <2>4. RowsMove
    BY <2>1, <2>2, <2>3, NoRowMoves, OneRowMoves
  <2> QED
    BY <1>1, <1>5, <2>1, <2>4, PollStepRuns DEF StatusesMove
<1>10. ASSUME NEW p \in Polls, MintRefused(p) PROVE RunsInv'
  <2> DEFINE w == poll[p].wake
  <2>1. PICK row \in {Released(wake[w]), wake[w]} : wake' = [wake EXCEPT ![w] = row]
    BY <1>10 DEF MintRefused
  <2>2. /\ poll[p].pc = "mint" /\ poll' = [poll EXCEPT ![p] = IdlePoll]
        /\ UNCHANGED <<runFor, runStatus, creator, completing, sessions, commented>>
    BY <1>10 DEF MintRefused, runVars, clientVars
  <2>3. w \in Wakes
    BY <1>2, <2>2
  <2>4. RowsMove
    BY <1>4, <2>1, <2>2, <2>3, CalmRows, OneRowMoves
  <2> QED
    BY <1>1, <1>5, <2>2, <2>4, PollStepRuns DEF StatusesMove
<1>11. ASSUME NEW p \in Polls, MintRevoke(p) \/ MintInsert(p) PROVE RunsInv'
  <2>1. PICK pc \in {"insert", "answer"} : poll' = [poll EXCEPT ![p] = [poll[p] EXCEPT !.pc = pc]]
    BY <1>11 DEF MintRevoke, MintInsert
  <2>2. /\ poll[p].pc \in {"mint", "insert"}
        /\ UNCHANGED <<wake, runFor, runStatus, creator, completing, sessions, commented>>
    BY <1>11 DEF MintRevoke, MintInsert, rowVars, runVars, clientVars
  <2>3. RowsMove
    BY <2>2, NoRowMoves
  <2>4. NamedNext(poll[p].wake)
    BY <1>2, <2>2, <2>3, RowsMoved
  <2> QED
    BY <1>2, <1>3, <1>5, <2>1, <2>2, <2>3, <2>4, PollStepRuns DEF StatusesMove
<1>12. ASSUME NEW p \in Polls, HandOver(p) PROVE RunsInv'
  <2> DEFINE s == [nonce |-> poll[p].nonce, wake |-> poll[p].wake,
                   runner |-> poll[p].runner, run |-> poll[p].run, phase |-> "running"]
  <2>1. /\ poll[p].pc = "answer" /\ poll' = [poll EXCEPT ![p] = IdlePoll]
        /\ runStatus' = RunMoved(poll[p].run, "Running")
        /\ sessions' \subseteq sessions \cup {s}
        /\ UNCHANGED <<wake, runFor, creator, completing, commented>>
    BY <1>12 DEF HandOver, rowVars
  <2>2. RowsMove
    BY <2>1, NoRowMoves
  <2>3. StatusesMove
    BY <2>1 DEF StatusesMove, RunMoved, TypeInv, TypeOK
  <2>4. s.run \in Runs /\ Named(s.wake)
    BY <1>2, <2>1
  <2> HIDE DEF s
  <2>5. SessionRuns'
    BY <2>1, <2>4 DEF SessionRuns, RunsInv, Named
  <2> QED
    BY <1>1, <2>1, <2>2, <2>3, <2>5, PollStepRuns
<1> QED
  BY <1>6, <1>7, <1>8, <1>9, <1>10, <1>11, <1>12 DEF Claim

-----------------------------------------------------------------------------
(* Sessions and completions.                                               *)

\* What a completion reads as done is done: the Run it finds in the comments is
\* the row's, made for the row's wake.
LEMMA ReadAsDone ==
  ASSUME TypeInv, RunsInv, NEW s \in sessions, NEW exit \in Exits,
         Outcome(wake[s.wake], exit) = "done", wake[s.wake].record # NoRecord
  PROVE  Commented(s.wake)
<1>1. exit \in {"ok", "failed", "aborted", "limit_reached"}
  BY ConstantsAssumption
<1>2. exit = "ok" /\ wake[s.wake].run \in commented
  BY <1>1 DEF Outcome
<1>3. s.wake \in Wakes /\ wake[s.wake].run \in Runs
  BY DEF RunsInv, SessionRuns, Named, TypeInv, TypeOK, SessionRec
<1> QED
  BY <1>2, <1>3 DEF RunsInv, RowRuns, Commented

\* The row after a completion is calm, or done.
LEMMA CompletedCalm ==
  ASSUME NEW row \in Row, NEW out \in {"limit", "rewoken", "done", "failed", "canceled"}
  PROVE  /\ Completed(row, out).record = row.record /\ Completed(row, out).run = row.run
         /\ Completed(row, out).status # "absent"
         /\ out # "done" => Completed(row, out).status # "done"
  BY DEF Completed, Row

LEMMA SessionRunsStep ==
  ASSUME TypeInv, RunsInv, Session
  PROVE  RunsInv'
<1>1. ASSUME NEW s \in sessions, Comment(s) \/ SessionGone(s) PROVE RunsInv'
  <2>1. /\ UNCHANGED <<wake, runFor, runStatus, poll, creator, completing>>
        /\ sessions' \subseteq sessions /\ commented \subseteq commented'
    BY <1>1 DEF Comment, SessionGone, rowVars, runVars, handlerVars
  <2> QED
    BY <2>1, NoRowMoves, Bystander DEF StatusesMove
<1>2. ASSUME NEW s \in sessions, NEW exit \in Exits, SessionEnds(s, exit) PROVE RunsInv'
  <2> DEFINE t == [s EXCEPT !.phase = exit]
  <2>1. /\ UNCHANGED <<wake, runFor, runStatus, poll, creator, completing, commented>>
        /\ sessions' \subseteq sessions \cup {t}
    BY <1>2 DEF SessionEnds, rowVars, runVars, handlerVars
  <2>2. t.run = s.run /\ t.wake = s.wake
    BY DEF TypeInv, TypeOK, SessionRec
  <2> HIDE DEF t
  <2>3. SessionRuns'
    BY <2>1, <2>2 DEF RunsInv, SessionRuns, Named
  <2>4. RowsMove
    BY <2>1, NoRowMoves
  <2> QED
    BY <2>1, <2>3, <2>4, RunsStep, PollsStand, CompletionsStand DEF StatusesMove, CreatorsMove
<1>3. ASSUME NEW s \in sessions, CompleteRead(s) PROVE RunsInv'
  <2> DEFINE c == [nonce |-> s.nonce, wake |-> s.wake, runner |-> s.runner,
                   out |-> Outcome(wake[s.wake], s.phase)]
  <2>1. /\ UNCHANGED <<wake, runFor, runStatus, poll, creator, sessions, commented>>
        /\ completing' = completing \cup {c}
        /\ s.phase \in Exits
    BY <1>3 DEF CompleteRead, rowVars, runVars, clientVars
  <2>2. RowsMove
    BY <2>1, NoRowMoves
  <2>3. wake[s.wake].status # "absent"
    BY DEF RunsInv, SessionRuns, Named
  <2>4. c.wake = s.wake /\ c.out = Outcome(wake[s.wake], s.phase)
    OBVIOUS
  <2>5. c.out = "done" /\ wake[c.wake].record # NoRecord => Commented(c.wake)
    BY <2>1, <2>4, ReadAsDone
  <2> HIDE DEF c
  <2>6. CompletingRuns'
    BY <2>1, <2>3, <2>4, <2>5 DEF RunsInv, CompletingRuns, Commented
  <2> QED
    BY <2>1, <2>2, <2>6, RunsStep, PollsStand, SessionsStand DEF StatusesMove, CreatorsMove
<1>4. ASSUME NEW s \in sessions, Heartbeat(s) PROVE RunsInv'
  <2> DEFINE row == [wake[s.wake] EXCEPT !.lease = "live"]
  <2>1. /\ wake' = [wake EXCEPT ![s.wake] = row]
        /\ UNCHANGED <<runFor, runStatus, poll, creator, completing, sessions, commented>>
    BY <1>4 DEF Heartbeat, runVars, handlerVars, clientVars
  <2>2. s.wake \in Wakes /\ wake[s.wake] \in Row
    BY DEF TypeInv, TypeOK, SessionRec
  <2>3. Calm(wake[s.wake], row)
    BY <2>2 DEF Calm, Row
  <2> HIDE DEF row
  <2> QED
    BY <2>1, <2>2, <2>3, OneRowMoves, Bystander DEF StatusesMove
<1>5. ASSUME NEW c \in completing, CompleteFlip(c) PROVE RunsInv'
  <2> DEFINE w == c.wake
             row == Completed(wake[w], c.out)
  <2>1. /\ wake' = [wake EXCEPT ![w] = row]
        /\ completing' \subseteq completing
        /\ UNCHANGED <<runFor, runStatus, poll, creator, sessions, commented>>
    BY <1>5 DEF CompleteFlip, runVars
  <2>2. /\ w \in Wakes /\ wake[w] \in Row
        /\ c.out \in {"limit", "rewoken", "done", "failed", "canceled"}
    BY DEF TypeInv, TypeOK, Completing
  <2>3. /\ wake[w].status # "absent"
        /\ c.out = "done" /\ wake[w].record # NoRecord => Commented(w)
    BY DEF RunsInv, CompletingRuns
  <2>4. /\ row.record = wake[w].record /\ row.run = wake[w].run /\ row.status # "absent"
        /\ c.out # "done" => row.status # "done"
    BY <2>2, CompletedCalm
  <2>5. wake'[w] = row /\ \A v \in Wakes \ {w} : wake'[v] = wake[v]
    BY <2>1, <2>2 DEF TypeInv, TypeOK
  <2> HIDE DEF row
  <2>6. RowMoves(w)
    <3>1. CASE c.out # "done"
      BY <2>3, <2>4, <2>5, <3>1 DEF RowMoves, Calm
    <3>2. CASE c.out = "done"
      BY <2>3, <2>4, <2>5, <3>2 DEF RowMoves
    <3> QED
      BY <3>1, <3>2
  <2>7. \A v \in Wakes \ {w} : RowMoves(v)
    BY <2>5 DEF RowMoves, Calm
  <2>8. RowsMove
    BY <2>1, <2>6, <2>7 DEF RowsMove
  <2> QED
    BY <2>1, <2>8, Bystander DEF StatusesMove
<1>6. ASSUME NEW c \in completing, CompleteLost(c) PROVE RunsInv'
  <2>1. /\ completing' \subseteq completing
        /\ UNCHANGED <<wake, runFor, runStatus, poll, creator, sessions, commented>>
    BY <1>6 DEF CompleteLost, rowVars, runVars, clientVars
  <2> QED
    BY <2>1, NoRowMoves, Bystander DEF StatusesMove
<1> QED
  BY <1>1, <1>2, <1>3, <1>4, <1>5, <1>6 DEF Session

LEMMA FollowUpsRuns ==
  ASSUME TypeInv, RunsInv, FollowUps
  PROVE  RunsInv'
<1>1. ASSUME NEW f \in after, AfterRevoke(f) \/ AfterStatus(f) PROVE RunsInv'
  <2>1. /\ UNCHANGED <<wake, runFor, poll, creator, completing, sessions, commented>>
        /\ runStatus' = runStatus \/ runStatus' = RunMoved(f.run, f.to)
    BY <1>1 DEF AfterRevoke, AfterStatus, rowVars, runVars, clientVars
  <2>2. f.to # "none"
    BY DEF TypeInv, TypeOK, FollowUpRec
  <2>3. StatusesMove
    BY <2>1, <2>2 DEF StatusesMove, RunMoved, TypeInv, TypeOK
  <2> QED
    BY <2>1, <2>3, NoRowMoves, Bystander
<1>2. ASSUME NEW f \in after, AfterRewake(f) PROVE RunsInv'
  <2>1. UNCHANGED <<runFor, runStatus, poll, completing, sessions, commented>>
    BY <1>2 DEF AfterRewake, runVars, clientVars
  <2>2. CASE eligible
    <3>1. RowsMove /\ CreatorsMove /\ \A p \in Polls : creator'[p] = creator[p]
      BY <1>2, <2>1, <2>2, InsertOrMergeRuns DEF AfterRewake
    <3> QED
      BY <2>1, <3>1, RunsStep, PollsStand, SessionsStand, CompletionsStand DEF StatusesMove
  <2>3. CASE ~eligible
    <3>1. UNCHANGED <<wake, creator>>
      BY <1>2, <2>3 DEF AfterRewake
    <3> QED
      BY <2>1, <3>1, NoRowMoves, Bystander DEF StatusesMove
  <2> QED
    BY <2>2, <2>3
<1> QED
  BY <1>1, <1>2 DEF FollowUps

-----------------------------------------------------------------------------
(* The sweeper, people, time and handlers that stop.                       *)

LEMMA SweepAndPeopleRuns ==
  ASSUME TypeInv, RunsInv, Sweep \/ People
  PROVE  RunsInv'
<1>1. \A w \in Wakes :
        /\ Calm(wake[w], wake[w]) /\ Calm(wake[w], Reaped(wake[w]))
        /\ Calm(wake[w], Released(wake[w]))
        /\ Calm(wake[w], [wake[w] EXCEPT !.status = "canceled"])
  BY CalmRows DEF TypeInv, TypeOK
<1>2. CASE ReapExpiredLeases
  <2>1. \A w \in Wakes : wake'[w] = wake[w] \/ wake'[w] = Reaped(wake[w])
    BY <1>2 DEF ReapExpiredLeases
  <2>2. UNCHANGED <<runFor, runStatus, poll, creator, completing, sessions, commented>>
    BY <1>2 DEF ReapExpiredLeases, runVars, clientVars
  <2> QED
    BY <1>1, <2>1, <2>2, CalmStep, Bystander DEF StatusesMove
<1>3. CASE ExpireQueued \/ \E u \in Runs : CancelForRun(u)
  <2>1. \A w \in Wakes : wake'[w] = wake[w] \/ wake'[w] = [wake[w] EXCEPT !.status = "canceled"]
    BY <1>3 DEF ExpireQueued, CancelForRun
  <2>2. UNCHANGED <<runFor, runStatus, poll, creator, completing, sessions, commented>>
    BY <1>3 DEF ExpireQueued, CancelForRun, runVars, clientVars
  <2> QED
    BY <1>1, <2>1, <2>2, CalmStep, Bystander DEF StatusesMove
<1>4. ASSUME NEW r \in Runners, RevokeRunner(r) PROVE RunsInv'
  <2>1. \A w \in Wakes : wake'[w] = wake[w] \/ wake'[w] = Released(wake[w])
    BY <1>4 DEF RevokeRunner
  <2>2. UNCHANGED <<runFor, runStatus, poll, creator, completing, sessions, commented>>
    BY <1>4 DEF RevokeRunner, runVars, clientVars
  <2> QED
    BY <1>1, <2>1, <2>2, CalmStep, Bystander DEF StatusesMove
<1>5. ASSUME NEW u \in Runs, AdminCancelRun(u) PROVE RunsInv'
  <2>1. /\ UNCHANGED <<wake, runFor, poll, creator, completing, sessions, commented>>
        /\ runStatus' = [runStatus EXCEPT ![u] = "Canceled"]
    BY <1>5 DEF AdminCancelRun, rowVars, clientVars
  <2>2. StatusesMove
    BY <2>1 DEF StatusesMove, TypeInv, TypeOK
  <2> QED
    BY <2>1, <2>2, NoRowMoves, Bystander
<1>6. CASE \/ \E r \in Runners : AssignCheck(r) \/ AssignUpsert(r)
           \/ Unassign \/ ToggleEligible
  <2>1. UNCHANGED <<wake, runFor, runStatus, poll, creator, completing, sessions, commented>>
    BY <1>6 DEF AssignCheck, AssignUpsert, Unassign, ToggleEligible,
                rowVars, runVars, handlerVars, clientVars
  <2> QED
    BY <2>1, NoRowMoves, Bystander DEF StatusesMove
<1> QED
  BY <1>2, <1>3, <1>4, <1>5, <1>6 DEF Sweep, People

LEMMA TimeRuns ==
  ASSUME TypeInv, RunsInv, Time
  PROVE  RunsInv'
<1>1. UNCHANGED <<runFor, runStatus, poll, creator, completing, sessions, commented>>
  BY DEF Time, LeaseLapses, CeilingPasses, HoldEnds, Ages, PauseEnds,
         runVars, handlerVars, clientVars
<1>2. \/ wake' = wake
      \/ \E w \in Wakes :
           \/ wake' = [wake EXCEPT ![w].lease = "lapsed"]
           \/ wake' = [wake EXCEPT ![w].over = TRUE]
           \/ wake' = [wake EXCEPT ![w].held = FALSE]
           \/ wake' = [wake EXCEPT ![w].aged = TRUE]
  BY DEF Time, LeaseLapses, CeilingPasses, HoldEnds, Ages, PauseEnds, rowVars
<1>3. \A w \in Wakes : Calm(wake[w], wake'[w])
  BY <1>2 DEF Calm, TypeInv, TypeOK, Row
<1> QED
  BY <1>1, <1>3, CalmStep, Bystander DEF StatusesMove

LEMMA DeathsRuns ==
  ASSUME TypeInv, RunsInv, Deaths
  PROVE  RunsInv'
<1>1. RowsMove /\ StatusesMove /\ sessions' = sessions /\ completing' = completing
  BY NoRowMoves DEF Deaths, PollDies, CreatorDies, FollowUpDies, CancelDies,
     rowVars, runVars, clientVars, StatusesMove
<1>2. ASSUME NEW p \in Polls, PollDies(p) PROVE RunsInv'
  <2>1. /\ poll' = [poll EXCEPT ![p] = IdlePoll]
        /\ creator' = [creator EXCEPT ![p] = NoCreator]
    BY <1>2 DEF PollDies
  <2>2. IdlePoll.pc = "idle"
    BY DEF IdlePoll
  <2> QED
    BY <1>1, <2>1, <2>2, PollStepRuns, SessionsStand
<1>3. ASSUME NEW w \in Wakes, CreatorDies(w) PROVE RunsInv'
  <2>1. /\ creator' = [creator EXCEPT ![w] = NoCreator] /\ poll' = poll
        /\ creator[w].pc # "none"
    BY <1>3 DEF CreatorDies
  <2>2. NoCreator.pc = "none" /\ ~Knows(NoCreator)
    BY DEF NoCreator, Knows
  <2> QED
    BY <1>1, <2>1, <2>2, DispatchStepRuns
<1>4. CASE (\E f \in after : FollowUpDies(f)) \/ \E u \in canceling : CancelDies(u)
  <2>1. poll' = poll /\ creator' = creator
    BY <1>4 DEF FollowUpDies, CancelDies
  <2> QED
    BY <1>1, <2>1, Bystander
<1> QED
  BY <1>2, <1>3, <1>4 DEF Deaths

LEMMA InitRuns == Init => RunsInv
<1> SUFFICES ASSUME Init PROVE RunsInv
  OBVIOUS
<1>1. \A w \in Wakes : wake[w].status = "absent" /\ wake[w].run = NoRun
  BY DEF Init, NewRow
<1>2. \A x \in Wakes \cup Polls : creator[x].pc = "none"
  BY DEF Init, NoCreator
<1>3. \A p \in Polls : poll[p].pc = "idle"
  BY DEF Init, IdlePoll
<1>4. \A u \in Runs : runFor[u] \notin Wakes
  BY ConstantsAssumption DEF Init
<1>5. sessions = {} /\ completing = {}
  BY DEF Init
<1> QED
  BY <1>1, <1>2, <1>3, <1>4, <1>5, ConstantsAssumption
  DEF RunsInv, RowRuns, MadeRuns, CreatorRuns, Knows, PollRuns, SessionRuns, CompletingRuns,
      DoneMeansCommented

LEMMA NextRuns == TypeInv /\ RunsInv /\ [Next]_vars => RunsInv'
<1> SUFFICES ASSUME TypeInv, RunsInv, [Next]_vars PROVE RunsInv'
  OBVIOUS
<1>1. CASE UNCHANGED vars
  <2>1. /\ UNCHANGED <<wake, runFor, runStatus, poll, creator, completing, sessions>>
        /\ commented' = commented
    BY <1>1 DEF vars
  <2> QED
    BY <2>1, NoRowMoves, Bystander DEF StatusesMove
<1> QED
  BY <1>1, DispatchRuns, ClaimRuns, SessionRunsStep, FollowUpsRuns, SweepAndPeopleRuns,
     TimeRuns, DeathsRuns DEF Next

LEMMA RunsInvariant == Spec => [](TypeInv /\ RunsInv)
<1>1. Init => TypeInv /\ RunsInv
  BY InitType, InitRuns
<1>2. TypeInv /\ RunsInv /\ [Next]_vars => (TypeInv /\ RunsInv)'
  BY NextType, NextRuns
<1> QED
  BY <1>1, <1>2, PTL DEF Spec

\* Whatever dies between the insert of a row and its Run, and whoever claims it
\* then, a Runner is handed a wake only once a Run records the work.
THEOREM NoWorkWithoutRun == Spec => []HandedOverWithRun
<1>1. TypeInv /\ RunsInv => HandedOverWithRun
  BY ConstantsAssumption DEF RunsInv, SessionRuns, Named, HandedOverWithRun
<1> QED
  BY <1>1, RunsInvariant, PTL

\* complete() reads the comments before its transaction, and the row may be
\* requeued, claimed and given another Run in between: still, a wake about a
\* record is done only after a Run made for it commented.
THEOREM DoneIsCommented == Spec => []DoneMeansCommented
<1>1. RunsInv => DoneMeansCommented
  BY DEF RunsInv
<1> QED
  BY <1>1, RunsInvariant, PTL
=============================================================================
