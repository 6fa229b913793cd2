------------------------ MODULE AgentWakesRefinement ------------------------
(***************************************************************************)
(* The wake queue implements WakeLease: proof for every value of the       *)
(* constants, with the invariants the refinement rests on.                 *)
(*                                                                         *)
(* Whatever the handlers do, the table sees one of five steps: a row is    *)
(* made, granted to a Runner, reported on, withdrawn with others, or no    *)
(* row's lease changes (StepShape).  The theorems on the lease follow from *)
(* that, and WokenAgainOnce from what a completion read besides            *)
(* (FreshReads).  CredentialIsTheFence relates the credentials and the     *)
(* sessions to the claims they were made for (FenceInv), and the last      *)
(* theorems follow a repeat that landed while a wake was worked on.        *)
(***************************************************************************)
EXTENDS AgentWakesProofs

-----------------------------------------------------------------------------
(* The five steps of the table.                                            *)

\* The row's lease is the one it was; an ended row may change how it ended.
Kept(old, new) ==
  /\ new.record = old.record
  /\ \/ /\ new.status = old.status
        /\ new.holder = old.holder /\ new.nonce = old.nonce /\ new.must = old.must
        /\ new.lease = old.lease \/ (old.status = "claimed" /\ new.lease # "none")
        /\ new.over = old.over \/ old.status = "claimed"
     \/ old.status \in Ended /\ new.status \in Ended

\* The row was open and waits again, with no trace of a lease, or ended.
Back(old, new) ==
  /\ IsOpen(old)
  /\ new.record = old.record
  /\ \/ new.status = "queued" /\ new.lease = "none" /\ new.over = FALSE
     \/ new.status \in Ended

\* ... and its claim is forgotten.
LetGo(old, new) == Back(old, new) /\ (new.status = "queued" => new.nonce = 0)

QuietStep ==
  /\ \A w \in Wakes : Kept(wake[w], wake'[w])
  /\ claims' = claims /\ accepted' = accepted

MadeStep ==
  \E w \in Wakes, rec \in Records :
    /\ wake[w].status = "absent"
    /\ OpenFor(rec) = {}
    /\ wake'[w] = NewRow(rec)
    /\ \A v \in Wakes \ {w} : wake'[v] = wake[v]
    /\ claims' = claims /\ accepted' = accepted

GrantStep ==
  \E w \in Wakes, r \in Runners :
    /\ wake[w].status = "queued"
    /\ wake'[w] = Claimed(wake[w], r, claims + 1)
    /\ \A v \in Wakes \ {w} : wake'[v] = wake[v]
    /\ claims' = claims + 1 /\ accepted' = accepted

ReportStep ==
  \E w \in Wakes :
    /\ wake[w].status = "claimed"
    /\ Back(wake[w], wake'[w])
    /\ \E c \in completing : /\ c.wake = w /\ c.nonce = wake[w].nonce
                             /\ wake'[w] = Completed(wake[w], c.out)
    /\ \A v \in Wakes \ {w} : wake'[v] = wake[v]
    /\ claims' = claims /\ accepted' = accepted \cup {<<wake[w].nonce, wake[w].nonce>>}

WithdrawStep ==
  \E S \in SUBSET Wakes :
    /\ \A w \in S : LetGo(wake[w], wake'[w])
    /\ \A w \in Wakes \ S : wake'[w] = wake[w]
    /\ claims' = claims /\ accepted' = accepted

StepShape == QuietStep \/ MadeStep \/ GrantStep \/ ReportStep \/ WithdrawStep

\* A row in the table is about a record, and what is owed is owed for such a
\* row: the rewake a follow-up enqueues is again about a record.
RowsAboutRecords ==
  /\ \A w \in Wakes : wake[w].status # "absent" => wake[w].record \in Records
  /\ \A f \in after : wake[f.wake].status # "absent"

-----------------------------------------------------------------------------
(* Which of the five each handler's statement is.                          *)

LEMMA RowTypes ==
  ASSUME TypeInv, NEW w \in Wakes
  PROVE  wake[w] \in GoodRow /\ wake[w] \in Row
  BY DEF TypeInv, TypeOK

LEMMA NoRowWritten ==
  ASSUME UNCHANGED <<wake, claims, accepted>>
  PROVE  QuietStep
  BY DEF QuietStep, Kept

LEMMA OneRowKept ==
  ASSUME TypeInv, NEW w \in Wakes, NEW row, wake' = [wake EXCEPT ![w] = row],
         Kept(wake[w], row), claims' = claims, accepted' = accepted
  PROVE  QuietStep
  BY DEF QuietStep, Kept, TypeInv, TypeOK

LEMMA OneRowLetGo ==
  ASSUME TypeInv, NEW w \in Wakes, NEW row, wake' = [wake EXCEPT ![w] = row],
         LetGo(wake[w], row), claims' = claims, accepted' = accepted
  PROVE  WithdrawStep
<1>1. wake'[w] = row /\ \A v \in Wakes \ {w} : wake'[v] = wake[v]
  BY DEF TypeInv, TypeOK
<1>2. {w} \in SUBSET Wakes
  OBVIOUS
<1> QED
  BY <1>1, <1>2 DEF WithdrawStep

\* failUnstarted.
LEMMA UnstartedShape ==
  ASSUME TypeInv, NEW w \in Wakes, wake' = [wake EXCEPT ![w] = Unstarted(wake[w])],
         claims' = claims, accepted' = accepted
  PROVE  StepShape
<1>1. CASE wake[w].status = "queued"
  <2>1. LetGo(wake[w], Unstarted(wake[w]))
    BY <1>1, RowTypes DEF LetGo, Back, Unstarted, IsOpen, Ended, Row
  <2> QED
    BY <2>1, OneRowLetGo DEF StepShape
<1>2. CASE wake[w].status # "queued"
  <2>1. Kept(wake[w], Unstarted(wake[w]))
    BY <1>2 DEF Kept, Unstarted
  <2> QED
    BY <2>1, OneRowKept DEF StepShape
<1> QED
  BY <1>1, <1>2

\* attachRun.
LEMMA AttachedShape ==
  ASSUME TypeInv, NEW w \in Wakes, NEW u,
         wake' = [wake EXCEPT ![w] = [wake[w] EXCEPT !.run = u]],
         claims' = claims, accepted' = accepted
  PROVE  QuietStep
<1>1. Kept(wake[w], [wake[w] EXCEPT !.run = u])
  BY RowTypes DEF Kept, Row
<1> QED
  BY <1>1, OneRowKept

LEMMA InsertOrMergeShape ==
  ASSUME TypeInv, NEW rec \in Records, NEW kind, InsertOrMerge(rec, kind),
         claims' = claims, accepted' = accepted
  PROVE  StepShape
<1>1. ASSUME NEW w \in Wakes, OpenFor(rec) = {}, wake[w].status = "absent",
             wake' = [wake EXCEPT ![w] = NewRow(rec)]
      PROVE  StepShape
  BY <1>1 DEF StepShape, MadeStep, TypeInv, TypeOK
<1>2. ASSUME NEW w \in OpenFor(rec),
             wake' = [wake EXCEPT ![w].rewake = @ \/ wake[w].status = "claimed"]
      PROVE  StepShape
  <2> DEFINE b == wake[w].rewake \/ wake[w].status = "claimed"
  <2>1. w \in Wakes /\ wake' = [wake EXCEPT ![w] = [wake[w] EXCEPT !.rewake = b]]
    BY <1>2 DEF OpenFor
  <2>2. Kept(wake[w], [wake[w] EXCEPT !.rewake = b])
    BY <2>1, RowTypes DEF Kept, Row
  <2> QED
    BY <2>1, <2>2, OneRowKept DEF StepShape
<1> QED
  BY <1>1, <1>2 DEF InsertOrMerge

LEMMA DispatchShape ==
  ASSUME TypeInv, Dispatch
  PROVE  StepShape
<1>1. ASSUME NEW rec \in Records, NEW kind \in Kinds, Enqueue(rec, kind) PROVE StepShape
  BY <1>1, InsertOrMergeShape DEF Enqueue, clientVars
<1>2. ASSUME NEW x \in Wakes \cup Polls, CreateRun(x) \/ DispatchDone(x) PROVE StepShape
  BY <1>2, NoRowWritten DEF CreateRun, DispatchDone, rowVars, clientVars, StepShape
<1>3. ASSUME NEW x \in Wakes \cup Polls, BlockedRun(x) \/ DispatchFails(x) \/ CreateRunFails(x)
      PROVE  StepShape
  <2> DEFINE w == creator[x].wake
  <2>1. w \in Wakes
    BY <1>3 DEF TypeInv, CreatorsInFlight, BlockedRun, DispatchFails, CreateRunFails
  <2>2. wake' = [wake EXCEPT ![w] = Unstarted(wake[w])] \/ wake' = wake
    BY <1>3 DEF BlockedRun, DispatchFails, CreateRunFails
  <2>3. claims' = claims /\ accepted' = accepted
    BY <1>3 DEF BlockedRun, DispatchFails, CreateRunFails, clientVars
  <2> QED
    BY <2>1, <2>2, <2>3, UnstartedShape, NoRowWritten DEF StepShape
<1>4. ASSUME NEW x \in Wakes \cup Polls, AttachRun(x) \/ ReattachRun(x) PROVE StepShape
  <2> DEFINE w == creator[x].wake
             u == creator[x].run
  <2>1. w \in Wakes
    BY <1>4 DEF TypeInv, CreatorsInFlight, AttachRun, ReattachRun
  <2>2. wake' = [wake EXCEPT ![w] = [wake[w] EXCEPT !.run = u]]
        /\ claims' = claims /\ accepted' = accepted
    BY <1>4 DEF AttachRun, ReattachRun, clientVars
  <2> QED
    BY <2>1, <2>2, AttachedShape DEF StepShape
<1>5. ASSUME NEW w \in Wakes, UndoEnqueue(w) PROVE StepShape
  <2> DEFINE row == [wake[w] EXCEPT !.status = "canceled"]
  <2>1. wake' = [wake EXCEPT ![w] = row] /\ claims' = claims /\ accepted' = accepted
    BY <1>5 DEF UndoEnqueue, clientVars
  <2>2. row.status = "canceled" /\ row.record = wake[w].record
    BY RowTypes DEF Row
  <2>3. wake[w].status # "absent"
    BY <1>5 DEF UndoEnqueue, TypeInv, CreatorsInFlight
  <2>4. CASE IsOpen(wake[w])
    BY <2>1, <2>2, <2>4, OneRowLetGo DEF LetGo, Back, Ended, StepShape
  <2>5. CASE ~IsOpen(wake[w])
    <3>1. wake[w].status \in Ended
      BY <2>3, <2>5, RowTypes DEF Row, Statuses, IsOpen, Ended
    <3> QED
      BY <2>1, <2>2, <3>1, OneRowKept DEF Kept, Ended, StepShape
  <2> QED
    BY <2>4, <2>5
<1> QED
  BY <1>1, <1>2, <1>3, <1>4, <1>5 DEF Dispatch

LEMMA ClaimShape ==
  ASSUME TypeInv, Claim
  PROVE  StepShape
<1>1. ASSUME NEW p \in Polls, NEW r \in Runners, PollRound(p, r) PROVE StepShape
  BY <1>1, NoRowWritten DEF PollRound, rowVars, clientVars, StepShape
<1>2. ASSUME NEW p \in Polls,
             PollEmpty(p) \/ MintRevoke(p) \/ MintInsert(p) \/ HandOver(p)
      PROVE  StepShape
  BY <1>2, NoRowWritten
  DEF PollEmpty, MintRevoke, MintInsert, HandOver, rowVars, clientVars, StepShape
<1>3. ASSUME NEW p \in Polls, NEW w \in Wakes, ClaimOnce(p, w) PROVE StepShape
  <2>1. wake[w].status = "queued" /\ poll[p].runner \in Runners
    BY <1>3 DEF ClaimOnce, Claimable, TypeInv, PollsInFlight
  <2>2. wake' = [wake EXCEPT ![w] = Claimed(wake[w], poll[p].runner, claims + 1)]
        /\ claims' = claims + 1 /\ accepted' = accepted
    BY <1>3 DEF ClaimOnce, clientVars
  <2>3. wake'[w] = Claimed(wake[w], poll[p].runner, claims + 1)
        /\ \A v \in Wakes \ {w} : wake'[v] = wake[v]
    BY <2>2 DEF TypeInv, TypeOK
  <2> QED
    BY <2>1, <2>2, <2>3 DEF GrantStep, StepShape
<1>4. ASSUME NEW p \in Polls, FailClaim(p) PROVE StepShape
  <2> DEFINE w == poll[p].wake
             mine == wake[w].status = "claimed" /\ wake[w].holder = poll[p].runner
             row == [wake[w] EXCEPT !.status = "failed", !.lease = "none"]
  <2>1. w \in Wakes /\ claims' = claims /\ accepted' = accepted
    BY <1>4 DEF FailClaim, TypeInv, PollsInFlight, clientVars
  <2>2. CASE mine
    <3>1. wake' = [wake EXCEPT ![w] = row]
      BY <1>4, <2>1, <2>2 DEF FailClaim, TypeInv, TypeOK
    <3>2. LetGo(wake[w], row)
      BY <2>1, <2>2, RowTypes DEF LetGo, Back, Row, IsOpen, Ended
    <3> QED
      BY <2>1, <3>1, <3>2, OneRowLetGo DEF StepShape
  <2>3. CASE ~mine
    <3>1. wake' = wake
      BY <1>4, <2>3 DEF FailClaim
    <3> QED
      BY <2>1, <3>1, NoRowWritten DEF StepShape
  <2> QED
    BY <2>2, <2>3
<1>5. ASSUME NEW p \in Polls, MintRefused(p) PROVE StepShape
  <2> DEFINE w == poll[p].wake
             mine == wake[w].status = "claimed" /\ wake[w].holder = poll[p].runner
  <2>1. w \in Wakes /\ claims' = claims /\ accepted' = accepted
    BY <1>5 DEF MintRefused, TypeInv, PollsInFlight, clientVars
  <2>2. CASE mine
    <3>1. wake' = [wake EXCEPT ![w] = Released(wake[w])]
      BY <1>5, <2>2 DEF MintRefused
    <3>2. LetGo(wake[w], Released(wake[w]))
      BY <2>1, <2>2, RowTypes DEF LetGo, Back, Released, Row, IsOpen
    <3> QED
      BY <2>1, <3>1, <3>2, OneRowLetGo DEF StepShape
  <2>3. CASE ~mine
    <3>1. wake' = wake
      BY <1>5, <2>1, <2>3 DEF MintRefused, TypeInv, TypeOK
    <3> QED
      BY <2>1, <3>1, NoRowWritten DEF StepShape
  <2> QED
    BY <2>2, <2>3
<1> QED
  BY <1>1, <1>2, <1>3, <1>4, <1>5 DEF Claim

LEMMA SessionShape ==
  ASSUME TypeInv, Session
  PROVE  StepShape
<1>1. ASSUME NEW s \in sessions,
             \/ Comment(s) \/ SessionGone(s) \/ CompleteRead(s)
             \/ \E exit \in Exits : SessionEnds(s, exit)
      PROVE  StepShape
  BY <1>1, NoRowWritten
  DEF Comment, SessionGone, CompleteRead, SessionEnds, rowVars, clientVars, StepShape
<1>2. ASSUME NEW s \in sessions, Heartbeat(s) PROVE StepShape
  <2> DEFINE w == s.wake
             row == [wake[w] EXCEPT !.lease = "live"]
  <2>1. w \in Wakes /\ wake[w].status = "claimed" /\ claims' = claims /\ accepted' = accepted
    BY <1>2 DEF Heartbeat, HeldBy, TypeInv, TypeOK, SessionRec, clientVars
  <2>2. wake' = [wake EXCEPT ![w] = row] /\ Kept(wake[w], row)
    BY <1>2, <2>1, RowTypes DEF Heartbeat, Kept, Row
  <2> QED
    BY <2>1, <2>2, OneRowKept DEF StepShape
<1>3. ASSUME NEW c \in completing, CompleteFlip(c) PROVE StepShape
  <2> DEFINE w == c.wake
             row == Completed(wake[w], c.out)
  <2>1. /\ w \in Wakes /\ wake[w].status = "claimed" /\ wake[w].nonce = c.nonce
        /\ c.out \in {"limit", "rewoken", "done", "failed", "canceled"}
        /\ wake' = [wake EXCEPT ![w] = row]
        /\ claims' = claims /\ accepted' = accepted \cup {<<c.nonce, c.nonce>>}
    BY <1>3 DEF CompleteFlip, HeldBy, TypeInv, TypeOK, Completing
  <2>2. Back(wake[w], row)
    <3>1. CASE c.out \in {"limit", "rewoken"}
      BY <2>1, <3>1, RowTypes DEF LetGo, Back, Completed, Row, IsOpen
    <3>2. CASE c.out \notin {"limit", "rewoken"}
      BY <2>1, <3>2, RowTypes DEF LetGo, Back, Completed, Row, IsOpen, Ended
    <3> QED
      BY <3>1, <3>2
  <2>3. wake'[w] = row /\ \A v \in Wakes \ {w} : wake'[v] = wake[v]
    BY <2>1 DEF TypeInv, TypeOK
  <2> QED
    BY <2>1, <2>2, <2>3 DEF ReportStep, StepShape
<1>4. ASSUME NEW c \in completing, CompleteLost(c) PROVE StepShape
  BY <1>4, NoRowWritten DEF CompleteLost, rowVars, clientVars, StepShape
<1> QED
  BY <1>1, <1>2, <1>3, <1>4 DEF Session

LEMMA FollowUpsShape ==
  ASSUME TypeInv, RowsAboutRecords, FollowUps
  PROVE  StepShape
<1>1. ASSUME NEW f \in after, AfterRevoke(f) \/ AfterStatus(f) PROVE StepShape
  BY <1>1, NoRowWritten DEF AfterRevoke, AfterStatus, rowVars, clientVars, StepShape
<1>2. ASSUME NEW f \in after, AfterRewake(f) PROVE StepShape
  <2>1. f.wake \in Wakes
    BY DEF TypeInv, TypeOK, FollowUpRec
  <2>2. wake[f.wake].record \in Records /\ claims' = claims /\ accepted' = accepted
    BY <1>2, <2>1 DEF AfterRewake, RowsAboutRecords, clientVars
  <2>3. CASE eligible
    BY <1>2, <2>2, <2>3, InsertOrMergeShape DEF AfterRewake
  <2>4. CASE ~eligible
    BY <1>2, <2>2, <2>4, NoRowWritten DEF AfterRewake, StepShape
  <2> QED
    BY <2>3, <2>4
<1> QED
  BY <1>1, <1>2 DEF FollowUps

LEMMA ReapedLetsGo ==
  ASSUME NEW row \in Row, IsOpen(row)
  PROVE  LetGo(row, Reaped(row))
<1>1. Released(row) \in Row /\ Released(row).record = row.record
      /\ Released(row).lease = "none" /\ Released(row).over = FALSE /\ Released(row).nonce = 0
  <2>1. Released(row) \in Row
    BY RowConstants, Zenon DEF Row, Released
  <2> QED
    BY <2>1 DEF Row, Released
<1>2. /\ Reaped(row).record = row.record /\ Reaped(row).lease = "none"
      /\ Reaped(row).over = FALSE /\ Reaped(row).nonce = 0
      /\ Reaped(row).status \in {"failed", "queued"}
  BY <1>1 DEF Reaped, Row
<1> QED
  BY <1>2 DEF LetGo, Back, Ended

LEMMA SweepShape ==
  ASSUME TypeInv, Sweep
  PROVE  StepShape
<1>1. ASSUME ReapExpiredLeases PROVE StepShape
  <2>1. Lapsed \in SUBSET Wakes /\ \A w \in Lapsed : IsOpen(wake[w])
    BY DEF Lapsed, IsOpen
  <2>2. \A w \in Lapsed : LetGo(wake[w], Reaped(wake[w]))
    BY <2>1, ReapedLetsGo, RowTypes
  <2>3. /\ \A w \in Lapsed : wake'[w] = Reaped(wake[w])
        /\ \A w \in Wakes \ Lapsed : wake'[w] = wake[w]
        /\ claims' = claims /\ accepted' = accepted
    BY <1>1, <2>1 DEF ReapExpiredLeases, clientVars
  <2> QED
    BY <2>1, <2>2, <2>3 DEF WithdrawStep, StepShape
<1>2. ASSUME ExpireQueued PROVE StepShape
  <2>1. Expired \in SUBSET Wakes /\ \A w \in Expired : IsOpen(wake[w])
    BY DEF Expired, IsOpen
  <2>2. \A w \in Expired : LetGo(wake[w], [wake[w] EXCEPT !.status = "canceled"])
    BY <2>1, RowTypes DEF LetGo, Back, Row, Ended
  <2>3. /\ \A w \in Expired : wake'[w] = [wake[w] EXCEPT !.status = "canceled"]
        /\ \A w \in Wakes \ Expired : wake'[w] = wake[w]
        /\ claims' = claims /\ accepted' = accepted
    BY <1>2, <2>1 DEF ExpireQueued, clientVars
  <2> QED
    BY <2>1, <2>2, <2>3 DEF WithdrawStep, StepShape
<1> QED
  BY <1>1, <1>2 DEF Sweep

LEMMA PeopleShape ==
  ASSUME TypeInv, People
  PROVE  StepShape
<1>1. ASSUME NEW u \in Runs, AdminCancelRun(u) PROVE StepShape
  BY <1>1, NoRowWritten DEF AdminCancelRun, rowVars, clientVars, StepShape
<1>2. ASSUME NEW u \in Runs, CancelForRun(u) PROVE StepShape
  <2> DEFINE S == {w \in Wakes : IsOpen(wake[w]) /\ wake[w].run = u}
  <2>1. \A w \in S : LetGo(wake[w], [wake[w] EXCEPT !.status = "canceled"])
    BY RowTypes DEF LetGo, Back, Row, Ended
  <2>2. /\ \A w \in S : wake'[w] = [wake[w] EXCEPT !.status = "canceled"]
        /\ \A w \in Wakes \ S : wake'[w] = wake[w]
        /\ claims' = claims /\ accepted' = accepted
    BY <1>2 DEF CancelForRun, clientVars
  <2>3. S \in SUBSET Wakes
    OBVIOUS
  <2> HIDE DEF S
  <2> QED
    BY <2>1, <2>2, <2>3 DEF WithdrawStep, StepShape
<1>3. ASSUME NEW r \in Runners, RevokeRunner(r) PROVE StepShape
  <2> DEFINE S == {w \in Wakes : wake[w].status = "claimed" /\ wake[w].holder = r}
  <2>1. \A w \in S : LetGo(wake[w], Released(wake[w]))
    BY RowTypes DEF LetGo, Back, Released, Row, IsOpen
  <2>2. /\ \A w \in S : wake'[w] = Released(wake[w])
        /\ \A w \in Wakes \ S : wake'[w] = wake[w]
        /\ claims' = claims /\ accepted' = accepted
    BY <1>3 DEF RevokeRunner, clientVars
  <2>3. S \in SUBSET Wakes
    OBVIOUS
  <2> HIDE DEF S
  <2> QED
    BY <2>1, <2>2, <2>3 DEF WithdrawStep, StepShape
<1>4. ASSUME NEW r \in Runners, AssignCheck(r) \/ AssignUpsert(r) PROVE StepShape
  BY <1>4, NoRowWritten DEF AssignCheck, AssignUpsert, rowVars, clientVars, StepShape
<1>5. ASSUME Unassign \/ ToggleEligible PROVE StepShape
  BY <1>5, NoRowWritten DEF Unassign, ToggleEligible, rowVars, clientVars, StepShape
<1> QED
  BY <1>1, <1>2, <1>3, <1>4, <1>5 DEF People

LEMMA TimeShape ==
  ASSUME TypeInv, Time
  PROVE  StepShape
<1>1. ASSUME NEW w \in Wakes, LeaseLapses(w) PROVE StepShape
  <2>1. wake' = [wake EXCEPT ![w] = [wake[w] EXCEPT !.lease = "lapsed"]]
        /\ Kept(wake[w], [wake[w] EXCEPT !.lease = "lapsed"])
        /\ claims' = claims /\ accepted' = accepted
    BY <1>1, RowTypes DEF LeaseLapses, Kept, Row, clientVars
  <2> QED
    BY <2>1, OneRowKept DEF StepShape
<1>2. ASSUME NEW w \in Wakes, CeilingPasses(w) PROVE StepShape
  <2>1. wake' = [wake EXCEPT ![w] = [wake[w] EXCEPT !.over = TRUE]]
        /\ Kept(wake[w], [wake[w] EXCEPT !.over = TRUE])
        /\ claims' = claims /\ accepted' = accepted
    BY <1>2, RowTypes DEF CeilingPasses, Kept, Row, clientVars
  <2> QED
    BY <2>1, OneRowKept DEF StepShape
<1>3. ASSUME NEW w \in Wakes, HoldEnds(w) PROVE StepShape
  <2>1. wake' = [wake EXCEPT ![w] = [wake[w] EXCEPT !.held = FALSE]]
        /\ Kept(wake[w], [wake[w] EXCEPT !.held = FALSE])
        /\ claims' = claims /\ accepted' = accepted
    BY <1>3, RowTypes DEF HoldEnds, Kept, Row, clientVars
  <2> QED
    BY <2>1, OneRowKept DEF StepShape
<1>4. ASSUME NEW w \in Wakes, Ages(w) PROVE StepShape
  <2>1. wake' = [wake EXCEPT ![w] = [wake[w] EXCEPT !.aged = TRUE]]
        /\ Kept(wake[w], [wake[w] EXCEPT !.aged = TRUE])
        /\ claims' = claims /\ accepted' = accepted
    BY <1>4, RowTypes DEF Ages, Kept, Row, clientVars
  <2> QED
    BY <2>1, OneRowKept DEF StepShape
<1>5. ASSUME NEW r \in Runners, PauseEnds(r) PROVE StepShape
  BY <1>5, NoRowWritten DEF PauseEnds, rowVars, clientVars, StepShape
<1> QED
  BY <1>1, <1>2, <1>3, <1>4, <1>5 DEF Time

LEMMA DeathsShape ==
  ASSUME Deaths
  PROVE  StepShape
  BY NoRowWritten
  DEF Deaths, PollDies, CreatorDies, FollowUpDies, CancelDies, rowVars, clientVars, StepShape

LEMMA NextShape ==
  ASSUME TypeInv, RowsAboutRecords, [Next]_vars
  PROVE  StepShape
<1>1. CASE UNCHANGED vars
  BY <1>1, NoRowWritten DEF vars, StepShape
<1> QED
  BY <1>1, DispatchShape, ClaimShape, SessionShape, FollowUpsShape, SweepShape,
     PeopleShape, TimeShape, DeathsShape
  DEF Next

-----------------------------------------------------------------------------
(* The invariants of the table.                                            *)

LEMMA ShapeKeepsRows ==
  ASSUME TypeInv, RowsAboutRecords, StepShape
  PROVE  /\ NoneVanishes
         /\ \A w \in Wakes : wake'[w].status # "absent" => wake'[w].record \in Records
<1>1. CASE QuietStep
  BY <1>1 DEF QuietStep, Kept, Ended, NoneVanishes, RowsAboutRecords
<1>2. CASE MadeStep
  BY <1>2 DEF MadeStep, NewRow, NoneVanishes, RowsAboutRecords
<1>3. CASE GrantStep
  <2>1. PICK w \in Wakes, r \in Runners :
          /\ wake[w].status = "queued" /\ wake'[w] = Claimed(wake[w], r, claims + 1)
          /\ \A v \in Wakes \ {w} : wake'[v] = wake[v]
    BY <1>3 DEF GrantStep
  <2>2. wake'[w].status = "claimed" /\ wake'[w].record = wake[w].record
    BY <2>1, RowTypes DEF Claimed, Row
  <2> QED
    BY <2>1, <2>2 DEF NoneVanishes, RowsAboutRecords
<1>4. CASE ReportStep
  BY <1>4 DEF ReportStep, LetGo, Back, IsOpen, Ended, NoneVanishes, RowsAboutRecords
<1>5. CASE WithdrawStep
  <2>1. PICK S \in SUBSET Wakes : /\ \A w \in S : LetGo(wake[w], wake'[w])
                                  /\ \A w \in Wakes \ S : wake'[w] = wake[w]
    BY <1>5 DEF WithdrawStep
  <2> QED
    BY <2>1 DEF LetGo, Back, IsOpen, Ended, NoneVanishes, RowsAboutRecords
<1> QED
  BY <1>1, <1>2, <1>3, <1>4, <1>5 DEF StepShape

LEMMA OwedBySet ==
  ASSUME RowsAboutRecords, NEW S, Owe(S),
         \A f \in S : wake[f.wake].status # "absent"
  PROVE  \A f \in after' : wake[f.wake].status # "absent"
  BY DEF Owe, RowsAboutRecords

LEMMA DidKeepsWakes ==
  ASSUME TypeInv, RowsAboutRecords, NEW f \in after, NEW what, Did(f, what)
  PROVE  \A g \in after' : wake[g.wake].status # "absent"
<1>1. f \in FollowUpRec
  BY DEF TypeInv, TypeOK
<1>2. [f EXCEPT !.todo = @ \ {what}].wake = f.wake
  BY <1>1 DEF FollowUpRec
<1> QED
  BY <1>2 DEF Did, RowsAboutRecords

LEMMA OwedForRows ==
  ASSUME TypeInv, RowsAboutRecords, [Next]_vars
  PROVE  \A f \in after' : wake[f.wake].status # "absent"
<1>1. ASSUME NEW p \in Polls, FailClaim(p) PROVE \A f \in after' : wake[f.wake].status # "absent"
  <2>1. wake[poll[p].wake].status # "absent"
    BY <1>1 DEF FailClaim, TypeInv, PollsInFlight
  <2> DEFINE g == FollowUp(poll[p].wake, wake[poll[p].wake], "Failed",
                    IF poll[p].pc = "ensure" /\ creator[p].pc = "undo"
                    THEN {"rewake"} ELSE {"status", "rewake"})
  <2>2. after' = after \/ Owe({g})
    BY <1>1 DEF FailClaim
  <2>3. g.wake = poll[p].wake
    BY DEF FollowUp
  <2>4. CASE Owe({g})
    BY <2>1, <2>3, <2>4, OwedBySet
  <2> QED
    BY <2>2, <2>4 DEF RowsAboutRecords
<1>2. ASSUME NEW c \in completing, CompleteFlip(c)
      PROVE  \A f \in after' : wake[f.wake].status # "absent"
  <2> DEFINE g == FollowUp(c.wake, wake[c.wake], CompletedRun(c.out),
                    IF c.out \in {"limit", "rewoken"} THEN {"revoke", "status"}
                    ELSE {"revoke", "status", "rewake"})
  <2>1. Owe({g}) /\ wake[c.wake].status = "claimed"
    BY <1>2 DEF CompleteFlip, HeldBy
  <2>2. g.wake = c.wake
    BY DEF FollowUp
  <2> QED
    BY <2>1, <2>2, OwedBySet
<1>3. ASSUME ReapExpiredLeases PROVE \A f \in after' : wake[f.wake].status # "absent"
  <2> DEFINE owed(w) == IF Reaped(wake[w]).status = "failed"
                        THEN FollowUp(w, wake[w], "Failed", {"revoke", "status", "rewake"})
                        ELSE FollowUp(w, wake[w], "Queued", {"revoke", "status"})
  <2>1. Owe({owed(w) : w \in Lapsed})
    BY <1>3 DEF ReapExpiredLeases
  <2>2. \A w \in Lapsed : owed(w).wake = w /\ wake[w].status # "absent"
    BY DEF FollowUp, Lapsed
  <2> HIDE DEF owed
  <2> QED
    BY <2>1, <2>2, OwedBySet
<1>4. ASSUME ExpireQueued PROVE \A f \in after' : wake[f.wake].status # "absent"
  <2>1. Owe({FollowUp(w, wake[w], "Canceled", {"status"}) : w \in Expired})
    BY <1>4 DEF ExpireQueued
  <2>2. \A w \in Expired : FollowUp(w, wake[w], "Canceled", {"status"}).wake = w
                           /\ wake[w].status # "absent"
    BY DEF FollowUp, Expired
  <2> QED
    BY <2>1, <2>2, OwedBySet
<1>5. ASSUME NEW u \in Runs, CancelForRun(u)
      PROVE  \A f \in after' : wake[f.wake].status # "absent"
  <2> DEFINE S == {w \in Wakes : IsOpen(wake[w]) /\ wake[w].run = u}
  <2>1. Owe({FollowUp(w, wake[w], "Canceled", {"revoke"}) : w \in S})
    BY <1>5 DEF CancelForRun
  <2>2. \A w \in S : FollowUp(w, wake[w], "Canceled", {"revoke"}).wake = w
                     /\ wake[w].status # "absent"
    BY DEF FollowUp, IsOpen
  <2> QED
    BY <2>1, <2>2, OwedBySet
<1>6. ASSUME NEW r \in Runners, RevokeRunner(r)
      PROVE  \A f \in after' : wake[f.wake].status # "absent"
  <2> DEFINE S == {w \in Wakes : wake[w].status = "claimed" /\ wake[w].holder = r}
  <2>1. Owe({FollowUp(w, wake[w], "Queued", {"revoke", "status"}) : w \in S})
    BY <1>6 DEF RevokeRunner
  <2>2. \A w \in S : FollowUp(w, wake[w], "Queued", {"revoke", "status"}).wake = w
                     /\ wake[w].status # "absent"
    BY DEF FollowUp
  <2> QED
    BY <2>1, <2>2, OwedBySet
<1>7. ASSUME after' \subseteq after PROVE \A f \in after' : wake[f.wake].status # "absent"
  BY <1>7 DEF RowsAboutRecords
<1>8. ASSUME FollowUps PROVE \A f \in after' : wake[f.wake].status # "absent"
  BY <1>8, DidKeepsWakes DEF FollowUps, AfterRevoke, AfterStatus, AfterRewake
<1>9. CASE Dispatch
  BY <1>7, <1>9
  DEF Dispatch, Enqueue, CreateRun, BlockedRun, AttachRun, DispatchDone, DispatchFails,
      ReattachRun, CreateRunFails, UndoEnqueue
<1>10. CASE Claim
  BY <1>1, <1>7, <1>10
  DEF Claim, PollRound, ClaimOnce, PollEmpty, MintRefused, MintRevoke, MintInsert, HandOver
<1>11. CASE Session
  BY <1>2, <1>7, <1>11
  DEF Session, Comment, SessionGone, Heartbeat, CompleteRead, SessionEnds, CompleteLost,
      handlerVars
<1>12. CASE People
  BY <1>5, <1>6, <1>7, <1>12
  DEF People, AdminCancelRun, AssignCheck, AssignUpsert, Unassign, ToggleEligible, handlerVars
<1>13. CASE Time
  BY <1>7, <1>13
  DEF Time, LeaseLapses, CeilingPasses, HoldEnds, Ages, PauseEnds, handlerVars
<1>14. CASE Deaths
  BY <1>7, <1>14 DEF Deaths, PollDies, CreatorDies, FollowUpDies, CancelDies
<1>15. CASE UNCHANGED vars
  BY <1>7, <1>15 DEF vars
<1> QED
  BY <1>3, <1>4, <1>8, <1>9, <1>10, <1>11, <1>12, <1>13, <1>14, <1>15 DEF Next, Sweep

\* Claims are told apart by their nonce for as long as anything can name them:
\* a held claim was not reported on, and no two rows are held under one.
ClaimsApart ==
  /\ accepted \subseteq (1..claims) \X (1..claims)
  /\ \A w \in Wakes : wake[w].status = "claimed" => <<wake[w].nonce, wake[w].nonce>> \notin accepted
  /\ \A v, w \in Wakes :
       wake[v].status = "claimed" /\ wake[w].status = "claimed"
         /\ wake[v].nonce = wake[w].nonce => v = w

LeaseInv == RowsAboutRecords /\ ClaimedIsReapable /\ OneOpenWake /\ ClaimsApart

LEMMA InitLease == Init => LeaseInv
<1> SUFFICES ASSUME Init PROVE LeaseInv
  OBVIOUS
<1>1. \A w \in Wakes : wake[w].status = "absent"
  BY DEF Init, NewRow
<1>2. after = {} /\ accepted = {}
  BY DEF Init
<1> QED
  BY <1>1, <1>2
  DEF LeaseInv, RowsAboutRecords, ClaimedIsReapable, OneOpenWake, ClaimsApart, IsOpen

LEMMA RowsAboutRecordsStep ==
  ASSUME TypeInv, TypeInv', RowsAboutRecords, [Next]_vars
  PROVE  RowsAboutRecords'
<1>1. NoneVanishes /\ \A w \in Wakes : wake'[w].status # "absent" => wake'[w].record \in Records
  BY NextShape, ShapeKeepsRows
<1>2. \A f \in after' : f.wake \in Wakes
  BY DEF TypeInv, TypeOK, FollowUpRec
<1> QED
  BY <1>1, <1>2, OwedForRows DEF RowsAboutRecords, NoneVanishes

\* A row that a Runner is granted.
LEMMA GrantedRow ==
  ASSUME TypeInv, NEW w \in Wakes, NEW r \in Runners, NEW n \in Nat
  PROVE  /\ Claimed(wake[w], r, n).status = "claimed"
         /\ Claimed(wake[w], r, n).record = wake[w].record
         /\ Claimed(wake[w], r, n).holder = r
         /\ Claimed(wake[w], r, n).nonce = n
         /\ Claimed(wake[w], r, n).lease = "live"
  BY RowTypes DEF Claimed, Row

LEMMA ReapableStep ==
  ASSUME TypeInv, ClaimedIsReapable, StepShape
  PROVE  ClaimedIsReapable'
<1>1. claims \in Nat
  BY ConstantsAssumption DEF TypeInv, TypeOK
<1>2. CASE QuietStep
  BY <1>2 DEF QuietStep, Kept, Ended, ClaimedIsReapable
<1>3. CASE MadeStep
  BY <1>3 DEF MadeStep, NewRow, ClaimedIsReapable
<1>4. CASE GrantStep
  <2>1. PICK w \in Wakes, r \in Runners :
          /\ wake'[w] = Claimed(wake[w], r, claims + 1)
          /\ \A v \in Wakes \ {w} : wake'[v] = wake[v]
          /\ claims' = claims + 1
    BY <1>4 DEF GrantStep
  <2>2. /\ wake'[w].status = "claimed" /\ wake'[w].holder = r
        /\ wake'[w].nonce = claims + 1 /\ wake'[w].lease = "live"
    BY <1>1, <2>1, GrantedRow
  <2>3. claims + 1 \in 1..claims' /\ 1..claims \subseteq 1..claims'
    BY <1>1, <2>1
  <2> QED
    BY <2>1, <2>2, <2>3 DEF ClaimedIsReapable
<1>5. CASE ReportStep
  BY <1>5 DEF ReportStep, LetGo, Back, Ended, ClaimedIsReapable
<1>6. CASE WithdrawStep
  <2>1. PICK S \in SUBSET Wakes : /\ \A w \in S : LetGo(wake[w], wake'[w])
                                  /\ \A w \in Wakes \ S : wake'[w] = wake[w]
                                  /\ claims' = claims
    BY <1>6 DEF WithdrawStep
  <2> QED
    BY <2>1 DEF LetGo, Back, Ended, ClaimedIsReapable
<1> QED
  BY <1>2, <1>3, <1>4, <1>5, <1>6 DEF StepShape

\* No step but MadeStep opens a row, or changes what a row is about.
LEMMA OnlyMadeOpens ==
  ASSUME TypeInv, QuietStep \/ GrantStep \/ ReportStep \/ WithdrawStep, NEW w \in Wakes
  PROVE  /\ wake'[w].record = wake[w].record
         /\ IsOpen(wake'[w]) => IsOpen(wake[w])
<1>1. CASE QuietStep
  BY <1>1 DEF QuietStep, Kept, Ended, IsOpen
<1>2. CASE GrantStep
  <2>1. claims + 1 \in Nat
    BY ConstantsAssumption DEF TypeInv, TypeOK
  <2> QED
    BY <1>2, <2>1, GrantedRow DEF GrantStep, IsOpen
<1>3. CASE ReportStep
  BY <1>3 DEF ReportStep, LetGo, Back, Ended
<1>4. CASE WithdrawStep
  BY <1>4 DEF WithdrawStep, LetGo, Back, Ended
<1> QED
  BY <1>1, <1>2, <1>3, <1>4

LEMMA OneOpenStep ==
  ASSUME TypeInv, OneOpenWake, StepShape
  PROVE  OneOpenWake'
<1>1. CASE MadeStep
  <2>1. PICK w \in Wakes, rec \in Records :
          /\ OpenFor(rec) = {}
          /\ wake'[w] = NewRow(rec)
          /\ \A v \in Wakes \ {w} : wake'[v] = wake[v]
    BY <1>1 DEF MadeStep
  <2>2. wake'[w].record = rec
    BY <2>1 DEF NewRow
  <2>3. \A v \in Wakes \ {w} : IsOpen(wake'[v]) => wake'[v].record # rec
    BY <2>1 DEF OpenFor
  <2> QED
    BY <2>1, <2>2, <2>3 DEF OneOpenWake
<1>2. CASE QuietStep \/ GrantStep \/ ReportStep \/ WithdrawStep
  BY <1>2, OnlyMadeOpens DEF OneOpenWake
<1> QED
  BY <1>1, <1>2 DEF StepShape

LEMMA ClaimsApartStep ==
  ASSUME TypeInv, ClaimedIsReapable, ClaimsApart, StepShape
  PROVE  ClaimsApart'
<1>1. claims \in Nat
  BY ConstantsAssumption DEF TypeInv, TypeOK
<1>2. CASE QuietStep
  BY <1>2 DEF QuietStep, Kept, Ended, ClaimsApart
<1>3. CASE MadeStep
  BY <1>3 DEF MadeStep, NewRow, ClaimsApart
<1>4. CASE GrantStep
  <2>1. PICK w \in Wakes, r \in Runners :
          /\ wake'[w] = Claimed(wake[w], r, claims + 1)
          /\ \A v \in Wakes \ {w} : wake'[v] = wake[v]
          /\ claims' = claims + 1 /\ accepted' = accepted
    BY <1>4 DEF GrantStep
  <2>2. wake'[w].status = "claimed" /\ wake'[w].nonce = claims + 1
    BY <1>1, <2>1, GrantedRow
  <2>3. claims + 1 \notin 1..claims /\ 1..claims \subseteq 1..claims'
    BY <1>1, <2>1
  <2>4. accepted' \subseteq (1..claims') \X (1..claims')
    BY <2>1, <2>3 DEF ClaimsApart
  <2>5. \A v \in Wakes \ {w} : wake'[v].status = "claimed" =>
          wake'[v].nonce # claims + 1 /\ <<wake'[v].nonce, wake'[v].nonce>> \notin accepted'
    BY <2>1, <2>3 DEF ClaimsApart, ClaimedIsReapable
  <2>6. <<claims + 1, claims + 1>> \notin accepted'
    BY <2>1, <2>3 DEF ClaimsApart
  <2> QED
    BY <2>1, <2>2, <2>4, <2>5, <2>6 DEF ClaimsApart
<1>5. CASE ReportStep
  <2>1. PICK w \in Wakes :
          /\ wake[w].status = "claimed"
          /\ Back(wake[w], wake'[w])
          /\ \A v \in Wakes \ {w} : wake'[v] = wake[v]
          /\ claims' = claims /\ accepted' = accepted \cup {<<wake[w].nonce, wake[w].nonce>>}
    BY <1>5 DEF ReportStep
  <2>2. wake[w].nonce \in 1..claims
    BY <2>1 DEF ClaimedIsReapable
  <2>3. wake'[w].status # "claimed"
    BY <2>1 DEF LetGo, Back, Ended
  <2> QED
    BY <2>1, <2>2, <2>3 DEF ClaimsApart
<1>6. CASE WithdrawStep
  <2>1. PICK S \in SUBSET Wakes : /\ \A w \in S : LetGo(wake[w], wake'[w])
                                  /\ \A w \in Wakes \ S : wake'[w] = wake[w]
                                  /\ claims' = claims /\ accepted' = accepted
    BY <1>6 DEF WithdrawStep
  <2>2. \A w \in Wakes : wake'[w].status = "claimed" => wake'[w] = wake[w]
    BY <2>1 DEF LetGo, Back, Ended
  <2> QED
    BY <2>1, <2>2 DEF ClaimsApart
<1> QED
  BY <1>2, <1>3, <1>4, <1>5, <1>6 DEF StepShape

LEMMA LeaseInvariant == Spec => [](TypeInv /\ LeaseInv)
<1>1. Init => TypeInv /\ LeaseInv
  BY InitType, InitLease
<1>2. TypeInv /\ LeaseInv /\ [Next]_vars => (TypeInv /\ LeaseInv)'
  <2> SUFFICES ASSUME TypeInv, LeaseInv, [Next]_vars PROVE TypeInv' /\ LeaseInv'
    OBVIOUS
  <2>1. TypeInv'
    BY NextType
  <2>2. StepShape
    BY NextShape DEF LeaseInv
  <2> QED
    BY <2>1, <2>2, RowsAboutRecordsStep, ReapableStep, OneOpenStep, ClaimsApartStep
    DEF LeaseInv
<1> QED
  BY <1>1, <1>2, PTL DEF Spec

-----------------------------------------------------------------------------
(* What complete() read.                                                   *)

\* A completion names a claim that was made, and one that read the wake as not
\* woken again yet is right for as long as that claim holds the row.
FreshReads ==
  \A c \in completing :
    /\ c.nonce \in 1..claims
    /\ c.out = "rewoken" /\ wake[c.wake].status = "claimed" /\ wake[c.wake].nonce = c.nonce
         => ~wake[c.wake].must

\* complete() decides from the row its claim holds.
LEMMA ReadFresh ==
  ASSUME TypeInv, ClaimedIsReapable, NEW s \in sessions, CompleteRead(s),
         NEW c, c = [nonce |-> s.nonce, wake |-> s.wake, runner |-> s.runner,
                     out |-> Outcome(wake[s.wake], s.phase)]
  PROVE  c.nonce \in 1..claims /\ (c.out = "rewoken" => ~wake[c.wake].must)
<1>1. s.wake \in Wakes /\ HeldBy(wake[s.wake], s.runner, s.nonce) /\ s.phase \in Exits
  BY DEF CompleteRead, TypeInv, TypeOK, SessionRec
<1>2. c.nonce \in 1..claims
  BY <1>1 DEF HeldBy, ClaimedIsReapable
<1>3. Outcome(wake[s.wake], s.phase) = "rewoken" => ~wake[s.wake].must
  BY <1>1, ConstantsAssumption DEF Outcome
<1> QED
  BY <1>2, <1>3

\* Completions are read nowhere else.
LEMMA CompletionsRead ==
  ASSUME [Next]_vars
  PROVE  \/ completing' \subseteq completing
         \/ /\ UNCHANGED <<wake, claims>>
            /\ \E s \in sessions :
                 /\ CompleteRead(s)
                 /\ completing' = completing \cup
                      {[nonce |-> s.nonce, wake |-> s.wake, runner |-> s.runner,
                        out |-> Outcome(wake[s.wake], s.phase)]}
<1>1. CASE Dispatch
  BY <1>1
  DEF Dispatch, Enqueue, CreateRun, BlockedRun, AttachRun, DispatchDone, DispatchFails,
      ReattachRun, CreateRunFails, UndoEnqueue
<1>2. CASE Claim
  BY <1>2
  DEF Claim, PollRound, ClaimOnce, PollEmpty, FailClaim, MintRefused, MintRevoke, MintInsert,
      HandOver
<1>3. CASE Session
  BY <1>3
  DEF Session, Comment, SessionGone, Heartbeat, CompleteRead, SessionEnds, CompleteFlip,
      CompleteLost, handlerVars, rowVars
<1>4. CASE FollowUps \/ Sweep
  BY <1>4
  DEF FollowUps, AfterRevoke, AfterStatus, AfterRewake, Sweep, ReapExpiredLeases, ExpireQueued
<1>5. CASE People \/ Time
  BY <1>5
  DEF People, AdminCancelRun, CancelForRun, RevokeRunner, AssignCheck, AssignUpsert, Unassign,
      ToggleEligible, Time, LeaseLapses, CeilingPasses, HoldEnds, Ages, PauseEnds, handlerVars
<1>6. CASE Deaths
  BY <1>6 DEF Deaths, PollDies, CreatorDies, FollowUpDies, CancelDies
<1>7. CASE UNCHANGED vars
  BY <1>7 DEF vars
<1> QED
  BY <1>1, <1>2, <1>3, <1>4, <1>5, <1>6, <1>7 DEF Next

\* A row claimed after a step is claimed as before it, or under a new claim.
LEMMA ClaimStands ==
  ASSUME TypeInv, StepShape, NEW w \in Wakes, wake'[w].status = "claimed"
  PROVE  \/ /\ wake[w].status = "claimed" /\ wake'[w].nonce = wake[w].nonce
            /\ wake'[w].must = wake[w].must
         \/ wake'[w].nonce = claims + 1
<1>1. claims \in Nat
  BY ConstantsAssumption DEF TypeInv, TypeOK
<1>2. CASE QuietStep
  BY <1>2 DEF QuietStep, Kept, Ended
<1>3. CASE MadeStep
  BY <1>3 DEF MadeStep, NewRow
<1>4. CASE GrantStep
  <2>1. claims + 1 \in Nat
    BY <1>1
  <2> QED
    BY <1>4, <2>1, GrantedRow DEF GrantStep
<1>5. CASE ReportStep
  BY <1>5 DEF ReportStep, Back, Ended
<1>6. CASE WithdrawStep
  BY <1>6 DEF WithdrawStep, LetGo, Back, Ended
<1> QED
  BY <1>2, <1>3, <1>4, <1>5, <1>6 DEF StepShape

LEMMA FreshReadsStep ==
  ASSUME TypeInv, ClaimedIsReapable, FreshReads, StepShape, [Next]_vars
  PROVE  FreshReads'
<1>1. claims \in Nat /\ claims' \in {claims, claims + 1}
  BY ConstantsAssumption
  DEF TypeInv, TypeOK, StepShape, QuietStep, MadeStep, GrantStep, ReportStep, WithdrawStep
<1>2. ASSUME NEW c \in completing
      PROVE  /\ c.nonce \in 1..claims'
             /\ c.out = "rewoken" /\ wake'[c.wake].status = "claimed" /\ wake'[c.wake].nonce = c.nonce
                  => ~wake'[c.wake].must
  <2>1. c.wake \in Wakes /\ c.nonce \in 1..claims /\ c.nonce # claims + 1
    BY <1>1 DEF FreshReads, TypeInv, TypeOK, Completing
  <2>2. c.nonce \in 1..claims'
    BY <1>1, <2>1
  <2> QED
    BY <2>1, <2>2, ClaimStands DEF FreshReads
<1>3. CASE completing' \subseteq completing
  BY <1>2, <1>3 DEF FreshReads
<1>4. CASE /\ UNCHANGED <<wake, claims>>
           /\ \E s \in sessions :
                /\ CompleteRead(s)
                /\ completing' = completing \cup
                     {[nonce |-> s.nonce, wake |-> s.wake, runner |-> s.runner,
                       out |-> Outcome(wake[s.wake], s.phase)]}
  BY <1>2, <1>4, ReadFresh DEF FreshReads
<1> QED
  BY <1>3, <1>4, CompletionsRead

\* The step that requeues a wake already woken again is not a completion that
\* wakes it once more.
LEMMA RewokenStep ==
  ASSUME TypeInv, FreshReads, StepShape, NEW w \in Wakes,
         wake[w].must, wake[w].status = "claimed", wake'[w].status = "queued"
  PROVE  wake'[w].nonce = 0 \/ wake'[w].held
<1>1. CASE QuietStep
  BY <1>1 DEF QuietStep, Kept, Ended
<1>2. CASE MadeStep \/ GrantStep
  BY <1>2 DEF MadeStep, GrantStep
<1>3. CASE ReportStep
  <2>1. PICK v \in Wakes : /\ \A u \in Wakes \ {v} : wake'[u] = wake[u]
                           /\ \E c \in completing : /\ c.wake = v /\ c.nonce = wake[v].nonce
                                                    /\ wake'[v] = Completed(wake[v], c.out)
    BY <1>3 DEF ReportStep
  <2>2. v = w
    BY <2>1
  <2>3. PICK c \in completing : /\ c.wake = w /\ c.nonce = wake[w].nonce
                                /\ wake'[w] = Completed(wake[w], c.out)
    BY <2>1, <2>2
  <2>4. c.out # "rewoken"
    BY <2>3 DEF FreshReads
  <2>5. CASE c.out = "limit"
    BY <2>3, <2>5, RowTypes DEF Completed, Row
  <2>6. CASE c.out # "limit"
    <3>1. wake'[w].status = c.out
      BY <2>3, <2>4, <2>6, RowTypes DEF Completed, Row
    <3> QED
      BY <3>1 DEF TypeInv, TypeOK, Completing
  <2> QED
    BY <2>5, <2>6
<1>4. CASE WithdrawStep
  BY <1>4 DEF WithdrawStep, LetGo
<1> QED
  BY <1>1, <1>2, <1>3, <1>4 DEF StepShape

-----------------------------------------------------------------------------
(* The refinement.                                                         *)

\* The mapping, a row at a time.
LEMMA PhaseOfRow ==
  ASSUME NEW row \in Row
  PROVE  /\ PhaseOf(row) = "absent" <=> row.status = "absent"
         /\ PhaseOf(row) = "open"   <=> row.status = "queued"
         /\ PhaseOf(row) = "held"   <=> row.status = "claimed"
         /\ PhaseOf(row) = "over"   <=> row.status \in Ended
         /\ PhaseOf(row) \in {"open", "held"} <=> IsOpen(row)
  BY DEF PhaseOf, Row, Statuses, Ended, IsOpen

LEMMA PhaseOfAlike ==
  ASSUME NEW old \in Row, NEW new \in Row, Kept(old, new)
  PROVE  /\ PhaseOf(new) = PhaseOf(old) /\ new.record = old.record
         /\ (new.status = "claimed" <=> old.status = "claimed")
         /\ new.status = "claimed" => new.nonce = old.nonce
  BY PhaseOfRow DEF Kept, Ended, Row, Statuses, PhaseOf

LEMMA PhaseOfBack ==
  ASSUME NEW old \in Row, NEW new \in Row, Back(old, new)
  PROVE  /\ PhaseOf(old) \in {"open", "held"} /\ PhaseOf(new) \in {"open", "over"}
         /\ new.record = old.record /\ new.status # "claimed"
  BY PhaseOfRow DEF LetGo, Back, Ended

LEMMA RefinesInit == Init => Lease!Init
<1> SUFFICES ASSUME Init PROVE Lease!Init
  OBVIOUS
<1>1. \A w \in Wakes : wake[w].status = "absent" /\ wake[w].record = NoRecord
  BY DEF Init, NewRow
<1>2. \A w \in Wakes : PhaseOf(wake[w]) = "absent"
  BY <1>1, InitType, PhaseOfRow DEF TypeInv, TypeOK
<1> QED
  BY <1>1, <1>2 DEF Init, Lease!Init

LEMMA RefinesStep ==
  ASSUME TypeInv, TypeInv', LeaseInv, StepShape
  PROVE  Lease!Next \/ UNCHANGED Lease!vars
<1> DEFINE claim(w) == IF wake[w].status = "claimed" THEN wake[w].nonce ELSE 0
<1>1. \A w \in Wakes : wake[w] \in Row /\ wake'[w] \in Row
  BY DEF TypeInv, TypeOK
<1>2. CASE QuietStep
  <2>1. \A w \in Wakes : /\ PhaseOf(wake'[w]) = PhaseOf(wake[w])
                         /\ wake'[w].record = wake[w].record
                         /\ (IF wake'[w].status = "claimed" THEN wake'[w].nonce ELSE 0)
                            = claim(w)
    BY <1>1, <1>2, PhaseOfAlike DEF QuietStep
  <2>2. claims' = claims /\ accepted' = accepted
    BY <1>2 DEF QuietStep
  <2> QED
    BY <2>1, <2>2 DEF Lease!vars
<1>3. CASE MadeStep
  <2>1. PICK w \in Wakes, rec \in Records :
          /\ wake[w].status = "absent"
          /\ OpenFor(rec) = {}
          /\ wake'[w] = NewRow(rec)
          /\ \A v \in Wakes \ {w} : wake'[v] = wake[v]
          /\ claims' = claims /\ accepted' = accepted
    BY <1>3 DEF MadeStep
  <2>2. wake'[w].status = "queued" /\ wake'[w].record = rec
    BY <2>1 DEF NewRow
  <2>3. PhaseOf(wake'[w]) = "open" /\ PhaseOf(wake[w]) = "absent"
    BY <1>1, <2>1, <2>2, PhaseOfRow
  <2>4. \A v \in Wakes : PhaseOf(wake[v]) \in {"open", "held"} => wake[v].record # rec
    BY <1>1, <2>1, PhaseOfRow DEF OpenFor
  <2>5. Lease!Make(w, rec)
    BY <2>1, <2>2, <2>3, <2>4 DEF Lease!Make, Lease!Open
  <2> QED
    BY <2>5 DEF Lease!Next
<1>4. CASE GrantStep
  <2>1. PICK w \in Wakes, r \in Runners :
          /\ wake[w].status = "queued"
          /\ wake'[w] = Claimed(wake[w], r, claims + 1)
          /\ \A v \in Wakes \ {w} : wake'[v] = wake[v]
          /\ claims' = claims + 1 /\ accepted' = accepted
    BY <1>4 DEF GrantStep
  <2>2. claims + 1 \in Nat
    BY ConstantsAssumption DEF TypeInv, TypeOK
  <2>3. wake'[w].status = "claimed" /\ wake'[w].record = wake[w].record
        /\ wake'[w].nonce = claims + 1
    BY <2>1, <2>2, GrantedRow
  <2>4. PhaseOf(wake'[w]) = "held" /\ PhaseOf(wake[w]) = "open"
    BY <1>1, <2>1, <2>3, PhaseOfRow
  <2>5. Lease!Grant(w)
    BY <2>1, <2>3, <2>4 DEF Lease!Grant
  <2> QED
    BY <2>5 DEF Lease!Next
<1>5. CASE ReportStep
  <2>1. PICK w \in Wakes :
          /\ wake[w].status = "claimed"
          /\ Back(wake[w], wake'[w])
          /\ \A v \in Wakes \ {w} : wake'[v] = wake[v]
          /\ claims' = claims /\ accepted' = accepted \cup {<<wake[w].nonce, wake[w].nonce>>}
    BY <1>5 DEF ReportStep
  <2>2. /\ PhaseOf(wake[w]) = "held" /\ PhaseOf(wake'[w]) \in {"open", "over"}
        /\ wake'[w].record = wake[w].record /\ wake'[w].status # "claimed"
    BY <1>1, <2>1, PhaseOfRow, PhaseOfBack
  <2>3. <<wake[w].nonce, wake[w].nonce>> \notin accepted
    BY <2>1 DEF LeaseInv, ClaimsApart
  <2> DEFINE c == [v \in Wakes |-> IF wake[v].status = "claimed" THEN wake[v].nonce ELSE 0][w]
  <2>4. c = wake[w].nonce
    BY <2>1
  <2>5. PICK next \in {"open", "over"} : next = PhaseOf(wake'[w])
    BY <2>2
  <2>6. Lease!Report(w, c, next)
    BY <2>1, <2>2, <2>3, <2>4, <2>5 DEF Lease!Report
  <2> QED
    BY <2>6, Zenon DEF Lease!Next
<1>6. CASE WithdrawStep
  <2>1. PICK S \in SUBSET Wakes : /\ \A w \in S : LetGo(wake[w], wake'[w])
                                  /\ \A w \in Wakes \ S : wake'[w] = wake[w]
                                  /\ claims' = claims /\ accepted' = accepted
    BY <1>6 DEF WithdrawStep
  <2> DEFINE next == [w \in S |-> PhaseOf(wake'[w])]
  <2>2. \A w \in S : /\ PhaseOf(wake[w]) \in {"open", "held"}
                     /\ PhaseOf(wake'[w]) \in {"open", "over"}
                     /\ wake'[w].record = wake[w].record /\ wake'[w].status # "claimed"
    BY <1>1, <2>1, PhaseOfBack DEF LetGo
  <2>3. next \in [S -> {"open", "over"}]
    BY <2>2
  <2>4. \A w \in Wakes :
          PhaseOf(wake'[w]) = IF w \in S THEN next[w] ELSE PhaseOf(wake[w])
    BY <2>1
  <2>5. Lease!Withdraw(S)
    BY <2>1, <2>2, <2>3, <2>4 DEF Lease!Withdraw, Lease!Open
  <2> QED
    BY <2>5 DEF Lease!Next
<1> QED
  BY <1>2, <1>3, <1>4, <1>5, <1>6 DEF StepShape

-----------------------------------------------------------------------------
(* The theorems.                                                           *)

\* However the sweeper, removals, cancels and completions race, a claimed row
\* always carries a lease the reaper looks for and the Runner and nonce its
\* holder reports with, and a queued row carries no lease of an earlier claim.
THEOREM ClaimsAreReapable == Spec => []ClaimedIsReapable
  BY LeaseInvariant, PTL DEF LeaseInv

\* No race of enqueues, rewakes and requeues leaves an agent two open wakes for
\* one record: no statement of the queue can hit the partial unique index with
\* a row that is already there.
THEOREM OneOpenWakePerRecord == Spec => []OneOpenWake
  BY LeaseInvariant, PTL DEF LeaseInv

\* The queue is the lease service WakeLease describes: a wake is held under one
\* claim at a time, every claim is new, a report is applied once and only to the
\* claim it was made for, and a wake that ended stays ended.
THEOREM QueueImplementsLease == Spec => ImplementsLease
<1>1. Init => Lease!Init
  BY RefinesInit
<1>2. (TypeInv /\ LeaseInv) /\ (TypeInv /\ LeaseInv)' /\ [Next]_vars => [Lease!Next]_(Lease!vars)
  <2> SUFFICES ASSUME TypeInv, LeaseInv, TypeInv', [Next]_vars
               PROVE  Lease!Next \/ UNCHANGED Lease!vars
    OBVIOUS
  <2>1. StepShape
    BY NextShape DEF LeaseInv
  <2> QED
    BY <2>1, RefinesStep
<1> QED
  BY <1>1, <1>2, LeaseInvariant, PTL DEF Spec, ImplementsLease, Lease!Spec

\* A Runner that sends its report again, late or to a row that was requeued and
\* re-claimed since wakes the agent again for its silence once per wake: the
\* decision complete() takes before its transaction is still right in it.
THEOREM WokenAgainOnce == Spec => RewokenOnce
<1> DEFINE Inv == TypeInv /\ LeaseInv /\ FreshReads
<1>1. Init => Inv
  <2>1. Init => FreshReads
    BY DEF Init, FreshReads
  <2> QED
    BY <2>1, InitType, InitLease
<1>2. Inv /\ [Next]_vars => Inv'
  <2> SUFFICES ASSUME Inv, [Next]_vars PROVE Inv'
    OBVIOUS
  <2>1. StepShape
    BY NextShape DEF LeaseInv
  <2> QED
    BY <2>1, NextType, FreshReadsStep, RowsAboutRecordsStep, ReapableStep, OneOpenStep,
       ClaimsApartStep
    DEF LeaseInv
<1>3. Inv /\ [Next]_vars =>
        [\A w \in Wakes :
           wake[w].must /\ wake[w].status = "claimed" /\ wake'[w].status = "queued"
             => wake'[w].nonce = 0 \/ wake'[w].held]_vars
  BY NextShape, RewokenStep DEF LeaseInv
<1> QED
  BY <1>1, <1>2, <1>3, PTL DEF Spec, RewokenOnce

-----------------------------------------------------------------------------
(* The credential is the fence.  What a session may still do is decided by *)
(* its credential, what a claim may still do by its row; FenceHolds ties   *)
(* the two, and needs to know of every request and session what it holds.  *)

\* A request, or a session, x holds the wake it names; or its work is over.
InFlight(p) == poll[p].pc \notin {"idle", "checked"}
Stands(x) == HeldBy(wake[x.wake], x.runner, x.nonce)
Over(x) == wake[x.wake].status \in Ended \/ runner[x.runner] = "revoked"
\* No other claim's credential of that wake is usable by a Runner in service.
Alone(x) == \A c \in creds : c.wake = x.wake => c.nonce = x.nonce \/ runner[c.runner] = "revoked"
Spent(c) == c.state = "expired" \/ runner[c.runner] = "revoked"

\* Sessions, credentials and completions name claims that were made; a claim has
\* one session, and a completion of it means that session ended.
ClaimNames ==
  /\ \A s \in sessions : s.nonce \in 1..claims
  /\ \A c \in creds : c.nonce \in 1..claims
  /\ \A c \in completing : c.nonce \in 1..claims
  /\ \A s, t \in sessions : s.nonce = t.nonce => s = t
  /\ \A c \in completing, s \in sessions : c.nonce = s.nonce => s.phase # "running"
  /\ \A c \in creds, s \in sessions :
       c.nonce = s.nonce => c.wake = s.wake /\ c.runner = s.runner

\* A claim that is still being answered has no session and no completion.
RequestNames ==
  \A p \in Polls : InFlight(p) =>
    /\ \A s \in sessions : s.nonce # poll[p].nonce
    /\ \A c \in completing : c.nonce # poll[p].nonce
    /\ \A c \in creds : c.nonce = poll[p].nonce => c.wake = poll[p].wake /\ c.runner = poll[p].runner
    /\ \A q \in Polls : InFlight(q) /\ poll[q].nonce = poll[p].nonce => q = p

\* Until its answer is sent, a claim holds its row under a live lease, unless the
\* wake ended or its Runner was removed.
RequestsStand ==
  \A p \in Polls : InFlight(p) =>
    (Stands(poll[p]) /\ wake[poll[p].wake].lease = "live") \/ Over(poll[p])

\* From mint's revocation on, the wake's credentials are those of its claim.
OwnCreds ==
  /\ \A p \in Polls : poll[p].pc \in {"insert", "answer"} /\ Stands(poll[p]) => Alone(poll[p])
  /\ \A s \in sessions : Stands(s) => Alone(s)

\* Credentials expire with the lease of their wake.
LapsedCreds ==
  \A c \in creds :
    wake[c.wake].status = "claimed" /\ wake[c.wake].lease = "lapsed" => Spent(c)

\* A session that lost its wake kept no usable credential.
SessionsFenced ==
  \A s \in sessions : s.phase = "running" =>
    Stands(s) \/ Over(s) \/ \A c \in creds : c.nonce = s.nonce => Spent(c)

FenceInv ==
  ClaimNames /\ RequestNames /\ RequestsStand /\ OwnCreds /\ LapsedCreds /\ SessionsFenced

\* The row is held as it was, or not at all; an open one may end, an ended
\* one stays ended.
HeldRow(old, new) ==
  /\ new.status = "claimed" =>
       /\ old.status = "claimed"
       /\ new.holder = old.holder /\ new.nonce = old.nonce
       /\ new.lease \in {old.lease, "live"}
  /\ old.status = "claimed" => new.status \in {"claimed"} \cup Ended
  /\ old.status \in Ended => new.status \in Ended

HeldAsBefore(w) == HeldRow(wake[w], wake'[w])

\* The row was taken from a claim nobody relies on.
TakenBack(w) ==
  /\ wake[w].status = "claimed" /\ wake'[w].status # "claimed"
  /\ \A p \in Polls : InFlight(p) /\ poll[p].wake = w /\ Stands(poll[p]) =>
       runner'[poll[p].runner] = "revoked" \/ poll'[p].pc = "idle"
  /\ \A s \in sessions : s.phase = "running" /\ s.wake = w /\ Stands(s) =>
       \/ wake'[w].status \in Ended
       \/ \A c \in creds : c.nonce = s.nonce => c.state = "expired" \/ runner'[c.runner] = "revoked"
       \/ runner'[s.runner] = "revoked"

RequestsGoOn ==
  \A p \in Polls : poll'[p].pc \notin {"idle", "checked"} =>
    /\ InFlight(p)
    /\ poll'[p].wake = poll[p].wake /\ poll'[p].runner = poll[p].runner
    /\ poll'[p].nonce = poll[p].nonce
    /\ poll'[p].pc \in {"insert", "answer"} =>
         poll[p].pc \in {"insert", "answer"} \/ \A c \in creds' : c.wake # poll[p].wake

RunnersGo == \A r \in Runners : runner[r] = "revoked" => runner'[r] = "revoked"

LEMMA FenceTypes ==
  ASSUME TypeInv
  PROVE  /\ \A p \in Polls : InFlight(p) =>
              poll[p].wake \in Wakes /\ poll[p].runner \in Runners /\ poll[p].nonce \in 1..claims
         /\ \A s \in sessions : s.wake \in Wakes /\ s.runner \in Runners
         /\ \A c \in creds : c.wake \in Wakes /\ c.runner \in Runners
         /\ \A c \in completing : c.wake \in Wakes /\ c.runner \in Runners
         /\ claims \in Nat
  BY ConstantsAssumption
  DEF TypeInv, TypeOK, PollsInFlight, InFlight, SessionRec, Cred, Completing

LEMMA FenceKept ==
  ASSUME TypeInv, FenceInv, RequestsGoOn, RunnersGo, claims' = claims,
         sessions' \subseteq sessions, completing' \subseteq completing, creds' \subseteq creds,
         \A w \in Wakes : HeldAsBefore(w) \/ TakenBack(w)
  PROVE  FenceInv'
<1>1. ClaimNames'
  BY DEF FenceInv, ClaimNames
<1>2. RequestNames'
  <2> SUFFICES ASSUME NEW p \in Polls, InFlight(p)'
               PROVE  /\ \A s \in sessions' : s.nonce # poll'[p].nonce
                      /\ \A c \in completing' : c.nonce # poll'[p].nonce
                      /\ \A c \in creds' : c.nonce = poll'[p].nonce =>
                           c.wake = poll'[p].wake /\ c.runner = poll'[p].runner
                      /\ \A q \in Polls : InFlight(q)' /\ poll'[q].nonce = poll'[p].nonce => q = p
    BY DEF RequestNames
  <2>1. \A q \in Polls : InFlight(q)' =>
          /\ InFlight(q)
          /\ poll'[q].wake = poll[q].wake /\ poll'[q].runner = poll[q].runner
          /\ poll'[q].nonce = poll[q].nonce
    BY DEF RequestsGoOn, InFlight
  <2> QED
    BY <2>1 DEF FenceInv, RequestNames
<1>3. RequestsStand'
  <2> SUFFICES ASSUME NEW p \in Polls, InFlight(p)'
               PROVE  \/ Stands(poll[p])' /\ wake'[poll'[p].wake].lease = "live"
                      \/ Over(poll[p])'
    BY DEF RequestsStand
  <2>1. /\ InFlight(p) /\ poll'[p].pc # "idle"
        /\ poll'[p].wake = poll[p].wake /\ poll'[p].runner = poll[p].runner
        /\ poll'[p].nonce = poll[p].nonce
    BY DEF RequestsGoOn, InFlight
  <2>2. poll[p].wake \in Wakes /\ poll[p].runner \in Runners
    BY <2>1, FenceTypes
  <2>3. CASE Over(poll[p])
    BY <2>1, <2>2, <2>3 DEF Over, RunnersGo, HeldAsBefore, HeldRow, TakenBack, Ended
  <2>4. CASE Stands(poll[p]) /\ wake[poll[p].wake].lease = "live"
    <3>1. CASE HeldAsBefore(poll[p].wake)
      BY <2>1, <2>2, <2>4, <3>1 DEF HeldAsBefore, HeldRow, Over, Stands, HeldBy
    <3>2. CASE TakenBack(poll[p].wake)
      BY <2>1, <2>2, <2>4, <3>2 DEF TakenBack, Over
    <3> QED
      BY <2>2, <3>1, <3>2
  <2> QED
    BY <2>1, <2>3, <2>4 DEF FenceInv, RequestsStand
<1>4. ASSUME NEW x, x.wake \in Wakes, Stands(x)', Stands(x) => Alone(x)
      PROVE  Alone(x)'
  <2>1. Stands(x)
    BY <1>4 DEF Stands, HeldBy, HeldAsBefore, HeldRow, TakenBack
  <2>2. \A c \in creds' : c \in creds /\ c.runner \in Runners
    BY FenceTypes
  <2> QED
    BY <1>4, <2>1, <2>2 DEF Alone, RunnersGo
<1>5. OwnCreds'
  <2>1. ASSUME NEW p \in Polls, poll'[p].pc \in {"insert", "answer"}, Stands(poll[p])'
        PROVE  Alone(poll[p])'
    <3>1. /\ InFlight(p)
          /\ poll[p].pc \in {"insert", "answer"} \/ \A c \in creds' : c.wake # poll[p].wake
          /\ poll'[p].wake = poll[p].wake /\ poll'[p].runner = poll[p].runner
          /\ poll'[p].nonce = poll[p].nonce
      BY <2>1 DEF RequestsGoOn
    <3>2. poll[p].wake \in Wakes
      BY <3>1, FenceTypes
    <3>3. Stands(poll[p])
      BY <2>1, <3>1, <3>2 DEF Stands, HeldBy, HeldAsBefore, HeldRow, TakenBack
    <3>4. \A c \in creds' : c \in creds /\ c.runner \in Runners
      BY FenceTypes
    <3>5. CASE poll[p].pc \in {"insert", "answer"}
      BY <3>1, <3>3, <3>4, <3>5 DEF FenceInv, OwnCreds, Alone, RunnersGo
    <3>6. CASE \A c \in creds' : c.wake # poll[p].wake
      BY <3>1, <3>6 DEF Alone
    <3> QED
      BY <3>1, <3>5, <3>6
  <2>2. ASSUME NEW s \in sessions', Stands(s)'
        PROVE  Alone(s)'
    <3>1. s \in sessions /\ s.wake \in Wakes
      BY FenceTypes
    <3>2. Stands(s) => Alone(s)
      BY <3>1 DEF FenceInv, OwnCreds
    <3> QED
      BY <1>4, <2>2, <3>1, <3>2
  <2> QED
    BY <2>1, <2>2 DEF OwnCreds
<1>6. LapsedCreds'
  <2> SUFFICES ASSUME NEW c \in creds', wake'[c.wake].status = "claimed",
                      wake'[c.wake].lease = "lapsed"
               PROVE  Spent(c)'
    BY DEF LapsedCreds
  <2>1. c \in creds /\ c.wake \in Wakes /\ c.runner \in Runners
    BY FenceTypes
  <2>2. wake[c.wake].status = "claimed" /\ wake[c.wake].lease = "lapsed"
    BY <2>1 DEF HeldAsBefore, HeldRow, TakenBack
  <2>3. Spent(c)
    BY <2>1, <2>2 DEF FenceInv, LapsedCreds
  <2> QED
    BY <2>1, <2>3 DEF Spent, RunnersGo
<1>7. SessionsFenced'
  <2> SUFFICES ASSUME NEW s \in sessions', s.phase = "running"
               PROVE  Stands(s)' \/ Over(s)' \/ \A c \in creds' : c.nonce = s.nonce => Spent(c)'
    BY DEF SessionsFenced
  <2>1. s \in sessions /\ s.wake \in Wakes /\ s.runner \in Runners
    BY FenceTypes
  <2>2. \A c \in creds' : c \in creds /\ c.runner \in Runners
    BY FenceTypes
  <2>3. CASE Over(s)
    BY <2>1, <2>3 DEF Over, RunnersGo, HeldAsBefore, HeldRow, TakenBack, Ended
  <2>4. CASE \A c \in creds : c.nonce = s.nonce => Spent(c)
    BY <2>2, <2>4 DEF Spent, RunnersGo
  <2>5. CASE Stands(s)
    <3>1. CASE HeldAsBefore(s.wake)
      BY <2>1, <2>5, <3>1 DEF HeldAsBefore, HeldRow, Over, Stands, HeldBy
    <3>2. CASE TakenBack(s.wake)
      BY <2>1, <2>2, <2>5, <3>2 DEF TakenBack, Over, Spent
    <3> QED
      BY <2>1, <3>1, <3>2
  <2> QED
    BY <2>1, <2>3, <2>4, <2>5 DEF FenceInv, SessionsFenced
<1> QED
  BY <1>1, <1>2, <1>3, <1>5, <1>6, <1>7 DEF FenceInv

LEMMA RowsUntouched ==
  ASSUME wake' = wake
  PROVE  \A w \in Wakes : HeldAsBefore(w)
  BY DEF HeldAsBefore, HeldRow, Ended

LEMMA OneRowHeld ==
  ASSUME TypeInv, NEW w \in Wakes, NEW row, wake' = [wake EXCEPT ![w] = row],
         HeldRow(wake[w], row)
  PROVE  \A v \in Wakes : HeldAsBefore(v)
<1>1. wake'[w] = row /\ \A v \in Wakes \ {w} : wake'[v] = wake[v]
  BY DEF TypeInv, TypeOK
<1> QED
  BY <1>1 DEF HeldAsBefore, HeldRow, Ended

LEMMA RequestsUntouched ==
  ASSUME poll' = poll
  PROVE  RequestsGoOn
  BY DEF RequestsGoOn, InFlight

LEMMA RequestDropped ==
  ASSUME TypeInv, NEW p \in Polls, poll' = [poll EXCEPT ![p] = IdlePoll]
  PROVE  RequestsGoOn /\ poll'[p].pc = "idle"
  BY DEF RequestsGoOn, InFlight, IdlePoll, TypeInv, TypeOK

LEMMA RunnersUntouched ==
  ASSUME runner' = runner
  PROVE  RunnersGo
  BY DEF RunnersGo

LEMMA InsertOrMergeHeld ==
  ASSUME TypeInv, NEW rec, NEW kind, InsertOrMerge(rec, kind)
  PROVE  \A w \in Wakes : HeldAsBefore(w)
<1>1. ASSUME NEW w \in Wakes, wake[w].status = "absent", wake' = [wake EXCEPT ![w] = NewRow(rec)]
      PROVE  \A v \in Wakes : HeldAsBefore(v)
  <2>1. HeldRow(wake[w], NewRow(rec))
    BY <1>1 DEF HeldRow, NewRow, Ended
  <2> QED
    BY <1>1, <2>1, OneRowHeld
<1>2. ASSUME NEW w \in Wakes, NEW b, wake' = [wake EXCEPT ![w] = [wake[w] EXCEPT !.rewake = b]]
      PROVE  \A v \in Wakes : HeldAsBefore(v)
  <2>1. HeldRow(wake[w], [wake[w] EXCEPT !.rewake = b])
    BY RowTypes DEF HeldRow, Row, Ended
  <2> QED
    BY <1>2, <2>1, OneRowHeld
<1>3. CASE \E w \in OpenFor(rec) : wake' = [wake EXCEPT ![w].rewake = @ \/ wake[w].status = "claimed"]
  <2>1. PICK w \in Wakes : wake' = [wake EXCEPT ![w].rewake = @ \/ wake[w].status = "claimed"]
    BY <1>3 DEF OpenFor
  <2>2. wake' = [wake EXCEPT ![w] = [wake[w] EXCEPT !.rewake = wake[w].rewake \/ wake[w].status = "claimed"]]
    BY <2>1
  <2> QED
    BY <1>2, <2>2
<1> QED
  BY <1>1, <1>3 DEF InsertOrMerge

LEMMA FenceQuiet ==
  ASSUME TypeInv, FenceInv, UNCHANGED <<claims, poll, runner>>,
         sessions' \subseteq sessions, completing' \subseteq completing, creds' \subseteq creds,
         \A w \in Wakes : HeldAsBefore(w)
  PROVE  FenceInv'
  BY FenceKept, RequestsUntouched, RunnersUntouched

LEMMA FenceDispatch ==
  ASSUME TypeInv, FenceInv, Dispatch
  PROVE  FenceInv'
<1>1. ASSUME NEW rec \in Records, NEW kind \in Kinds, Enqueue(rec, kind)
      PROVE  FenceInv'
  BY <1>1, InsertOrMergeHeld, FenceQuiet DEF Enqueue, runnerVars, clientVars
<1>2. ASSUME NEW x \in Wakes \cup Polls, CreateRun(x) \/ DispatchDone(x)
      PROVE  FenceInv'
  BY <1>2, RowsUntouched, FenceQuiet
  DEF CreateRun, DispatchDone, rowVars, runnerVars, clientVars
<1>3. ASSUME NEW w \in Wakes, wake' = [wake EXCEPT ![w] = Unstarted(wake[w])]
      PROVE  \A v \in Wakes : HeldAsBefore(v)
  <2>1. HeldRow(wake[w], Unstarted(wake[w]))
    BY RowTypes DEF HeldRow, Unstarted, Row, Ended
  <2> QED
    BY <1>3, <2>1, OneRowHeld
<1>4. ASSUME NEW x \in Wakes \cup Polls, creator[x].pc # "none" PROVE creator[x].wake \in Wakes
  BY <1>4 DEF TypeInv, CreatorsInFlight
<1>5. ASSUME NEW x \in Wakes \cup Polls, BlockedRun(x) \/ DispatchFails(x)
      PROVE  FenceInv'
  <2>1. creator[x].wake \in Wakes
    BY <1>4, <1>5 DEF BlockedRun, DispatchFails
  <2>2. wake' = [wake EXCEPT ![creator[x].wake] = Unstarted(wake[creator[x].wake])]
    BY <1>5 DEF BlockedRun, DispatchFails
  <2>3. \A v \in Wakes : HeldAsBefore(v)
    BY <1>3, <2>1, <2>2
  <2> QED
    BY <1>5, <2>3, FenceQuiet DEF BlockedRun, DispatchFails, runnerVars, clientVars
<1>6. ASSUME NEW x \in Wakes \cup Polls, CreateRunFails(x)
      PROVE  FenceInv'
  <2>1. creator[x].wake \in Wakes
    BY <1>4, <1>6 DEF CreateRunFails
  <2>2. wake' = [wake EXCEPT ![creator[x].wake] = Unstarted(wake[creator[x].wake])] \/ wake' = wake
    BY <1>6 DEF CreateRunFails
  <2>3. \A v \in Wakes : HeldAsBefore(v)
    BY <1>3, <2>1, <2>2, RowsUntouched
  <2> QED
    BY <1>6, <2>3, FenceQuiet DEF CreateRunFails, runnerVars, clientVars
<1>7. ASSUME NEW w \in Wakes, NEW u, wake' = [wake EXCEPT ![w] = [wake[w] EXCEPT !.run = u]]
      PROVE  \A v \in Wakes : HeldAsBefore(v)
  <2>1. HeldRow(wake[w], [wake[w] EXCEPT !.run = u])
    BY RowTypes DEF HeldRow, Row, Ended
  <2> QED
    BY <1>7, <2>1, OneRowHeld
<1>8. ASSUME NEW x \in Wakes \cup Polls, AttachRun(x)
      PROVE  FenceInv'
  <2>1. creator[x].wake \in Wakes
    BY <1>4, <1>8 DEF AttachRun
  <2>2. wake' = [wake EXCEPT ![creator[x].wake] = [wake[creator[x].wake] EXCEPT !.run = creator[x].run]]
    BY <1>8 DEF AttachRun
  <2>3. \A v \in Wakes : HeldAsBefore(v)
    BY <1>7, <2>1, <2>2
  <2> QED
    BY <1>8, <2>3, FenceQuiet DEF AttachRun, runnerVars, clientVars
<1>9. ASSUME NEW x \in Wakes \cup Polls, ReattachRun(x)
      PROVE  FenceInv'
  <2>1. creator[x].wake \in Wakes
    BY <1>4, <1>9 DEF ReattachRun
  <2>2. wake' = [wake EXCEPT ![creator[x].wake] = [wake[creator[x].wake] EXCEPT !.run = creator[x].run]]
    BY <1>9 DEF ReattachRun
  <2>3. \A v \in Wakes : HeldAsBefore(v)
    BY <1>7, <2>1, <2>2
  <2>4. RequestsGoOn
    <3>1. CASE x \in Polls
      <4>1. poll[x].pc = "ensure"
        BY <1>9, <3>1 DEF ReattachRun, TypeInv, CreatorsInFlight
      <4>2. poll' = [poll EXCEPT ![x].pc = "mint", ![x].run = creator[x].run]
        BY <1>9, <3>1 DEF ReattachRun
      <4>3. /\ poll'[x].pc = "mint" /\ poll'[x].wake = poll[x].wake
            /\ poll'[x].runner = poll[x].runner /\ poll'[x].nonce = poll[x].nonce
            /\ \A q \in Polls \ {x} : poll'[q] = poll[q]
        BY <3>1, <4>2 DEF TypeInv, TypeOK, PollState
      <4> QED
        BY <4>1, <4>3 DEF RequestsGoOn, InFlight
    <3>2. CASE x \notin Polls
      BY <1>9, <3>2, RequestsUntouched DEF ReattachRun
    <3> QED
      BY <3>1, <3>2
  <2> QED
    BY <1>9, <2>3, <2>4, FenceKept, RunnersUntouched DEF ReattachRun, runnerVars, clientVars
<1>10. ASSUME NEW w \in Wakes, UndoEnqueue(w)
       PROVE  FenceInv'
  <2>1. wake' = [wake EXCEPT ![w] = [wake[w] EXCEPT !.status = "canceled"]]
    BY <1>10 DEF UndoEnqueue
  <2>2. HeldRow(wake[w], [wake[w] EXCEPT !.status = "canceled"])
    BY RowTypes DEF HeldRow, Row, Ended
  <2>3. \A v \in Wakes : HeldAsBefore(v)
    BY <2>1, <2>2, OneRowHeld
  <2> QED
    BY <1>10, <2>3, FenceQuiet DEF UndoEnqueue, runnerVars, clientVars
<1> QED
  BY <1>1, <1>2, <1>5, <1>6, <1>8, <1>9, <1>10 DEF Dispatch

\* A claim: the row waits, so no session, request or credential is about it.
LEMMA FenceClaimOnce ==
  ASSUME TypeInv, FenceInv, NEW p \in Polls, NEW w \in Wakes, ClaimOnce(p, w)
  PROVE  FenceInv'
<1> DEFINE n == claims + 1
<1>1. /\ claims \in Nat /\ claims' = n /\ n \notin 1..claims /\ n \in 1..claims'
      /\ 1..claims \subseteq 1..claims'
  BY FenceTypes DEF ClaimOnce
<1>2. /\ poll[p].pc = "checked" /\ wake[w].status = "queued"
      /\ UNCHANGED <<creds, runner, sessions, completing>>
  BY DEF ClaimOnce, Claimable, runnerVars, clientVars
<1>3. poll[p].runner \in Runners
  BY <1>2 DEF TypeInv, PollsInFlight
<1>4. /\ wake'[w].status = "claimed" /\ wake'[w].holder = poll[p].runner
      /\ wake'[w].nonce = n /\ wake'[w].lease = "live"
      /\ \A v \in Wakes \ {w} : wake'[v] = wake[v]
  <2>1. wake' = [wake EXCEPT ![w] = Claimed(wake[w], poll[p].runner, n)]
    BY DEF ClaimOnce
  <2>2. wake'[w] = Claimed(wake[w], poll[p].runner, n) /\ \A v \in Wakes \ {w} : wake'[v] = wake[v]
    BY <2>1 DEF TypeInv, TypeOK
  <2> QED
    BY <1>1, <1>3, <2>2, GrantedRow
<1>5. /\ poll'[p].pc \in {"ensure", "mint"} /\ poll'[p].wake = w /\ poll'[p].nonce = n
      /\ poll'[p].runner = poll[p].runner
      /\ \A q \in Polls \ {p} : poll'[q] = poll[q]
  <2>1. poll[p] \in PollState /\ poll \in [Polls -> PollState]
    BY DEF TypeInv, TypeOK
  <2>2. PICK pc \in {"ensure", "mint"} : poll' = [poll EXCEPT
          ![p] = [@ EXCEPT !.pc = pc, !.wake = w, !.nonce = claims + 1, !.run = wake[w].run]]
    BY DEF ClaimOnce
  <2> QED
    BY <2>1, <2>2 DEF PollState
<1> HIDE DEF n
<1>6. \A x : x.wake \in Wakes /\ Stands(x) => x.wake # w
  BY <1>2 DEF Stands, HeldBy
<1>7. ClaimNames'
  BY <1>1, <1>2 DEF FenceInv, ClaimNames
<1>8. RequestNames'
  <2> SUFFICES ASSUME NEW q \in Polls, InFlight(q)'
               PROVE  /\ \A s \in sessions : s.nonce # poll'[q].nonce
                      /\ \A c \in completing : c.nonce # poll'[q].nonce
                      /\ \A c \in creds : c.nonce = poll'[q].nonce =>
                           c.wake = poll'[q].wake /\ c.runner = poll'[q].runner
                      /\ \A o \in Polls : InFlight(o)' /\ poll'[o].nonce = poll'[q].nonce => o = q
    BY <1>2 DEF RequestNames
  <2>1. \A o \in Polls \ {p} : InFlight(o)' =>
          InFlight(o) /\ poll'[o] = poll[o] /\ poll[o].nonce \in 1..claims
    BY <1>5, FenceTypes DEF InFlight
  <2>2. CASE q = p
    BY <1>1, <1>5, <2>1, <2>2 DEF FenceInv, ClaimNames
  <2>3. CASE q # p
    BY <1>1, <1>5, <2>1, <2>3 DEF FenceInv, RequestNames
  <2> QED
    BY <2>2, <2>3
<1>9. RequestsStand'
  <2> SUFFICES ASSUME NEW q \in Polls, InFlight(q)'
               PROVE  \/ Stands(poll[q])' /\ wake'[poll'[q].wake].lease = "live"
                      \/ Over(poll[q])'
    BY DEF RequestsStand
  <2>1. CASE q = p
    BY <1>4, <1>5, <2>1 DEF Stands, HeldBy
  <2>2. CASE q # p
    <3>1. InFlight(q) /\ poll'[q] = poll[q] /\ poll[q].wake \in Wakes
      BY <1>5, <2>2, FenceTypes DEF InFlight
    <3>2. (Stands(poll[q]) /\ wake[poll[q].wake].lease = "live") \/ Over(poll[q])
      BY <3>1 DEF FenceInv, RequestsStand
    <3> QED
      BY <1>2, <1>4, <3>1, <3>2 DEF Stands, HeldBy, Over, Ended
  <2> QED
    BY <2>1, <2>2
<1>10. OwnCreds'
  <2>1. ASSUME NEW q \in Polls, poll'[q].pc \in {"insert", "answer"}, Stands(poll[q])'
        PROVE  Alone(poll[q])'
    <3>1. q # p
      BY <1>5, <2>1
    <3>2. poll'[q] = poll[q] /\ InFlight(q)
      BY <1>5, <2>1, <3>1 DEF InFlight
    <3>3. poll[q].wake \in Wakes /\ poll[q].nonce # n
      BY <1>1, <3>2, FenceTypes
    <3>4. Stands(poll[q])
      BY <1>4, <2>1, <3>2, <3>3 DEF Stands, HeldBy
    <3> QED
      BY <1>2, <2>1, <3>2, <3>4 DEF FenceInv, OwnCreds, Alone
  <2>2. ASSUME NEW s \in sessions, Stands(s)'
        PROVE  Alone(s)'
    <3>1. s.wake \in Wakes /\ s.nonce # n
      BY <1>1, FenceTypes DEF FenceInv, ClaimNames
    <3>2. Stands(s)
      BY <1>4, <2>2, <3>1 DEF Stands, HeldBy
    <3> QED
      BY <1>2, <3>2 DEF FenceInv, OwnCreds, Alone
  <2> QED
    BY <1>2, <2>1, <2>2 DEF OwnCreds
<1>11. LapsedCreds'
  <2> SUFFICES ASSUME NEW c \in creds, wake'[c.wake].status = "claimed",
                      wake'[c.wake].lease = "lapsed"
               PROVE  Spent(c)'
    BY <1>2 DEF LapsedCreds
  <2>1. c.wake \in Wakes /\ c.wake # w
    BY <1>4, FenceTypes
  <2> QED
    BY <1>2, <1>4, <2>1 DEF FenceInv, LapsedCreds, Spent
<1>12. SessionsFenced'
  <2> SUFFICES ASSUME NEW s \in sessions, s.phase = "running"
               PROVE  Stands(s)' \/ Over(s)' \/ \A c \in creds : c.nonce = s.nonce => Spent(c)'
    BY <1>2 DEF SessionsFenced
  <2>1. s.wake \in Wakes
    BY FenceTypes
  <2>2. Stands(s) \/ Over(s) \/ \A c \in creds : c.nonce = s.nonce => Spent(c)
    BY DEF FenceInv, SessionsFenced
  <2> QED
    BY <1>2, <1>4, <2>1, <2>2 DEF Stands, HeldBy, Over, Spent, Ended
<1> QED
  BY <1>7, <1>8, <1>9, <1>10, <1>11, <1>12 DEF FenceInv

\* The claim cannot be served: the row it holds ends.
LEMMA FenceFailClaim ==
  ASSUME TypeInv, FenceInv, NEW p \in Polls, FailClaim(p)
  PROVE  FenceInv'
<1> DEFINE w == poll[p].wake
<1>1. w \in Wakes
  BY FenceTypes DEF FailClaim, InFlight
<1>2. \/ wake' = [wake EXCEPT ![w] = [wake[w] EXCEPT !.status = "failed", !.lease = "none"]]
      \/ wake' = wake
  BY DEF FailClaim
<1>3. HeldRow(wake[w], [wake[w] EXCEPT !.status = "failed", !.lease = "none"])
  BY <1>1, RowTypes DEF HeldRow, Row, Ended
<1>4. \A v \in Wakes : HeldAsBefore(v)
  BY <1>1, <1>2, <1>3, OneRowHeld, RowsUntouched
<1> QED
  BY <1>4, RequestDropped, RunnersUntouched, FenceKept
  DEF FailClaim, runnerVars, clientVars

\* The request gives its own claim back, or that of a removed Runner.
LEMMA FenceMintRefused ==
  ASSUME TypeInv, FenceInv, NEW p \in Polls, MintRefused(p)
  PROVE  FenceInv'
<1> DEFINE w == poll[p].wake
<1>1. w \in Wakes /\ InFlight(p) /\ poll[p].runner \in Runners
  BY FenceTypes DEF MintRefused, InFlight
<1>2. poll'[p].pc = "idle" /\ RequestsGoOn /\ UNCHANGED runner
  BY RequestDropped DEF MintRefused, runnerVars
<1>3. \A v \in Wakes \ {w} : HeldAsBefore(v)
  <2>1. \A v \in Wakes \ {w} : wake'[v] = wake[v]
    BY <1>1 DEF MintRefused, TypeInv, TypeOK
  <2> QED
    BY <2>1 DEF HeldAsBefore, HeldRow, Ended
<1>4. ASSUME wake[w].status = "claimed" /\ wake[w].holder = poll[p].runner
      PROVE  TakenBack(w)
  <2>1. wake'[w] = Released(wake[w])
    BY <1>1, <1>4 DEF MintRefused, TypeInv, TypeOK
  <2>2. wake'[w].status = "queued"
    BY <1>1, <2>1, RowTypes DEF Released, Row
  <2>3. Stands(poll[p]) \/ runner[poll[p].runner] = "revoked"
    BY <1>1, <1>4 DEF FenceInv, RequestsStand, Over, Ended
  <2>4. ASSUME NEW q \in Polls, InFlight(q), poll[q].wake = w, Stands(poll[q])
        PROVE  runner'[poll[q].runner] = "revoked" \/ poll'[q].pc = "idle"
    <3>1. CASE runner[poll[p].runner] = "revoked"
      BY <1>2, <1>4, <2>4, <3>1 DEF Stands, HeldBy
    <3>2. CASE Stands(poll[p])
      <4>1. poll[q].nonce = poll[p].nonce
        BY <2>4, <3>2 DEF Stands, HeldBy
      <4>2. q = p
        BY <1>1, <2>4, <4>1 DEF FenceInv, RequestNames
      <4> QED
        BY <1>2, <4>2
    <3> QED
      BY <2>3, <3>1, <3>2
  <2>5. ASSUME NEW s \in sessions, s.wake = w, Stands(s)
        PROVE  runner'[s.runner] = "revoked"
    <3>1. ~Stands(poll[p])
      BY <1>1, <2>5 DEF FenceInv, RequestNames, Stands, HeldBy
    <3> QED
      BY <1>2, <1>4, <2>3, <2>5, <3>1 DEF Stands, HeldBy
  <2> QED
    BY <1>4, <2>2, <2>4, <2>5 DEF TakenBack
<1>5. ASSUME ~(wake[w].status = "claimed" /\ wake[w].holder = poll[p].runner)
      PROVE  HeldAsBefore(w)
  <2>1. wake'[w] = wake[w]
    BY <1>1, <1>5 DEF MintRefused, TypeInv, TypeOK
  <2> QED
    BY <2>1 DEF HeldAsBefore, HeldRow, Ended
<1>6. \A v \in Wakes : HeldAsBefore(v) \/ TakenBack(v)
  BY <1>3, <1>4, <1>5
<1> QED
  BY <1>2, <1>6, RunnersUntouched, FenceKept DEF MintRefused, clientVars

\* The earlier credentials of the wake are revoked.
LEMMA FenceMintRevoke ==
  ASSUME TypeInv, FenceInv, NEW p \in Polls, MintRevoke(p)
  PROVE  FenceInv'
<1>1. /\ poll'[p].pc = "insert" /\ poll'[p].wake = poll[p].wake
      /\ poll'[p].runner = poll[p].runner /\ poll'[p].nonce = poll[p].nonce
      /\ \A q \in Polls \ {p} : poll'[q] = poll[q]
  BY DEF MintRevoke, TypeInv, TypeOK, PollState
<1>2. \A c \in creds' : c \in creds /\ c.wake # poll[p].wake
  BY DEF MintRevoke, RevokedForWake
<1>3. RequestsGoOn
  BY <1>1, <1>2 DEF RequestsGoOn, InFlight, MintRevoke
<1> QED
  BY <1>2, <1>3, RowsUntouched, RunnersUntouched, FenceKept
  DEF MintRevoke, rowVars, runnerVars, clientVars

\* The new credential is the claim's own, unless its Runner was removed or
\* the wake ended.
LEMMA FenceMintInsert ==
  ASSUME TypeInv, FenceInv, NEW p \in Polls, MintInsert(p)
  PROVE  FenceInv'
<1>1. /\ poll[p].pc = "insert" /\ InFlight(p) /\ poll[p].wake \in Wakes
      /\ poll[p].runner \in Runners /\ poll[p].nonce \in 1..claims
  BY FenceTypes DEF MintInsert, InFlight
<1>0. PICK st : creds' = creds \cup {[nonce |-> poll[p].nonce, wake |-> poll[p].wake,
                  runner |-> poll[p].runner, run |-> poll[p].run, state |-> st]}
  BY DEF MintInsert
<1> DEFINE c == [nonce |-> poll[p].nonce, wake |-> poll[p].wake,
                 runner |-> poll[p].runner, run |-> poll[p].run, state |-> st]
<1>2. /\ creds' = creds \cup {c}
      /\ c.nonce = poll[p].nonce /\ c.wake = poll[p].wake /\ c.runner = poll[p].runner
  BY <1>0
<1> HIDE DEF c
<1>3. /\ poll'[p].pc = "answer" /\ poll'[p].wake = poll[p].wake
      /\ poll'[p].runner = poll[p].runner /\ poll'[p].nonce = poll[p].nonce
      /\ \A q \in Polls \ {p} : poll'[q] = poll[q]
  BY DEF MintInsert, TypeInv, TypeOK, PollState
<1>4. UNCHANGED <<wake, claims, runner, sessions, completing>>
  BY DEF MintInsert, rowVars, runnerVars, clientVars
<1>5. \A q \in Polls : /\ InFlight(q)' <=> InFlight(q)
                       /\ poll'[q].wake = poll[q].wake /\ poll'[q].runner = poll[q].runner
                       /\ poll'[q].nonce = poll[q].nonce
                       /\ Stands(poll[q])' <=> Stands(poll[q])
                       /\ Over(poll[q])' <=> Over(poll[q])
                       /\ poll'[q].pc \in {"insert", "answer"} <=> poll[q].pc \in {"insert", "answer"}
  BY <1>1, <1>3, <1>4 DEF InFlight, Stands, Over
<1>6. Stands(poll[p]) \/ Over(poll[p])
  BY <1>1 DEF FenceInv, RequestsStand
<1>8. ClaimNames'
  <2>1. \A s \in sessions : s.nonce # c.nonce
    BY <1>1, <1>2 DEF FenceInv, RequestNames
  <2> QED
    BY <1>1, <1>2, <1>4, <2>1 DEF FenceInv, ClaimNames
<1>9. RequestNames'
  <2>1. \A q \in Polls : InFlight(q) /\ c.nonce = poll[q].nonce => q = p
    BY <1>1, <1>2 DEF FenceInv, RequestNames
  <2> QED
    BY <1>2, <1>4, <1>5, <2>1 DEF FenceInv, RequestNames
<1>10. RequestsStand'
  BY <1>4, <1>5 DEF FenceInv, RequestsStand
<1>11. ASSUME NEW x, x.wake \in Wakes, HeldBy(wake[x.wake], x.runner, x.nonce), c.wake = x.wake
       PROVE  c.nonce = x.nonce \/ runner[c.runner] = "revoked"
  <2>1. CASE Stands(poll[p])
    BY <1>2, <1>11, <2>1 DEF Stands, HeldBy
  <2>2. CASE Over(poll[p])
    BY <1>2, <1>11, <2>2 DEF Over, HeldBy, Ended
  <2> QED
    BY <1>6, <2>1, <2>2
<1>12. OwnCreds'
  <2>1. ASSUME NEW q \in Polls, poll'[q].pc \in {"insert", "answer"}, Stands(poll[q])'
        PROVE  Alone(poll[q])'
    <3>1. Stands(poll[q]) /\ Alone(poll[q])
      BY <1>5, <2>1 DEF FenceInv, OwnCreds
    <3>2. poll[q].wake \in Wakes
      BY <1>5, <2>1, FenceTypes DEF InFlight
    <3>3. c.wake = poll[q].wake => c.nonce = poll[q].nonce \/ runner[c.runner] = "revoked"
      BY <1>11, <3>1, <3>2 DEF Stands
    <3> QED
      BY <1>2, <1>4, <1>5, <3>1, <3>3 DEF Alone
  <2>2. ASSUME NEW s \in sessions, Stands(s)'
        PROVE  Alone(s)'
    <3>1. Stands(s) /\ Alone(s) /\ s.wake \in Wakes
      BY <1>4, <2>2, FenceTypes DEF FenceInv, OwnCreds, Stands
    <3>2. c.wake = s.wake => c.nonce = s.nonce \/ runner[c.runner] = "revoked"
      BY <1>11, <3>1 DEF Stands
    <3> QED
      BY <1>2, <1>4, <3>1, <3>2 DEF Alone
  <2> QED
    BY <1>4, <2>1, <2>2 DEF OwnCreds
<1>13. LapsedCreds'
  <2>1. wake[c.wake].status = "claimed" /\ wake[c.wake].lease = "lapsed"
          => runner[c.runner] = "revoked"
    <3>1. CASE Stands(poll[p]) /\ wake[poll[p].wake].lease = "live"
      BY <1>2, <3>1
    <3>2. CASE Over(poll[p])
      BY <1>2, <3>2 DEF Over, Ended
    <3> QED
      BY <1>1, <3>1, <3>2 DEF FenceInv, RequestsStand
  <2> QED
    BY <1>2, <1>4, <2>1 DEF FenceInv, LapsedCreds, Spent
<1>14. SessionsFenced'
  <2> SUFFICES ASSUME NEW s \in sessions, s.phase = "running"
               PROVE  Stands(s)' \/ Over(s)' \/ \A d \in creds' : d.nonce = s.nonce => Spent(d)'
    BY <1>4 DEF SessionsFenced
  <2>1. s.nonce # c.nonce
    BY <1>1, <1>2 DEF FenceInv, RequestNames
  <2>2. Stands(s) \/ Over(s) \/ \A d \in creds : d.nonce = s.nonce => Spent(d)
    BY DEF FenceInv, SessionsFenced
  <2> QED
    BY <1>2, <1>4, <2>1, <2>2 DEF Stands, Over, Spent
<1> QED
  BY <1>8, <1>9, <1>10, <1>12, <1>13, <1>14 DEF FenceInv

\* The answer arrives, or not: the session is the request that made it.
LEMMA FenceHandOver ==
  ASSUME TypeInv, FenceInv, NEW p \in Polls, HandOver(p)
  PROVE  FenceInv'
<1>1. /\ poll[p].pc = "answer" /\ InFlight(p) /\ poll[p].wake \in Wakes
      /\ poll[p].runner \in Runners /\ poll[p].nonce \in 1..claims
  BY FenceTypes DEF HandOver, InFlight
<1>2. /\ poll'[p].pc = "idle" /\ RequestsGoOn
      /\ \A q \in Polls \ {p} : poll'[q] = poll[q]
  BY RequestDropped DEF HandOver, TypeInv, TypeOK
<1>3. UNCHANGED <<wake, claims, runner, creds, completing>>
  BY DEF HandOver, rowVars, runnerVars
<1>4. CASE sessions' = sessions
  BY <1>2, <1>3, <1>4, RowsUntouched, RunnersUntouched, FenceKept
<1>5. CASE sessions' # sessions
  <2>1. PICK t : /\ sessions' = sessions \cup {t} /\ t.phase = "running"
                 /\ t.nonce = poll[p].nonce /\ t.wake = poll[p].wake /\ t.runner = poll[p].runner
    BY <1>5 DEF HandOver
  <2>2. /\ \A s \in sessions : s.nonce # t.nonce
        /\ \A c \in completing : c.nonce # t.nonce
        /\ \A c \in creds : c.nonce = t.nonce => c.wake = t.wake /\ c.runner = t.runner
        /\ \A q \in Polls : InFlight(q) /\ poll[q].nonce = t.nonce => q = p
    BY <1>1, <2>1 DEF FenceInv, RequestNames
  <2>3. Stands(t) \/ Over(t)
    BY <1>1, <2>1 DEF FenceInv, RequestsStand, Stands, Over
  <2>4. Stands(t) => Alone(t)
    BY <1>1, <2>1 DEF FenceInv, OwnCreds, Stands, Alone
  <2>5. ClaimNames'
    BY <1>1, <1>3, <2>1, <2>2 DEF FenceInv, ClaimNames
  <2>6. \A q \in Polls : InFlight(q)' => q # p /\ InFlight(q) /\ poll'[q] = poll[q]
    BY <1>2 DEF InFlight
  <2>7. RequestNames'
    BY <1>3, <2>1, <2>2, <2>6 DEF FenceInv, RequestNames
  <2>8. RequestsStand'
    BY <1>3, <2>6 DEF FenceInv, RequestsStand, Stands, Over
  <2>9. OwnCreds'
    <3>1. ASSUME NEW q \in Polls, poll'[q].pc \in {"insert", "answer"}, Stands(poll[q])'
          PROVE  Alone(poll[q])'
      <4>1. poll'[q] = poll[q]
        BY <1>2, <3>1
      <4> QED
        BY <1>3, <3>1, <4>1 DEF FenceInv, OwnCreds, Stands, Alone
    <3>2. ASSUME NEW s \in sessions', Stands(s)'
          PROVE  Alone(s)'
      BY <1>3, <2>1, <2>4, <3>2 DEF FenceInv, OwnCreds, Stands, Alone
    <3> QED
      BY <3>1, <3>2 DEF OwnCreds
  <2>10. LapsedCreds'
    BY <1>3 DEF FenceInv, LapsedCreds, Spent
  <2>11. SessionsFenced'
    BY <1>3, <2>1, <2>3 DEF FenceInv, SessionsFenced, Stands, Over, Spent
  <2> QED
    BY <2>5, <2>7, <2>8, <2>9, <2>10, <2>11 DEF FenceInv
<1> QED
  BY <1>4, <1>5

LEMMA FenceClaim ==
  ASSUME TypeInv, FenceInv, Claim
  PROVE  FenceInv'
<1> PICK p \in Polls :
      \/ \E r \in Runners : PollRound(p, r)
      \/ \E w \in Wakes : ClaimOnce(p, w)
      \/ PollEmpty(p) \/ FailClaim(p) \/ MintRefused(p) \/ MintRevoke(p)
      \/ MintInsert(p) \/ HandOver(p)
  BY DEF Claim
<1>1. ASSUME NEW r \in Runners, PollRound(p, r)
      PROVE  FenceInv'
  <2>1. poll'[p].pc = "checked" /\ \A q \in Polls \ {p} : poll'[q] = poll[q]
    BY <1>1 DEF PollRound, IdlePoll, TypeInv, TypeOK
  <2>2. RequestsGoOn
    BY <2>1 DEF RequestsGoOn, InFlight
  <2> QED
    BY <1>1, <2>2, RowsUntouched, RunnersUntouched, FenceKept
    DEF PollRound, rowVars, runnerVars, clientVars
<1>2. CASE PollEmpty(p)
  BY <1>2, RequestDropped, RowsUntouched, RunnersUntouched, FenceKept
  DEF PollEmpty, rowVars, runnerVars, clientVars
<1> QED
  BY <1>1, <1>2, FenceClaimOnce, FenceFailClaim, FenceMintRefused, FenceMintRevoke,
     FenceMintInsert, FenceHandOver

\* A session keeps its name when it ends.
LEMMA FenceSessionEnds ==
  ASSUME TypeInv, FenceInv, NEW s \in sessions, NEW exit \in Exits, SessionEnds(s, exit)
  PROVE  FenceInv'
<1> DEFINE t == [s EXCEPT !.phase = exit]
<1>1. /\ sessions' = (sessions \ {s}) \cup {t}
      /\ UNCHANGED <<wake, claims, runner, poll, completing, creds>>
  BY DEF SessionEnds, rowVars, runnerVars, handlerVars
<1>2. t.nonce = s.nonce /\ t.wake = s.wake /\ t.runner = s.runner /\ t.phase # "running"
  BY ConstantsAssumption DEF TypeInv, TypeOK, SessionRec
<1> HIDE DEF t
<1>3. ClaimNames'
  BY <1>1, <1>2 DEF FenceInv, ClaimNames
<1>4. RequestNames'
  BY <1>1, <1>2 DEF FenceInv, RequestNames, InFlight
<1>5. RequestsStand' /\ LapsedCreds'
  BY <1>1 DEF FenceInv, RequestsStand, LapsedCreds, InFlight, Stands, Over, Spent
<1>6. OwnCreds'
  <2>1. \A p \in Polls : poll[p].pc \in {"insert", "answer"} /\ Stands(poll[p]) => Alone(poll[p])
    BY DEF FenceInv, OwnCreds
  <2>2. Stands(s) => Alone(s)
    BY DEF FenceInv, OwnCreds
  <2>3. HeldBy(wake[t.wake], t.runner, t.nonce)
          => \A c \in creds : c.wake = t.wake => c.nonce = t.nonce \/ runner[c.runner] = "revoked"
    BY <1>2, <2>2 DEF Stands, Alone
  <2> QED
    BY <1>1, <2>1, <2>3 DEF FenceInv, OwnCreds, Stands, Alone
<1>7. SessionsFenced'
  BY <1>1, <1>2 DEF FenceInv, SessionsFenced, Stands, Over, Spent
<1> QED
  BY <1>3, <1>4, <1>5, <1>6, <1>7 DEF FenceInv

\* Only the session that holds the wake can slide its credentials, and a
\* session that lost it has none there.
LEMMA FenceHeartbeat ==
  ASSUME TypeInv, FenceInv, NEW s \in sessions, Heartbeat(s)
  PROVE  FenceInv'
<1>1. /\ Stands(s) /\ s.wake \in Wakes
      /\ UNCHANGED <<claims, runner, poll, sessions, completing>>
  BY FenceTypes DEF Heartbeat, Stands, runnerVars, handlerVars, clientVars
<1>2. /\ wake'[s.wake].status = "claimed" /\ wake'[s.wake].lease = "live"
      /\ wake'[s.wake].holder = wake[s.wake].holder /\ wake'[s.wake].nonce = wake[s.wake].nonce
      /\ \A v \in Wakes \ {s.wake} : wake'[v] = wake[v]
  <2>1. wake' = [wake EXCEPT ![s.wake] = [wake[s.wake] EXCEPT !.lease = "live"]]
    BY DEF Heartbeat
  <2>2. wake[s.wake].status = "claimed"
    BY <1>1 DEF Stands, HeldBy
  <2> QED
    BY <1>1, <2>1, <2>2, RowTypes DEF TypeInv, TypeOK, Row
<1>3. \A d \in creds' : \E c \in creds :
        /\ d.nonce = c.nonce /\ d.wake = c.wake /\ d.runner = c.runner
        /\ c.wake # s.wake => d = c
  BY DEF Heartbeat, TypeInv, TypeOK, Cred
<1>4. \A x : x.wake \in Wakes => (Stands(x)' <=> Stands(x))
  <2>1. wake[s.wake].status = "claimed"
    BY <1>1 DEF Stands, HeldBy
  <2> SUFFICES ASSUME NEW x, x.wake \in Wakes
               PROVE  HeldBy(wake'[x.wake], x.runner, x.nonce) <=> HeldBy(wake[x.wake], x.runner, x.nonce)
    BY DEF Stands
  <2> QED
    BY <1>2, <2>1 DEF HeldBy
<1>5. \A w \in Wakes : wake'[w].status = wake[w].status
  BY <1>1, <1>2 DEF Stands, HeldBy
<1>6. \A p \in Polls : InFlight(p) => poll[p].wake \in Wakes
  BY FenceTypes
<1>7. \A t \in sessions : t.wake \in Wakes
  BY FenceTypes
<1>8. \A c \in creds : c.wake \in Wakes
  BY FenceTypes
<1>9. ClaimNames'
  BY <1>1, <1>3 DEF FenceInv, ClaimNames
<1>10. RequestNames'
  BY <1>1, <1>3 DEF FenceInv, RequestNames, InFlight
<1>11. RequestsStand'
  BY <1>1, <1>2, <1>5, <1>6 DEF FenceInv, RequestsStand, InFlight, Stands, HeldBy, Over
<1>12. OwnCreds'
  <2>1. ASSUME NEW p \in Polls, poll[p].pc \in {"insert", "answer"},
               HeldBy(wake'[poll[p].wake], poll[p].runner, poll[p].nonce)
        PROVE  \A d \in creds' : d.wake = poll[p].wake =>
                 d.nonce = poll[p].nonce \/ runner[d.runner] = "revoked"
    <3>1. Stands(poll[p])
      BY <1>1, <1>2, <1>6, <2>1 DEF InFlight, Stands, HeldBy
    <3> QED
      BY <1>3, <2>1, <3>1 DEF FenceInv, OwnCreds, Alone
  <2>2. ASSUME NEW t \in sessions, HeldBy(wake'[t.wake], t.runner, t.nonce)
        PROVE  \A d \in creds' : d.wake = t.wake =>
                 d.nonce = t.nonce \/ runner[d.runner] = "revoked"
    <3>1. Stands(t)
      BY <1>1, <1>2, <1>7, <2>2 DEF Stands, HeldBy
    <3> QED
      BY <1>3, <3>1 DEF FenceInv, OwnCreds, Alone
  <2> QED
    BY <1>1, <2>1, <2>2 DEF OwnCreds, Stands, Alone
<1>13. LapsedCreds'
  <2> SUFFICES ASSUME NEW d \in creds', wake'[d.wake].status = "claimed",
                      wake'[d.wake].lease = "lapsed"
               PROVE  d.state = "expired" \/ runner[d.runner] = "revoked"
    BY <1>1 DEF LapsedCreds, Spent
  <2>1. d.wake # s.wake
    BY <1>2
  <2>2. d \in creds
    BY <1>3, <2>1
  <2> QED
    BY <1>2, <1>8, <2>1, <2>2 DEF FenceInv, LapsedCreds, Spent
<1>14. SessionsFenced'
  <2> SUFFICES ASSUME NEW t \in sessions, t.phase = "running"
               PROVE  \/ HeldBy(wake'[t.wake], t.runner, t.nonce)
                      \/ wake'[t.wake].status \in Ended \/ runner[t.runner] = "revoked"
                      \/ \A d \in creds' : d.nonce = t.nonce => d.state = "expired" \/ runner[d.runner] = "revoked"
    BY <1>1 DEF SessionsFenced, Stands, Over, Spent
  <2>1. CASE Stands(t)
    BY <1>1, <1>2, <1>7, <2>1 DEF Stands, HeldBy
  <2>2. CASE Over(t)
    BY <1>5, <1>7, <2>2 DEF Over
  <2>3. CASE ~Stands(t) /\ \A c \in creds : c.nonce = t.nonce => Spent(c)
    <3> SUFFICES ASSUME NEW d \in creds', d.nonce = t.nonce
                 PROVE  d.state = "expired" \/ runner[d.runner] = "revoked"
      OBVIOUS
    <3>1. PICK c \in creds : /\ d.nonce = c.nonce /\ d.wake = c.wake /\ d.runner = c.runner
                             /\ c.wake # s.wake => d = c
      BY <1>3
    <3>2. CASE c.wake # s.wake
      BY <2>3, <3>1, <3>2 DEF Spent
    <3>3. CASE c.wake = s.wake
      <4>1. c.nonce = s.nonce \/ runner[c.runner] = "revoked"
        BY <1>1, <3>3 DEF FenceInv, OwnCreds, Alone
      <4>2. c.nonce # s.nonce
        BY <1>1, <2>3, <3>1 DEF FenceInv, ClaimNames
      <4> QED
        BY <3>1, <4>1, <4>2
    <3> QED
      BY <3>2, <3>3
  <2> QED
    BY <2>1, <2>2, <2>3 DEF FenceInv, SessionsFenced
<1> QED
  BY <1>9, <1>10, <1>11, <1>12, <1>13, <1>14 DEF FenceInv

\* A completion names a claim whose session ended.
LEMMA FenceCompleteRead ==
  ASSUME TypeInv, FenceInv, NEW s \in sessions, CompleteRead(s)
  PROVE  FenceInv'
<1>1. PICK out : completing' = completing \cup
        {[nonce |-> s.nonce, wake |-> s.wake, runner |-> s.runner, out |-> out]}
  BY DEF CompleteRead
<1>2. /\ UNCHANGED <<wake, claims, runner, poll, sessions, creds>>
      /\ s.phase # "running"
  BY ConstantsAssumption DEF CompleteRead, rowVars, runnerVars, clientVars
<1>3. \A c \in completing' : c \in completing \/ c.nonce = s.nonce
  BY <1>1
<1>4. ClaimNames'
  BY <1>2, <1>3 DEF FenceInv, ClaimNames
<1>5. RequestNames'
  BY <1>2, <1>3 DEF FenceInv, RequestNames, InFlight
<1>6. RequestsStand' /\ OwnCreds' /\ LapsedCreds' /\ SessionsFenced'
  BY <1>2
  DEF FenceInv, RequestsStand, OwnCreds, LapsedCreds, SessionsFenced, InFlight, Stands, Over,
      Alone, Spent
<1> QED
  BY <1>4, <1>5, <1>6 DEF FenceInv

\* It ends or requeues the claim of that session, and of no other.
LEMMA FenceCompleteFlip ==
  ASSUME TypeInv, FenceInv, NEW c \in completing, CompleteFlip(c)
  PROVE  FenceInv'
<1> DEFINE w == c.wake
<1>1. w \in Wakes /\ wake[w].status = "claimed" /\ wake[w].nonce = c.nonce
  BY FenceTypes DEF CompleteFlip, HeldBy
<1>2. /\ wake'[w] = Completed(wake[w], c.out)
      /\ \A v \in Wakes \ {w} : wake'[v] = wake[v]
  BY <1>1 DEF CompleteFlip, TypeInv, TypeOK
<1>3. wake'[w].status # "claimed"
  BY <1>1, <1>2, RowTypes DEF Completed, Row, TypeInv, TypeOK, Completing
<1>4. \A p \in Polls : InFlight(p) /\ poll[p].wake = w => ~Stands(poll[p])
  BY <1>1 DEF FenceInv, RequestNames, Stands, HeldBy
<1>5. \A s \in sessions : s.phase = "running" /\ s.wake = w => ~Stands(s)
  BY <1>1 DEF FenceInv, ClaimNames, Stands, HeldBy
<1>6. TakenBack(w)
  BY <1>1, <1>3, <1>4, <1>5 DEF TakenBack
<1>7. \A v \in Wakes \ {w} : HeldAsBefore(v)
  BY <1>2 DEF HeldAsBefore, HeldRow, Ended
<1>8. \A v \in Wakes : HeldAsBefore(v) \/ TakenBack(v)
  BY <1>6, <1>7
<1> QED
  BY <1>8, RequestsUntouched, RunnersUntouched, FenceKept DEF CompleteFlip

LEMMA FenceSession ==
  ASSUME TypeInv, FenceInv, Session
  PROVE  FenceInv'
<1>1. ASSUME NEW s \in sessions, Comment(s) \/ SessionGone(s)
      PROVE  FenceInv'
  BY <1>1, RowsUntouched, FenceQuiet
  DEF Comment, SessionGone, rowVars, runnerVars, handlerVars
<1>2. ASSUME NEW c \in completing, CompleteLost(c)
      PROVE  FenceInv'
  BY <1>2, RowsUntouched, FenceQuiet DEF CompleteLost, rowVars, runnerVars, clientVars
<1> QED
  BY <1>1, <1>2, FenceHeartbeat, FenceCompleteRead, FenceSessionEnds, FenceCompleteFlip
  DEF Session

LEMMA FenceFollowUps ==
  ASSUME TypeInv, FenceInv, FollowUps
  PROVE  FenceInv'
<1> PICK f \in after : AfterRevoke(f) \/ AfterStatus(f) \/ AfterRewake(f)
  BY DEF FollowUps
<1>1. CASE AfterRevoke(f) \/ AfterStatus(f)
  BY <1>1, RowsUntouched, FenceQuiet
  DEF AfterRevoke, AfterStatus, RevokedForWake, rowVars, runnerVars, clientVars
<1>2. CASE AfterRewake(f)
  BY <1>2, InsertOrMergeHeld, RowsUntouched, FenceQuiet DEF AfterRewake, runnerVars, clientVars
<1> QED
  BY <1>1, <1>2

\* A lease is reaped after it lapsed, and its credentials with it.
LEMMA FenceReap ==
  ASSUME TypeInv, FenceInv, ReapExpiredLeases
  PROVE  FenceInv'
<1>1. UNCHANGED <<claims, runner, poll, sessions, completing, creds>>
  BY DEF ReapExpiredLeases, runnerVars, clientVars
<1>2. ASSUME NEW w \in Wakes, w \notin Lapsed PROVE HeldAsBefore(w)
  BY <1>2 DEF ReapExpiredLeases, HeldAsBefore, HeldRow, Ended
<1>3. ASSUME NEW w \in Lapsed PROVE TakenBack(w)
  <2>1. w \in Wakes /\ wake[w].status = "claimed" /\ wake[w].lease = "lapsed"
    BY DEF Lapsed
  <2>2. wake'[w].status \in {"queued", "failed"}
    BY <2>1, RowTypes DEF ReapExpiredLeases, Reaped, Released, Row
  <2>3. ASSUME NEW p \in Polls, InFlight(p), poll[p].wake = w
        PROVE  runner'[poll[p].runner] = "revoked"
    BY <1>1, <2>1, <2>3 DEF FenceInv, RequestsStand, Over, Ended
  <2>4. ASSUME NEW s \in sessions, s.wake = w, NEW d \in creds, d.nonce = s.nonce
        PROVE  d.state = "expired" \/ runner'[d.runner] = "revoked"
    <3>1. d.wake = w
      BY <2>4 DEF FenceInv, ClaimNames
    <3> QED
      BY <1>1, <2>1, <3>1 DEF FenceInv, LapsedCreds, Spent
  <2> QED
    BY <2>1, <2>2, <2>3, <2>4 DEF TakenBack
<1> QED
  BY <1>1, <1>2, <1>3, RequestsUntouched, RunnersUntouched, FenceKept

LEMMA FenceEnded ==
  ASSUME TypeInv, NEW S, wake' = [w \in Wakes |-> IF w \in S THEN [wake[w] EXCEPT !.status = "canceled"]
                                                  ELSE wake[w]]
  PROVE  \A w \in Wakes : HeldAsBefore(w)
  BY RowTypes DEF HeldAsBefore, HeldRow, Row, Ended

\* Removing a Runner takes its claims back.
LEMMA FenceRevokeRunner ==
  ASSUME TypeInv, FenceInv, NEW r \in Runners, RevokeRunner(r)
  PROVE  FenceInv'
<1>1. /\ UNCHANGED <<claims, poll, sessions, completing>>
      /\ creds' \subseteq creds
  BY DEF RevokeRunner, RevokedForRunner, clientVars
<1>2. runner'[r] = "revoked" /\ RunnersGo
  BY DEF RevokeRunner, RunnersGo, TypeInv, TypeOK
<1>3. ASSUME NEW w \in Wakes PROVE HeldAsBefore(w) \/ TakenBack(w)
  <2>1. CASE wake[w].status = "claimed" /\ wake[w].holder = r
    <3>1. wake'[w].status = "queued"
      BY <2>1, RowTypes DEF RevokeRunner, Released, Row
    <3>2. \A x : x.wake = w /\ Stands(x) => x.runner = r
      BY <2>1 DEF Stands, HeldBy
    <3> QED
      BY <1>2, <2>1, <3>1, <3>2 DEF TakenBack
  <2>2. CASE ~(wake[w].status = "claimed" /\ wake[w].holder = r)
    <3>1. wake'[w] = wake[w]
      BY <2>2 DEF RevokeRunner
    <3> QED
      BY <3>1 DEF HeldAsBefore, HeldRow, Ended
  <2> QED
    BY <2>1, <2>2
<1> QED
  BY <1>1, <1>2, <1>3, RequestsUntouched, FenceKept

LEMMA FencePeople ==
  ASSUME TypeInv, FenceInv, People
  PROVE  FenceInv'
<1>1. ASSUME NEW u \in Runs, AdminCancelRun(u)
      PROVE  FenceInv'
  BY <1>1, RowsUntouched, FenceQuiet DEF AdminCancelRun, rowVars, runnerVars, clientVars
<1>2. ASSUME NEW u \in Runs, CancelForRun(u)
      PROVE  FenceInv'
  BY <1>2, FenceEnded, FenceQuiet DEF CancelForRun, runnerVars, clientVars
<1>3. ASSUME NEW r \in Runners, AssignCheck(r) \/ AssignUpsert(r)
      PROVE  FenceInv'
  BY <1>3, RowsUntouched, FenceQuiet DEF AssignCheck, AssignUpsert, rowVars, handlerVars, clientVars
<1>4. CASE Unassign \/ ToggleEligible
  BY <1>4, RowsUntouched, FenceQuiet DEF Unassign, ToggleEligible, rowVars, handlerVars, clientVars
<1> QED
  BY <1>1, <1>2, <1>3, <1>4, FenceRevokeRunner DEF People

\* A lease lapses after its claim was answered, and its credentials with it.
LEMMA FenceLapse ==
  ASSUME TypeInv, FenceInv, "stall" \notin Disruptions, NEW w \in Wakes, LeaseLapses(w)
  PROVE  FenceInv'
<1>1. /\ UNCHANGED <<claims, runner, poll, sessions, completing>>
      /\ wake[w].status = "claimed"
      /\ \A p \in Polls : poll[p].nonce # wake[w].nonce
  BY DEF LeaseLapses, runnerVars, handlerVars, clientVars
<1>2. /\ wake'[w].status = "claimed" /\ wake'[w].lease = "lapsed"
      /\ wake'[w].holder = wake[w].holder /\ wake'[w].nonce = wake[w].nonce
      /\ \A v \in Wakes \ {w} : wake'[v] = wake[v]
  <2>1. wake' = [wake EXCEPT ![w] = [wake[w] EXCEPT !.lease = "lapsed"]]
    BY DEF LeaseLapses
  <2> QED
    BY <1>1, <2>1, RowTypes DEF TypeInv, TypeOK, Row
<1>3. \A d \in creds' : \E c \in creds :
        /\ d.nonce = c.nonce /\ d.wake = c.wake /\ d.runner = c.runner
        /\ IF c.wake = w THEN d.state = "expired" ELSE d = c
        /\ c.state = "expired" => d.state = "expired"
  BY DEF LeaseLapses, TypeInv, TypeOK, Cred
<1>4. \A p \in Polls : InFlight(p) => poll[p].wake \in Wakes
  BY FenceTypes
<1>5. \A t \in sessions : t.wake \in Wakes
  BY FenceTypes
<1>6. \A c \in creds : c.wake \in Wakes
  BY FenceTypes
<1>7. ClaimNames'
  BY <1>1, <1>3 DEF FenceInv, ClaimNames
<1>8. RequestNames'
  BY <1>1, <1>3 DEF FenceInv, RequestNames, InFlight
<1>9. RequestsStand'
  <2> SUFFICES ASSUME NEW p \in Polls, InFlight(p)
               PROVE  \/ /\ HeldBy(wake'[poll[p].wake], poll[p].runner, poll[p].nonce)
                         /\ wake'[poll[p].wake].lease = "live"
                      \/ wake'[poll[p].wake].status \in Ended \/ runner[poll[p].runner] = "revoked"
    BY <1>1 DEF RequestsStand, InFlight, Stands, Over
  <2>1. CASE Stands(poll[p]) /\ wake[poll[p].wake].lease = "live"
    <3>1. poll[p].wake # w
      BY <1>1, <2>1 DEF Stands, HeldBy
    <3> QED
      BY <1>2, <1>4, <2>1, <3>1 DEF Stands
  <2>2. CASE Over(poll[p])
    BY <1>1, <1>2, <1>4, <2>2 DEF Over, Ended
  <2> QED
    BY <2>1, <2>2 DEF FenceInv, RequestsStand
<1>10. OwnCreds'
  <2>1. ASSUME NEW p \in Polls, poll[p].pc \in {"insert", "answer"},
               HeldBy(wake'[poll[p].wake], poll[p].runner, poll[p].nonce)
        PROVE  \A d \in creds' : d.wake = poll[p].wake =>
                 d.nonce = poll[p].nonce \/ runner[d.runner] = "revoked"
    <3>1. Stands(poll[p])
      BY <1>1, <1>2, <1>4, <2>1 DEF InFlight, Stands, HeldBy
    <3> QED
      BY <1>3, <2>1, <3>1 DEF FenceInv, OwnCreds, Alone
  <2>2. ASSUME NEW t \in sessions, HeldBy(wake'[t.wake], t.runner, t.nonce)
        PROVE  \A d \in creds' : d.wake = t.wake =>
                 d.nonce = t.nonce \/ runner[d.runner] = "revoked"
    <3>1. Stands(t)
      BY <1>1, <1>2, <1>5, <2>2 DEF Stands, HeldBy
    <3> QED
      BY <1>3, <3>1 DEF FenceInv, OwnCreds, Alone
  <2> QED
    BY <1>1, <2>1, <2>2 DEF OwnCreds, Stands, Alone
<1>11. LapsedCreds'
  <2> SUFFICES ASSUME NEW d \in creds', wake'[d.wake].status = "claimed",
                      wake'[d.wake].lease = "lapsed"
               PROVE  d.state = "expired" \/ runner[d.runner] = "revoked"
    BY <1>1 DEF LapsedCreds, Spent
  <2>1. PICK c \in creds :
          /\ d.nonce = c.nonce /\ d.wake = c.wake /\ d.runner = c.runner
          /\ IF c.wake = w THEN d.state = "expired" ELSE d = c
    BY <1>3
  <2>2. CASE c.wake = w
    BY <2>1, <2>2
  <2>3. CASE c.wake # w
    BY <1>2, <1>6, <2>1, <2>3 DEF FenceInv, LapsedCreds, Spent
  <2> QED
    BY <2>2, <2>3
<1>12. SessionsFenced'
  <2> SUFFICES ASSUME NEW t \in sessions, t.phase = "running"
               PROVE  \/ HeldBy(wake'[t.wake], t.runner, t.nonce)
                      \/ wake'[t.wake].status \in Ended \/ runner[t.runner] = "revoked"
                      \/ \A d \in creds' : d.nonce = t.nonce => d.state = "expired" \/ runner[d.runner] = "revoked"
    BY <1>1 DEF SessionsFenced, Stands, Over, Spent
  <2>1. CASE Stands(t)
    BY <1>1, <1>2, <1>5, <2>1 DEF Stands, HeldBy
  <2>2. CASE Over(t)
    BY <1>1, <1>2, <1>5, <2>2 DEF Over, Ended
  <2>3. CASE \A c \in creds : c.nonce = t.nonce => Spent(c)
    BY <1>3, <2>3 DEF Spent
  <2> QED
    BY <2>1, <2>2, <2>3 DEF FenceInv, SessionsFenced
<1> QED
  BY <1>7, <1>8, <1>9, <1>10, <1>11, <1>12 DEF FenceInv

LEMMA FenceTime ==
  ASSUME TypeInv, FenceInv, "stall" \notin Disruptions, Time
  PROVE  FenceInv'
<1>1. ASSUME NEW w \in Wakes, CeilingPasses(w) \/ HoldEnds(w) \/ Ages(w)
      PROVE  FenceInv'
  <2>1. PICK row \in {[wake[w] EXCEPT !.over = TRUE], [wake[w] EXCEPT !.held = FALSE],
                      [wake[w] EXCEPT !.aged = TRUE]} : wake' = [wake EXCEPT ![w] = row]
    BY <1>1 DEF CeilingPasses, HoldEnds, Ages
  <2>2. HeldRow(wake[w], row)
    BY <2>1, RowTypes DEF HeldRow, Row, Ended
  <2>3. \A v \in Wakes : HeldAsBefore(v)
    BY <2>1, <2>2, OneRowHeld
  <2> QED
    BY <1>1, <2>3, FenceQuiet DEF CeilingPasses, HoldEnds, Ages, runnerVars, handlerVars, clientVars
<1>2. ASSUME NEW r \in Runners, PauseEnds(r)
      PROVE  FenceInv'
  BY <1>2, RowsUntouched, FenceQuiet DEF PauseEnds, rowVars, handlerVars, clientVars
<1> QED
  BY <1>1, <1>2, FenceLapse DEF Time

LEMMA FenceDeaths ==
  ASSUME TypeInv, FenceInv, Deaths
  PROVE  FenceInv'
<1>1. ASSUME NEW p \in Polls, PollDies(p)
      PROVE  FenceInv'
  BY <1>1, RequestDropped, RowsUntouched, RunnersUntouched, FenceKept
  DEF PollDies, rowVars, runnerVars, clientVars
<1>2. ASSUME NEW w \in Wakes, CreatorDies(w)
      PROVE  FenceInv'
  BY <1>2, RowsUntouched, FenceQuiet DEF CreatorDies, rowVars, runnerVars, clientVars
<1>3. ASSUME NEW f \in after, FollowUpDies(f)
      PROVE  FenceInv'
  BY <1>3, RowsUntouched, FenceQuiet DEF FollowUpDies, rowVars, runnerVars, clientVars
<1>4. ASSUME NEW u \in canceling, CancelDies(u)
      PROVE  FenceInv'
  BY <1>4, RowsUntouched, FenceQuiet DEF CancelDies, rowVars, runnerVars, clientVars
<1> QED
  BY <1>1, <1>2, <1>3, <1>4 DEF Deaths

LEMMA NextFence ==
  ASSUME TypeInv, FenceInv, "stall" \notin Disruptions, [Next]_vars
  PROVE  FenceInv'
<1>1. CASE Sweep
  <2>1. CASE ExpireQueued
    BY <2>1, FenceEnded, FenceQuiet DEF ExpireQueued, runnerVars, clientVars
  <2> QED
    BY <1>1, <2>1, FenceReap DEF Sweep
<1>2. CASE UNCHANGED vars
  BY <1>2, RowsUntouched, FenceQuiet DEF vars
<1> QED
  BY <1>1, <1>2, FenceDispatch, FenceClaim, FenceSession, FenceFollowUps, FencePeople, FenceTime,
     FenceDeaths DEF Next

LEMMA InitFence == Init => FenceInv
<1> SUFFICES ASSUME Init PROVE FenceInv
  OBVIOUS
<1>1. /\ sessions = {} /\ creds = {} /\ completing = {}
      /\ \A p \in Polls : ~InFlight(p) /\ poll[p].pc = "idle"
  BY DEF Init, InFlight, IdlePoll
<1> QED
  BY <1>1
  DEF FenceInv, ClaimNames, RequestNames, RequestsStand, OwnCreds, LapsedCreds, SessionsFenced

LEMMA FenceSound ==
  ASSUME TypeInv, FenceInv
  PROVE  FenceHolds
<1> SUFFICES ASSUME NEW s \in sessions, NEW c \in creds,
                    s.phase = "running", c.nonce = s.nonce, Usable(c)
             PROVE  Stands(s)
  BY DEF FenceHolds, Stands
<1>1. c.wake = s.wake /\ c.runner = s.runner
  BY DEF FenceInv, ClaimNames
<1>2. ~Over(s) /\ ~Spent(c)
  BY <1>1 DEF Usable, Over, Spent, Ended
<1> QED
  BY <1>2 DEF FenceInv, SessionsFenced

\* A session whose credential still resolves is the one that holds the wake,
\* however leases lapse, rows are requeued and claimed again, people cancel and
\* remove, and handlers fail half way; provided a claim is answered before its
\* own lease runs out ("stall" is the exception: the credential inserted late is
\* then one that mint's revocation did not see).
THEOREM CredentialIsTheFence ==
  ASSUME "stall" \notin Disruptions
  PROVE  Spec => []FenceHolds
<1>1. Init => FenceInv
  BY InitFence
<1>2. TypeInv /\ FenceInv /\ [Next]_vars => FenceInv'
  BY NextFence
<1>3. TypeInv /\ FenceInv => FenceHolds
  BY FenceSound
<1> QED
  BY <1>1, <1>2, <1>3, TypeInvariant, PTL DEF Spec

-----------------------------------------------------------------------------
(* Rewakes: the step that ends a wake owes its repeat.                     *)

\* No handler is on its way to end a row without its rewake.
Undisturbed ==
  /\ canceling = {}
  /\ \A x \in Wakes \cup Polls : creator[x].pc \notin {"blocked", "undo"}
  /\ \A w \in Wakes : ~wake[w].aged

\* ... because nothing starts one: adminCancelRun, the seven days and a failing
\* dispatch are the three ways a row ends without afterTerminal.
Calmly == Disruptions \cap {"cancel", "age", "fail"} = {}

\* No row ends or ages.
NoneEnds ==
  \A w \in Wakes : /\ IsOpen(wake[w]) => IsOpen(wake'[w])
                   /\ wake'[w].aged => wake[w].aged

\* A step that ends an open row, in whatever way, owes the repeat it carries.
Rewakes ==
  \A w \in Wakes : wake[w].rewake /\ IsOpen(wake[w]) /\ ~IsOpen(wake'[w])
    => \E f \in after' : f.wake = w /\ "rewake" \in f.todo

\* No dispatch starts to take its row back.
DispatchesOn ==
  \A x \in Wakes \cup Polls :
    creator'[x].pc \notin {"blocked", "undo"} \/ creator'[x].pc = creator[x].pc

LEMMA QuietRewake ==
  ASSUME NoneEnds, Undisturbed, DispatchesOn, canceling' \subseteq canceling
  PROVE  Undisturbed' /\ Rewakes
  BY DEF NoneEnds, Undisturbed, DispatchesOn, Rewakes

LEMMA SameRows ==
  ASSUME wake' = wake
  PROVE  NoneEnds
  BY DEF NoneEnds

LEMMA SameDispatches ==
  ASSUME creator' = creator
  PROVE  DispatchesOn
  BY DEF DispatchesOn

LEMMA OneRowStays ==
  ASSUME TypeInv, NEW w \in Wakes, NEW row, wake' = [wake EXCEPT ![w] = row],
         IsOpen(wake[w]) => IsOpen(row), row.aged => wake[w].aged
  PROVE  NoneEnds
<1>1. wake'[w] = row /\ \A v \in Wakes \ {w} : wake'[v] = wake[v]
  BY DEF TypeInv, TypeOK
<1> QED
  BY <1>1 DEF NoneEnds

LEMMA InsertOrMergeRewake ==
  ASSUME TypeInv, NEW rec, NEW kind, InsertOrMerge(rec, kind)
  PROVE  NoneEnds /\ DispatchesOn
<1>1. CASE \E w \in Wakes : /\ wake[w].status = "absent"
                            /\ wake' = [wake EXCEPT ![w] = NewRow(rec)]
                            /\ creator' = [creator EXCEPT ![w] = Creating(w, kind)]
  <2>1. PICK w \in Wakes : /\ wake[w].status = "absent"
                           /\ wake' = [wake EXCEPT ![w] = NewRow(rec)]
                           /\ creator' = [creator EXCEPT ![w] = Creating(w, kind)]
    BY <1>1
  <2>2. NoneEnds
    BY <2>1, OneRowStays DEF NewRow, IsOpen
  <2>3. DispatchesOn
    BY <2>1 DEF DispatchesOn, Creating, TypeInv, TypeOK
  <2> QED
    BY <2>2, <2>3
<1>2. CASE \E w \in OpenFor(rec) : /\ wake' = [wake EXCEPT ![w].rewake = @ \/ wake[w].status = "claimed"]
                                   /\ UNCHANGED creator
  <2>1. PICK w \in Wakes : wake' = [wake EXCEPT ![w] =
                             [wake[w] EXCEPT !.rewake = @ \/ wake[w].status = "claimed"]]
    BY <1>2 DEF OpenFor
  <2>2. NoneEnds
    <3> DEFINE row == [wake[w] EXCEPT !.rewake = @ \/ wake[w].status = "claimed"]
    <3>1. row.status = wake[w].status /\ row.aged = wake[w].aged
      BY RowTypes DEF Row
    <3> HIDE DEF row
    <3>2. wake' = [wake EXCEPT ![w] = row]
      BY <2>1 DEF row
    <3> QED
      BY <3>1, <3>2, OneRowStays DEF IsOpen
  <2> QED
    BY <1>2, <2>2, SameDispatches
<1> QED
  BY <1>1, <1>2 DEF InsertOrMerge

LEMMA DispatchRewake ==
  ASSUME TypeInv, Undisturbed, Calmly, Dispatch
  PROVE  Undisturbed' /\ Rewakes
<1>1. ASSUME NEW rec \in Records, NEW kind \in Kinds, Enqueue(rec, kind)
      PROVE  Undisturbed' /\ Rewakes
  BY <1>1, InsertOrMergeRewake, QuietRewake DEF Enqueue
<1>2. ASSUME NEW x \in Wakes \cup Polls, CreateRun(x)
      PROVE  Undisturbed' /\ Rewakes
  <2>1. creator'[x].pc = "attach" /\ \A y \in Wakes \cup Polls : y # x => creator'[y] = creator[y]
    <3>1. PICK u \in Runs : creator' = [creator EXCEPT ![x].pc = "attach", ![x].run = u]
      BY <1>2 DEF CreateRun, Calmly
    <3> QED
      BY <3>1 DEF TypeInv, TypeOK, Creator
  <2>2. DispatchesOn
    BY <2>1 DEF DispatchesOn
  <2> QED
    BY <1>2, <2>2, SameRows, QuietRewake DEF CreateRun, rowVars
<1>3. ASSUME NEW x \in Wakes \cup Polls
      PROVE  ~BlockedRun(x) /\ ~DispatchFails(x) /\ ~CreateRunFails(x)
  BY DEF BlockedRun, DispatchFails, CreateRunFails, Undisturbed, Calmly
<1>4. ASSUME NEW w \in Wakes
      PROVE  ~UndoEnqueue(w)
  BY DEF UndoEnqueue, Undisturbed
<1>5. ASSUME NEW x \in Wakes \cup Polls, creator[x].pc # "none",
             wake' = [wake EXCEPT ![creator[x].wake].run = creator[x].run]
      PROVE  NoneEnds
  <2>1. creator[x].wake \in Wakes
    BY <1>5 DEF TypeInv, CreatorsInFlight
  <2>2. wake' = [wake EXCEPT ![creator[x].wake] = [wake[creator[x].wake] EXCEPT !.run = creator[x].run]]
    BY <1>5
  <2> QED
    BY <2>1, <2>2, OneRowStays, RowTypes DEF Row, IsOpen
<1>6. ASSUME NEW x \in Wakes \cup Polls, AttachRun(x)
      PROVE  Undisturbed' /\ Rewakes
  <2>1. NoneEnds
    BY <1>5, <1>6 DEF AttachRun
  <2>2. DispatchesOn
    BY <1>6 DEF AttachRun, DispatchesOn, TypeInv, TypeOK, Creator
  <2> QED
    BY <1>6, <2>1, <2>2, QuietRewake DEF AttachRun
<1>7. ASSUME NEW x \in Wakes \cup Polls, ReattachRun(x)
      PROVE  Undisturbed' /\ Rewakes
  <2>1. NoneEnds
    BY <1>5, <1>7 DEF ReattachRun
  <2>2. DispatchesOn
    BY <1>7 DEF ReattachRun, DispatchesOn, NoCreator, TypeInv, TypeOK
  <2> QED
    BY <1>7, <2>1, <2>2, QuietRewake DEF ReattachRun
<1>8. ASSUME NEW x \in Wakes \cup Polls, DispatchDone(x)
      PROVE  Undisturbed' /\ Rewakes
  <2>1. DispatchesOn
    BY <1>8 DEF DispatchDone, Dispatched, DispatchesOn, NoCreator, TypeInv, TypeOK, Creator
  <2> QED
    BY <1>8, <2>1, SameRows, QuietRewake DEF DispatchDone, rowVars
<1> QED
  BY <1>1, <1>2, <1>3, <1>4, <1>6, <1>7, <1>8 DEF Dispatch

LEMMA ClaimRewake ==
  ASSUME TypeInv, Undisturbed, Calmly, Claim
  PROVE  Undisturbed' /\ Rewakes
<1> PICK p \in Polls :
      \/ \E r \in Runners : PollRound(p, r)
      \/ \E w \in Wakes : ClaimOnce(p, w)
      \/ PollEmpty(p) \/ FailClaim(p) \/ MintRefused(p) \/ MintRevoke(p)
      \/ MintInsert(p) \/ HandOver(p)
  BY DEF Claim
<1>1. CASE \/ \E r \in Runners : PollRound(p, r)
           \/ PollEmpty(p) \/ MintRevoke(p) \/ MintInsert(p) \/ HandOver(p)
  BY <1>1, SameRows, SameDispatches, QuietRewake
  DEF PollRound, PollEmpty, MintRevoke, MintInsert, HandOver, rowVars
<1>2. ~FailClaim(p)
  BY DEF FailClaim, Undisturbed, Calmly
<1>3. ASSUME NEW w \in Wakes, ClaimOnce(p, w)
      PROVE  Undisturbed' /\ Rewakes
  <2> DEFINE row == Claimed(wake[w], poll[p].runner, claims + 1)
  <2>1. IsOpen(row) /\ row.aged = wake[w].aged
    BY RowTypes DEF Claimed, IsOpen, Row
  <2>2. wake' = [wake EXCEPT ![w] = row]
    BY <1>3 DEF ClaimOnce
  <2> HIDE DEF row
  <2>3. NoneEnds
    BY <2>1, <2>2, OneRowStays
  <2>4. DispatchesOn
    BY <1>3 DEF ClaimOnce, Creating, DispatchesOn, TypeInv, TypeOK
  <2> QED
    BY <1>3, <2>3, <2>4, QuietRewake DEF ClaimOnce
<1>4. CASE MintRefused(p)
  <2>1. poll[p].wake \in Wakes
    BY <1>4 DEF MintRefused, TypeInv, PollsInFlight
  <2>2. PICK row \in {Released(wake[poll[p].wake]), wake[poll[p].wake]} :
          wake' = [wake EXCEPT ![poll[p].wake] = row]
    BY <1>4 DEF MintRefused
  <2>3. IsOpen(wake[poll[p].wake]) => IsOpen(row)
    BY <2>1, <2>2, RowTypes DEF Released, IsOpen, Row
  <2>4. row.aged = wake[poll[p].wake].aged
    BY <2>1, <2>2, RowTypes DEF Released, Row
  <2>5. NoneEnds
    BY <2>1, <2>2, <2>3, <2>4, OneRowStays
  <2> QED
    BY <1>4, <2>5, SameDispatches, QuietRewake DEF MintRefused
<1> QED
  BY <1>1, <1>2, <1>3, <1>4

\* A completion that ends the wake owes its rewake.
LEMMA CompleteFlipOwes ==
  ASSUME TypeInv, NEW c \in completing, CompleteFlip(c)
  PROVE  /\ c.wake \in Wakes
         /\ wake'[c.wake] = Completed(wake[c.wake], c.out)
         /\ \A v \in Wakes \ {c.wake} : wake'[v] = wake[v]
         /\ wake[c.wake].rewake /\ ~IsOpen(wake'[c.wake]) =>
              \E f \in after' : f.wake = c.wake /\ "rewake" \in f.todo
<1>1. c.wake \in Wakes /\ c.out \in {"limit", "rewoken", "done", "failed", "canceled"}
  BY DEF TypeInv, TypeOK, Completing
<1>2. /\ wake'[c.wake] = Completed(wake[c.wake], c.out)
      /\ \A v \in Wakes \ {c.wake} : wake'[v] = wake[v]
  BY <1>1 DEF CompleteFlip, TypeInv, TypeOK
<1>3. ASSUME wake[c.wake].rewake, ~IsOpen(wake'[c.wake])
      PROVE  \E f \in after' : f.wake = c.wake /\ "rewake" \in f.todo
  <2> DEFINE f == FollowUp(c.wake, wake[c.wake], CompletedRun(c.out), {"revoke", "status", "rewake"})
  <2>1. c.out \notin {"limit", "rewoken"}
    BY <1>1, <1>2, <1>3, RowTypes DEF Completed, IsOpen, Row
  <2>2. f.wake = c.wake /\ f.todo = {"revoke", "status", "rewake"}
    BY <1>3 DEF FollowUp
  <2>3. f \in after'
    BY <2>1, <2>2 DEF CompleteFlip, Owe
  <2> QED
    BY <2>2, <2>3
<1> QED
  BY <1>1, <1>2, <1>3

LEMMA CompleteFlipRewake ==
  ASSUME TypeInv, Undisturbed, NEW c \in completing, CompleteFlip(c)
  PROVE  Undisturbed' /\ Rewakes
<1>1. ASSUME NEW w \in Wakes
      PROVE  wake'[w].aged = wake[w].aged
  <2>1. CASE w = c.wake
    BY <2>1, CompleteFlipOwes, RowTypes DEF Completed, Row
  <2>2. CASE w # c.wake
    BY <2>2, CompleteFlipOwes
  <2> QED
    BY <2>1, <2>2
<1>2. Undisturbed'
  BY <1>1 DEF Undisturbed, CompleteFlip
<1>3. Rewakes
  BY CompleteFlipOwes DEF Rewakes
<1> QED
  BY <1>2, <1>3

LEMMA SessionRewake ==
  ASSUME TypeInv, Undisturbed, Session
  PROVE  Undisturbed' /\ Rewakes
<1>1. ASSUME NEW s \in sessions,
             Comment(s) \/ SessionGone(s) \/ CompleteRead(s) \/ \E exit \in Exits : SessionEnds(s, exit)
      PROVE  Undisturbed' /\ Rewakes
  BY <1>1, SameRows, SameDispatches, QuietRewake
  DEF Comment, SessionGone, CompleteRead, SessionEnds, rowVars, handlerVars
<1>2. ASSUME NEW s \in sessions, Heartbeat(s)
      PROVE  Undisturbed' /\ Rewakes
  <2>1. s.wake \in Wakes
    BY DEF TypeInv, TypeOK, SessionRec
  <2>2. wake' = [wake EXCEPT ![s.wake] = [wake[s.wake] EXCEPT !.lease = "live"]]
    BY <1>2 DEF Heartbeat
  <2>3. NoneEnds
    BY <2>1, <2>2, OneRowStays, RowTypes DEF Row, IsOpen
  <2> QED
    BY <1>2, <2>3, SameDispatches, QuietRewake DEF Heartbeat, handlerVars
<1>3. ASSUME NEW c \in completing, CompleteLost(c)
      PROVE  Undisturbed' /\ Rewakes
  BY <1>3, SameRows, SameDispatches, QuietRewake DEF CompleteLost, rowVars
<1> QED
  BY <1>1, <1>2, <1>3, CompleteFlipRewake DEF Session

\* Three lost leases end a wake, and owe its rewake.
LEMMA ReapOwes ==
  ASSUME TypeInv, ReapExpiredLeases, NEW w \in Wakes,
         wake[w].rewake, IsOpen(wake[w]), ~IsOpen(wake'[w])
  PROVE  \E f \in after' : f.wake = w /\ "rewake" \in f.todo
<1> DEFINE f == FollowUp(w, wake[w], "Failed", {"revoke", "status", "rewake"})
<1>1. w \in Lapsed /\ wake'[w] = Reaped(wake[w])
  BY DEF ReapExpiredLeases
<1>2. Reaped(wake[w]).status = "failed"
  BY <1>1, RowTypes DEF Reaped, Released, Row, IsOpen
<1>3. f.wake = w /\ f.todo = {"revoke", "status", "rewake"}
  BY DEF FollowUp
<1>4. f \in {IF Reaped(wake[v]).status = "failed"
             THEN FollowUp(v, wake[v], "Failed", {"revoke", "status", "rewake"})
             ELSE FollowUp(v, wake[v], "Queued", {"revoke", "status"}) : v \in Lapsed}
  BY <1>1, <1>2
<1>5. f \in after'
  BY <1>3, <1>4 DEF ReapExpiredLeases, Owe
<1> QED
  BY <1>3, <1>5

LEMMA ReapRewake ==
  ASSUME TypeInv, Undisturbed, ReapExpiredLeases
  PROVE  Undisturbed' /\ Rewakes
<1>1. ASSUME NEW w \in Wakes
      PROVE  wake'[w].aged = wake[w].aged
  BY RowTypes DEF ReapExpiredLeases, Reaped, Released, Row
<1>2. Undisturbed'
  BY <1>1 DEF Undisturbed, ReapExpiredLeases
<1> QED
  BY <1>2, ReapOwes DEF Rewakes

LEMMA PeopleRewake ==
  ASSUME TypeInv, Undisturbed, Calmly, People
  PROVE  Undisturbed' /\ Rewakes
<1>1. ASSUME NEW u \in Runs PROVE ~AdminCancelRun(u) /\ ~CancelForRun(u)
  BY DEF AdminCancelRun, CancelForRun, Undisturbed, Calmly
<1>2. ASSUME NEW r \in Runners, RevokeRunner(r)
      PROVE  Undisturbed' /\ Rewakes
  <2>1. NoneEnds
    BY <1>2, RowTypes DEF RevokeRunner, NoneEnds, Released, Row, IsOpen
  <2> QED
    BY <1>2, <2>1, SameDispatches, QuietRewake DEF RevokeRunner
<1>3. CASE \/ \E r \in Runners : AssignCheck(r) \/ AssignUpsert(r)
           \/ Unassign \/ ToggleEligible
  BY <1>3, SameRows, SameDispatches, QuietRewake
  DEF AssignCheck, AssignUpsert, Unassign, ToggleEligible, rowVars, handlerVars
<1> QED
  BY <1>1, <1>2, <1>3 DEF People

LEMMA TimeRewake ==
  ASSUME TypeInv, Undisturbed, Calmly, Time
  PROVE  Undisturbed' /\ Rewakes
<1>1. ASSUME NEW w \in Wakes, LeaseLapses(w) \/ CeilingPasses(w) \/ HoldEnds(w)
      PROVE  Undisturbed' /\ Rewakes
  <2>1. PICK row \in {[wake[w] EXCEPT !.lease = "lapsed"], [wake[w] EXCEPT !.over = TRUE],
                      [wake[w] EXCEPT !.held = FALSE]} : wake' = [wake EXCEPT ![w] = row]
    BY <1>1 DEF LeaseLapses, CeilingPasses, HoldEnds
  <2>2. row.status = wake[w].status /\ row.aged = wake[w].aged
    BY <2>1, RowTypes DEF Row
  <2>3. NoneEnds
    BY <2>1, <2>2, OneRowStays DEF IsOpen
  <2> QED
    BY <1>1, <2>3, SameDispatches, QuietRewake DEF LeaseLapses, CeilingPasses, HoldEnds, handlerVars
<1>2. ASSUME NEW w \in Wakes PROVE ~Ages(w)
  BY DEF Ages, Calmly
<1>3. ASSUME NEW r \in Runners, PauseEnds(r)
      PROVE  Undisturbed' /\ Rewakes
  BY <1>3, SameRows, SameDispatches, QuietRewake DEF PauseEnds, rowVars, handlerVars
<1> QED
  BY <1>1, <1>2, <1>3 DEF Time

LEMMA DeathsRewake ==
  ASSUME TypeInv, Undisturbed, Deaths
  PROVE  Undisturbed' /\ Rewakes
<1>1. ASSUME NEW p \in Polls, PollDies(p)
      PROVE  Undisturbed' /\ Rewakes
  <2>1. DispatchesOn
    BY <1>1 DEF PollDies, DispatchesOn, NoCreator, TypeInv, TypeOK
  <2> QED
    BY <1>1, <2>1, SameRows, QuietRewake DEF PollDies, rowVars
<1>2. ASSUME NEW w \in Wakes, CreatorDies(w)
      PROVE  Undisturbed' /\ Rewakes
  <2>1. DispatchesOn
    BY <1>2 DEF CreatorDies, DispatchesOn, NoCreator, TypeInv, TypeOK
  <2> QED
    BY <1>2, <2>1, SameRows, QuietRewake DEF CreatorDies, rowVars
<1>3. ASSUME NEW f \in after, FollowUpDies(f)
      PROVE  Undisturbed' /\ Rewakes
  BY <1>3, SameRows, SameDispatches, QuietRewake DEF FollowUpDies, rowVars
<1>4. ASSUME NEW u \in canceling, CancelDies(u)
      PROVE  Undisturbed' /\ Rewakes
  BY <1>4, SameRows, SameDispatches, QuietRewake DEF CancelDies, rowVars
<1> QED
  BY <1>1, <1>2, <1>3, <1>4 DEF Deaths

LEMMA NextRewake ==
  ASSUME TypeInv, Undisturbed, Calmly, [Next]_vars
  PROVE  Undisturbed' /\ Rewakes
<1>1. CASE FollowUps
  <2> PICK f \in after : AfterRevoke(f) \/ AfterStatus(f) \/ AfterRewake(f)
    BY <1>1 DEF FollowUps
  <2>1. CASE AfterRevoke(f) \/ AfterStatus(f)
    BY <2>1, SameRows, SameDispatches, QuietRewake DEF AfterRevoke, AfterStatus, rowVars
  <2>2. CASE AfterRewake(f)
    <3>1. NoneEnds /\ DispatchesOn
      BY <2>2, InsertOrMergeRewake, SameRows, SameDispatches DEF AfterRewake
    <3> QED
      BY <2>2, <3>1, QuietRewake DEF AfterRewake
  <2> QED
    BY <2>1, <2>2
<1>2. ~ExpireQueued
  BY DEF ExpireQueued, Expired, Undisturbed
<1>3. CASE UNCHANGED vars
  BY <1>3, SameRows, SameDispatches, QuietRewake DEF vars
<1> QED
  BY <1>1, <1>2, <1>3, DispatchRewake, ClaimRewake, SessionRewake, ReapRewake, PeopleRewake,
     TimeRewake, DeathsRewake DEF Next, Sweep

LEMMA InitUndisturbed == Init => Undisturbed
  BY DEF Init, Undisturbed, NoCreator, NewRow

EveryEndOwes ==
  [][\A w \in Wakes :
       wake[w].rewake /\ IsOpen(wake[w]) /\ ~IsOpen(wake'[w])
         => \E f \in after' : f.wake = w /\ "rewake" \in f.todo]_vars

\* As long as no Run is canceled, no queued wake ages out and no dispatch fails,
\* every step that ends a wake owes the repeat that landed while it was
\* claimed, however leases lapse, Runners are removed and processes die.
THEOREM RewakeIsOwed ==
  ASSUME Disruptions \cap {"cancel", "age", "fail"} = {}
  PROVE  Spec => EveryEndOwes
<1>1. Init => Undisturbed
  BY InitUndisturbed
<1>2. TypeInv /\ Undisturbed /\ [Next]_vars => Undisturbed'
  BY NextRewake DEF Calmly
<1>3. TypeInv /\ Undisturbed /\ [Next]_vars =>
        [\A w \in Wakes :
           wake[w].rewake /\ IsOpen(wake[w]) /\ ~IsOpen(wake'[w])
             => \E f \in after' : f.wake = w /\ "rewake" \in f.todo]_vars
  BY NextRewake DEF Calmly, Rewakes
<1> QED
  BY <1>1, <1>2, <1>3, TypeInvariant, PTL DEF Spec, EveryEndOwes

\* The row was not finished by the step.
NotFinished(old, new) == ~(old.status = "claimed" /\ new.status \in {"done", "failed"})

NoneFinishes == \A w \in Wakes : NotFinished(wake[w], wake'[w])

\* The step of FinishedOwesRewake.
FinishOwed ==
  \A w \in Wakes :
    wake[w].rewake /\ wake[w].status = "claimed" /\ wake'[w].status \in {"done", "failed"}
      => \E f \in after' : f.wake = w /\ "rewake" \in f.todo

LEMMA NoneFinishesOwes ==
  ASSUME NoneFinishes
  PROVE  FinishOwed
  BY DEF NoneFinishes, NotFinished, FinishOwed

LEMMA OneRowUnfinished ==
  ASSUME TypeInv, NEW w \in Wakes, NEW row, wake' = [wake EXCEPT ![w] = row],
         NotFinished(wake[w], row)
  PROVE  NoneFinishes
<1>1. wake'[w] = row /\ \A v \in Wakes \ {w} : wake'[v] = wake[v]
  BY DEF TypeInv, TypeOK
<1> QED
  BY <1>1 DEF NoneFinishes, NotFinished

LEMMA UnfinishedRows ==
  ASSUME TypeInv, NEW w \in Wakes
  PROVE  /\ NotFinished(wake[w], wake[w])
         /\ NotFinished(wake[w], Unstarted(wake[w]))
         /\ NotFinished(wake[w], Released(wake[w]))
         /\ \A u : NotFinished(wake[w], [wake[w] EXCEPT !.run = u])
         /\ \A b : NotFinished(wake[w], [wake[w] EXCEPT !.rewake = b])
         /\ \A b : NotFinished(wake[w], [wake[w] EXCEPT !.lease = b])
         /\ NotFinished(wake[w], [wake[w] EXCEPT !.status = "canceled"])
  BY RowTypes DEF NotFinished, Unstarted, Released, Row

LEMMA SameUnfinished ==
  ASSUME wake' = wake
  PROVE  NoneFinishes
  BY DEF NoneFinishes, NotFinished

LEMMA InsertOrMergeUnfinished ==
  ASSUME TypeInv, NEW rec, NEW kind, InsertOrMerge(rec, kind)
  PROVE  NoneFinishes
<1>1. CASE \E w \in Wakes : wake[w].status = "absent" /\ wake' = [wake EXCEPT ![w] = NewRow(rec)]
  BY <1>1, OneRowUnfinished DEF NotFinished
<1>2. CASE \E w \in OpenFor(rec) : wake' = [wake EXCEPT ![w].rewake = @ \/ wake[w].status = "claimed"]
  <2>1. PICK w \in Wakes : wake' = [wake EXCEPT ![w] =
                             [wake[w] EXCEPT !.rewake = @ \/ wake[w].status = "claimed"]]
    BY <1>2 DEF OpenFor
  <2> QED
    BY <2>1, OneRowUnfinished, UnfinishedRows
<1> QED
  BY <1>1, <1>2 DEF InsertOrMerge

LEMMA DispatchUnfinished ==
  ASSUME TypeInv, Dispatch
  PROVE  NoneFinishes
<1>1. ASSUME NEW rec \in Records, NEW kind \in Kinds, Enqueue(rec, kind)
      PROVE  NoneFinishes
  BY <1>1, InsertOrMergeUnfinished DEF Enqueue
<1>2. ASSUME NEW x \in Wakes \cup Polls, CreateRun(x) \/ DispatchDone(x)
      PROVE  NoneFinishes
  BY <1>2, SameUnfinished DEF CreateRun, DispatchDone, rowVars
<1>3. ASSUME NEW x \in Wakes \cup Polls,
             \/ BlockedRun(x) \/ DispatchFails(x) \/ CreateRunFails(x)
             \/ AttachRun(x) \/ ReattachRun(x)
      PROVE  NoneFinishes
  <2> DEFINE w == creator[x].wake
  <2>1. w \in Wakes
    BY <1>3 DEF BlockedRun, DispatchFails, CreateRunFails, AttachRun, ReattachRun, TypeInv,
                CreatorsInFlight
  <2>2. \/ wake' = [wake EXCEPT ![w] = Unstarted(wake[w])] \/ wake' = wake
        \/ wake' = [wake EXCEPT ![w] = [wake[w] EXCEPT !.run = creator[x].run]]
    BY <1>3 DEF BlockedRun, DispatchFails, CreateRunFails, AttachRun, ReattachRun
  <2> HIDE DEF w
  <2> QED
    BY <2>1, <2>2, SameUnfinished, OneRowUnfinished, UnfinishedRows
<1>4. ASSUME NEW w \in Wakes, UndoEnqueue(w)
      PROVE  NoneFinishes
  <2>1. wake' = [wake EXCEPT ![w] = [wake[w] EXCEPT !.status = "canceled"]]
    BY <1>4 DEF UndoEnqueue
  <2> QED
    BY <2>1, OneRowUnfinished, UnfinishedRows
<1> QED
  BY <1>1, <1>2, <1>3, <1>4 DEF Dispatch

\* The claim that cannot be served owes the rewake of the row it fails.
LEMMA FailClaimOwes ==
  ASSUME TypeInv, NEW p \in Polls, FailClaim(p)
  PROVE  FinishOwed
<1> DEFINE w == poll[p].wake
<1>1. w \in Wakes
  BY DEF FailClaim, TypeInv, PollsInFlight
<1>2. CASE wake' = wake
  BY <1>2, SameUnfinished, NoneFinishesOwes
<1>3. CASE wake' # wake
  <2>1. PICK todo \in {{"rewake"}, {"status", "rewake"}} :
          after' = after \cup {f \in {FollowUp(w, wake[w], "Failed", todo)} : f.todo # {}}
    BY <1>3 DEF FailClaim, Owe
  <2>2. \A v \in Wakes \ {w} : wake'[v] = wake[v]
    BY <1>1, <1>3 DEF FailClaim, TypeInv, TypeOK
  <2>3. ASSUME wake[w].rewake
        PROVE  \E f \in after' : f.wake = w /\ "rewake" \in f.todo
    <3> DEFINE f == FollowUp(w, wake[w], "Failed", todo)
    <3>1. f.wake = w /\ f.todo = todo
      BY <2>3 DEF FollowUp
    <3> HIDE DEF f
    <3>2. f \in after'
      BY <2>1, <3>1 DEF f
    <3> QED
      BY <2>1, <3>1, <3>2
  <2> QED
    BY <2>2, <2>3 DEF FinishOwed
<1> QED
  BY <1>2, <1>3

LEMMA ClaimFinishes ==
  ASSUME TypeInv, Claim
  PROVE  FinishOwed
<1> PICK p \in Polls :
      \/ \E r \in Runners : PollRound(p, r)
      \/ \E w \in Wakes : ClaimOnce(p, w)
      \/ PollEmpty(p) \/ FailClaim(p) \/ MintRefused(p) \/ MintRevoke(p)
      \/ MintInsert(p) \/ HandOver(p)
  BY DEF Claim
<1>1. CASE \/ \E r \in Runners : PollRound(p, r)
           \/ PollEmpty(p) \/ MintRevoke(p) \/ MintInsert(p) \/ HandOver(p)
  BY <1>1, SameUnfinished, NoneFinishesOwes
  DEF PollRound, PollEmpty, MintRevoke, MintInsert, HandOver, rowVars
<1>2. ASSUME NEW w \in Wakes, ClaimOnce(p, w)
      PROVE  FinishOwed
  <2>1. wake' = [wake EXCEPT ![w] = Claimed(wake[w], poll[p].runner, claims + 1)]
    BY <1>2 DEF ClaimOnce
  <2>2. NotFinished(wake[w], Claimed(wake[w], poll[p].runner, claims + 1))
    BY <1>2 DEF ClaimOnce, Claimable, NotFinished
  <2> QED
    BY <2>1, <2>2, OneRowUnfinished, NoneFinishesOwes
<1>3. CASE MintRefused(p)
  <2>1. poll[p].wake \in Wakes
    BY <1>3 DEF MintRefused, TypeInv, PollsInFlight
  <2>2. PICK row \in {Released(wake[poll[p].wake]), wake[poll[p].wake]} :
          wake' = [wake EXCEPT ![poll[p].wake] = row]
    BY <1>3 DEF MintRefused
  <2>3. NotFinished(wake[poll[p].wake], row)
    BY <2>1, <2>2, UnfinishedRows
  <2> QED
    BY <2>1, <2>2, <2>3, OneRowUnfinished, NoneFinishesOwes
<1> QED
  BY <1>1, <1>2, <1>3, FailClaimOwes

LEMMA SessionFinishes ==
  ASSUME TypeInv, Session
  PROVE  FinishOwed
<1>1. ASSUME NEW s \in sessions,
             Comment(s) \/ SessionGone(s) \/ CompleteRead(s) \/ \E exit \in Exits : SessionEnds(s, exit)
      PROVE  FinishOwed
  BY <1>1, SameUnfinished, NoneFinishesOwes
  DEF Comment, SessionGone, CompleteRead, SessionEnds, rowVars
<1>2. ASSUME NEW s \in sessions, Heartbeat(s)
      PROVE  FinishOwed
  <2>1. s.wake \in Wakes
    BY DEF TypeInv, TypeOK, SessionRec
  <2>2. wake' = [wake EXCEPT ![s.wake] = [wake[s.wake] EXCEPT !.lease = "live"]]
    BY <1>2 DEF Heartbeat
  <2> QED
    BY <2>1, <2>2, OneRowUnfinished, UnfinishedRows, NoneFinishesOwes
<1>3. ASSUME NEW c \in completing, CompleteLost(c)
      PROVE  FinishOwed
  BY <1>3, SameUnfinished, NoneFinishesOwes DEF CompleteLost, rowVars
<1>4. ASSUME NEW c \in completing, CompleteFlip(c)
      PROVE  FinishOwed
  <2>1. /\ \A v \in Wakes \ {c.wake} : wake'[v] = wake[v]
        /\ wake[c.wake].rewake /\ c.wake \in Wakes /\ ~IsOpen(wake'[c.wake]) =>
             \E f \in after' : f.wake = c.wake /\ "rewake" \in f.todo
    BY <1>4, CompleteFlipOwes DEF CompleteFlip, TypeInv, TypeOK
  <2> QED
    BY <2>1 DEF FinishOwed, IsOpen
<1> QED
  BY <1>1, <1>2, <1>3, <1>4 DEF Session

LEMMA NextFinishes ==
  ASSUME TypeInv, [Next]_vars
  PROVE  FinishOwed
<1>1. CASE FollowUps
  BY <1>1, InsertOrMergeUnfinished, SameUnfinished, NoneFinishesOwes
  DEF FollowUps, AfterRevoke, AfterStatus, AfterRewake, rowVars
<1>2. CASE ReapExpiredLeases
  BY <1>2, ReapOwes DEF FinishOwed, IsOpen
<1>3. CASE ExpireQueued
  BY <1>3, NoneFinishesOwes DEF ExpireQueued, Expired, NoneFinishes, NotFinished
<1>4. CASE People
  <2>1. ASSUME NEW u \in Runs, CancelForRun(u)
        PROVE  NoneFinishes
    BY <2>1, RowTypes DEF CancelForRun, NoneFinishes, NotFinished, Row
  <2>2. ASSUME NEW r \in Runners, RevokeRunner(r)
        PROVE  NoneFinishes
    BY <2>2, RowTypes DEF RevokeRunner, NoneFinishes, NotFinished, Released, Row
  <2>3. ASSUME \/ \E u \in Runs : AdminCancelRun(u)
               \/ \E r \in Runners : AssignCheck(r) \/ AssignUpsert(r)
               \/ Unassign \/ ToggleEligible
        PROVE  NoneFinishes
    BY <2>3, SameUnfinished
    DEF AdminCancelRun, AssignCheck, AssignUpsert, Unassign, ToggleEligible, rowVars
  <2> QED
    BY <1>4, <2>1, <2>2, <2>3, NoneFinishesOwes DEF People
<1>5. CASE Time
  <2>1. ASSUME NEW w \in Wakes, LeaseLapses(w) \/ CeilingPasses(w) \/ HoldEnds(w) \/ Ages(w)
        PROVE  NoneFinishes
    <3>1. PICK row \in {[wake[w] EXCEPT !.lease = "lapsed"], [wake[w] EXCEPT !.over = TRUE],
                        [wake[w] EXCEPT !.held = FALSE], [wake[w] EXCEPT !.aged = TRUE]} :
            wake' = [wake EXCEPT ![w] = row]
      BY <2>1 DEF LeaseLapses, CeilingPasses, HoldEnds, Ages
    <3>2. NotFinished(wake[w], row)
      BY <3>1, RowTypes DEF NotFinished, Row
    <3> QED
      BY <3>1, <3>2, OneRowUnfinished
  <2>2. ASSUME NEW r \in Runners, PauseEnds(r)
        PROVE  NoneFinishes
    BY <2>2, SameUnfinished DEF PauseEnds, rowVars
  <2> QED
    BY <1>5, <2>1, <2>2, NoneFinishesOwes DEF Time
<1>6. CASE Deaths
  BY <1>6, SameUnfinished, NoneFinishesOwes
  DEF Deaths, PollDies, CreatorDies, FollowUpDies, CancelDies, rowVars
<1>7. CASE UNCHANGED vars
  BY <1>7, SameUnfinished, NoneFinishesOwes DEF vars
<1> QED
  BY <1>1, <1>2, <1>3, <1>4, <1>5, <1>6, <1>7, DispatchUnfinished, NoneFinishesOwes,
     ClaimFinishes, SessionFinishes DEF Next, Sweep

\* Under every disruption, a claimed wake that is reported done or failed, that
\* lost its last lease or that could not be served owes the repeat it carries
\* (complete, reapExpiredLeases and failClaim all reach afterTerminal).  What is
\* left to lose a repeat is a row that is canceled, or one that was returned to
\* the queue with it and ends there (expireQueued, failUnstarted).
THEOREM FinishedWakesOwe == Spec => FinishedOwesRewake
<1>1. TypeInv /\ [Next]_vars =>
        [\A w \in Wakes :
           wake[w].rewake /\ wake[w].status = "claimed" /\ wake'[w].status \in {"done", "failed"}
             => \E f \in after' : f.wake = w /\ "rewake" \in f.todo]_vars
  BY NextFinishes DEF FinishOwed
<1> QED
  BY <1>1, TypeInvariant, PTL DEF Spec, FinishedOwesRewake
=============================================================================
