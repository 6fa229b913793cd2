----------------------------- MODULE AgentWakes -----------------------------
(***************************************************************************)
(* The wake queue of the StoryOS Runner: agent-wakes.service.ts with the   *)
(* parts of run-credentials.service.ts, runners.service.ts and             *)
(* agents.service.ts its handlers call.                                    *)
(*                                                                         *)
(* One agent.  A row of agent_wakes says that the agent should look at a   *)
(* record; Runners claim rows, work on them under a lease and report.      *)
(* Every action is one SQL statement or transaction: a handler that issues *)
(* several keeps its local variables in poll, creator, completing, after,  *)
(* canceling or assigning between them, and any other handler may run in   *)
(* between.  Clocks are abstracted to the one bit each comparison with     *)
(* now() yields (lease, over, held, aged, paused).                         *)
(***************************************************************************)
EXTENDS Integers, FiniteSets

CONSTANTS
  Wakes,        \* row ids; their number bounds the rows ever inserted
  Runs,         \* Run record ids; their number bounds the Runs ever created
  Runners,      \* the owner's Runners
  Records,      \* records the agent is woken for (NoRecord may be one)
  Polls,        \* claim requests the server can be serving at once
  Kinds,        \* the kinds of wake sources that fire
  Exits,        \* the ways a session ends that the instance considers
  Disruptions,  \* the rare events the instance considers
  MaxClaims,    \* bound: claims handed out in a behaviour
  MaxAttempts,  \* WAKE_MAX_ATTEMPTS: lost leases before a wake fails
  NoRecord, NoRunner, NoRun, NoWake

ASSUME ConstantsAssumption ==
  /\ MaxClaims \in Nat
  /\ MaxAttempts \in Nat \ {0}
  /\ NoRunner \notin Runners
  /\ NoRun \notin Runs
  /\ NoWake \notin Wakes
  /\ Wakes \cap Polls = {}
  /\ Kinds \subseteq {"trigger", "mention"}
  /\ Exits \subseteq {"ok", "failed", "aborted", "limit_reached"}
  /\ Disruptions \subseteq {"cancel", "remove", "reassign", "toggle", "fail", "die",
                          "lapse", "stall", "ceiling", "age"}

VARIABLES
  wake,        \* the rows of agent_wakes
  claims,      \* claim nonces drawn so far (gen_random_uuid, as a counter)
  creds,       \* run credentials (rows of api_tokens) that are not revoked
  runStatus,   \* the Status of each Run record
  runFor,      \* history: the wake each Run was created for
  runner,      \* status of each Runner
  paused,      \* paused_until of each Runner is in the future
  assigned,    \* the agent's row of runner_agents
  eligible,    \* the agent is enabled and its owner an active non-guest
  poll,        \* claim requests being served
  creator,     \* dispatchRun calls still making the Run of a row
  completing,  \* complete() calls between their read and their transaction
  after,       \* follow-ups of a transition: revoke, Run status, rewake
  canceling,   \* adminCancelRun calls between the Run and its wake
  assigning,   \* assign() calls between the check and the upsert
  sessions,    \* sessions on the Runners (claim responses that arrived)
  commented,   \* Runs whose session commented on the wake's record
  accepted     \* history: completions applied, <<claim named, claim ended>>

rowVars     == <<wake, claims>>
runVars     == <<runStatus, runFor>>
runnerVars  == <<runner, paused, assigned, eligible, assigning>>
handlerVars == <<poll, creator, completing, after, canceling>>
clientVars  == <<sessions, commented, accepted>>
vars == <<wake, claims, creds, runStatus, runFor, runner, paused, assigned,
          eligible, poll, creator, completing, after, canceling, assigning,
          sessions, commented, accepted>>

Statuses  == {"absent", "queued", "claimed", "done", "failed", "canceled"}
Ended     == {"done", "failed", "canceled"}
RunStates == {"none", "Queued", "Running", "Succeeded", "Failed", "Canceled"}
Nonces    == 1..MaxClaims

Row == [status : Statuses, record : Records \cup {NoRecord},
        holder : Runners \cup {NoRunner}, nonce : 0..MaxClaims,
        lease : {"none", "live", "lapsed"}, over : BOOLEAN,
        attempts : 0..MaxAttempts, run : Runs \cup {NoRun},
        must : BOOLEAN, rewake : BOOLEAN, held : BOOLEAN, aged : BOOLEAN]

Cred == [nonce : Nonces, wake : Wakes, runner : Runners,
         run : Runs \cup {NoRun}, state : {"live", "expired"}]

PollState == [pc : {"idle", "checked", "ensure", "mint", "insert", "answer"},
              runner : Runners \cup {NoRunner}, wake : Wakes \cup {NoWake},
              nonce : 0..MaxClaims, run : Runs \cup {NoRun}]

Creator == [pc : {"none", "create", "blocked", "attach", "execute", "reattach", "undo"},
            kind : {"trigger", "mention", "claim"},
            wake : Wakes \cup {NoWake}, run : Runs \cup {NoRun}]

Completing == [nonce : Nonces, wake : Wakes, runner : Runners,
               out : {"limit", "rewoken", "done", "failed", "canceled"}]

FollowUpRec == [wake : Wakes, nonce : 0..MaxClaims, run : Runs \cup {NoRun},
                to : RunStates \ {"none"},
                todo : SUBSET {"revoke", "status", "rewake"}]

SessionRec == [nonce : Nonces, wake : Wakes, runner : Runners,
               run : Runs \cup {NoRun}, phase : {"running"} \cup Exits]

NewRow(rec) ==
  [status |-> "queued", record |-> rec, holder |-> NoRunner, nonce |-> 0,
   lease |-> "none", over |-> FALSE, attempts |-> 0, run |-> NoRun,
   must |-> FALSE, rewake |-> FALSE, held |-> FALSE, aged |-> FALSE]

IdlePoll == [pc |-> "idle", runner |-> NoRunner, wake |-> NoWake,
             nonce |-> 0, run |-> NoRun]
NoCreator == [pc |-> "none", kind |-> "trigger", wake |-> NoWake, run |-> NoRun]
Creating(w, kind) == [pc |-> "create", kind |-> kind, wake |-> w, run |-> NoRun]

IsOpen(row) == row.status \in {"queued", "claimed"}
OpenFor(rec) == {w \in Wakes : IsOpen(wake[w]) /\ wake[w].record = rec}
\* Mutant: the Runner is compared, the nonce is not.
HeldByRunner(row, r, n) == row.status = "claimed" /\ row.holder = r

HeldBy(row, r, n) == row.status = "claimed" /\ row.holder = r /\ row.nonce = n

-----------------------------------------------------------------------------
(* Statements and small helpers the handlers share.                        *)

\* status = queued, runner_id, claim_nonce, lease_expires_at, claimed_at = null
Released(row) ==
  [row EXCEPT !.status = "queued", !.holder = NoRunner, !.nonce = 0,
              !.lease = "none", !.over = FALSE]

\* revokeForWake: every credential of the wake that is not revoked yet.
RevokedForWake(w) == {c \in creds : c.wake # w}

\* revokeForRunner, in the transaction that removes the Runner.
RevokedForRunner(r) == {c \in creds : c.runner # r}

\* TokensService.resolve with assertRunCredentialLive.
Usable(c) ==
  /\ c.state = "live"
  /\ wake[c.wake].status = "claimed"
  /\ wake[c.wake].holder = c.runner
  /\ wake[c.wake].lease = "live"
  /\ runner[c.runner] # "revoked"
  /\ eligible

\* setRunStatus: an unconditional write to the Run the caller's row names.
RunMoved(run, to) ==
  IF run = NoRun THEN runStatus ELSE [runStatus EXCEPT ![run] = to]

\* What a handler still owes after it moved row w to its new status.
FollowUp(w, row, to, todo) ==
  [wake |-> w, nonce |-> row.nonce, run |-> row.run, to |-> to,
   todo |-> IF row.rewake THEN todo ELSE todo \ {"rewake"}]

Owe(S) == after' = after \cup {f \in S : f.todo # {}}

-----------------------------------------------------------------------------
(* enqueue: insert a row, or merge into the open one; dispatchRun: make    *)
(* the row's Run.  creator[w] is the call that inserted row w, creator[p]  *)
(* the one ensureRunForClaim makes for poll p.                             *)

\* Mutant: the conflict index covers queued rows only.
InsertUnlessQueued(rec, kind) ==
  \/ /\ \A v \in OpenFor(rec) : wake[v].status = "claimed"
     /\ \E w \in Wakes :
          /\ wake[w].status = "absent"
          /\ wake' = [wake EXCEPT ![w] = NewRow(rec)]
          /\ creator' = [creator EXCEPT ![w] = Creating(w, kind)]
  \/ \E w \in OpenFor(rec) :
       /\ wake' = [wake EXCEPT ![w].rewake = @ \/ wake[w].status = "claimed"]
       /\ UNCHANGED creator

\* INSERT ... ON CONFLICT DO NOTHING, else mergeIntoOpen.  The merge bumps
\* counts; the only thing it changes that the queue acts on is rewake.
InsertOrMerge(rec, kind) ==
  \/ /\ OpenFor(rec) = {}
     /\ \E w \in Wakes :
          /\ wake[w].status = "absent"
          /\ wake' = [wake EXCEPT ![w] = NewRow(rec)]
          /\ creator' = [creator EXCEPT ![w] = Creating(w, kind)]
  \/ \E w \in OpenFor(rec) :
       /\ wake' = [wake EXCEPT
            ![w].rewake = @ \/ wake[w].status = "claimed"]
       /\ UNCHANGED creator

\* A wake source fires: a dispatch ("trigger"), or a mention, approval or
\* rewake ("mention"), whose Run enqueue makes itself, through the hook.
Enqueue(rec, kind) ==
  /\ eligible
  /\ InsertOrMerge(rec, kind)
  /\ UNCHANGED <<claims, creds, runVars, runnerVars, poll, completing, after,
                 canceling, clientVars>>

\* The Run record is created, Queued; or, when the agent is over its
\* allowance or a skill is gone, born Failed (a trigger checks that before
\* it enqueues).
CreateRun(x) ==
  /\ creator[x].pc = "create"
  /\ \E u \in Runs, blocked \in {FALSE, "fail" \in Disruptions} :
       /\ runStatus[u] = "none"
       /\ blocked => creator[x].kind # "trigger"
       /\ runStatus' = [runStatus EXCEPT ![u] = IF blocked THEN "Failed" ELSE "Queued"]
       /\ runFor' = [runFor EXCEPT ![u] = creator[x].wake]
       /\ creator' = [creator EXCEPT ![x].pc = IF blocked THEN "blocked" ELSE "attach",
                                     ![x].run = u]
  /\ UNCHANGED <<rowVars, creds, runnerVars, poll, completing, after,
                 canceling, clientVars>>

\* failUnstarted: only a row that is still queued.
Unstarted(row) ==
  IF row.status = "queued" THEN [row EXCEPT !.status = "failed"] ELSE row

BlockedRun(x) ==
  /\ creator[x].pc = "blocked"
  /\ wake' = [wake EXCEPT ![creator[x].wake] = Unstarted(@)]
  /\ creator' = [creator EXCEPT ![x].pc = "reattach"]
  /\ UNCHANGED <<claims, creds, runVars, runnerVars, poll, completing, after,
                 canceling, clientVars>>

\* attachRun writes the id on the row, whatever the row says by now.
AttachRun(x) ==
  /\ creator[x].pc = "attach"
  /\ wake' = [wake EXCEPT ![creator[x].wake].run = creator[x].run]
  /\ creator' = [creator EXCEPT ![x].pc = "execute"]
  /\ UNCHANGED <<claims, creds, runVars, runnerVars, poll, completing, after,
                 canceling, clientVars>>

\* What follows the dispatch: a trigger returns, the hook's callers attach.
Dispatched(x) == IF creator[x].kind = "trigger" THEN NoCreator
                 ELSE [creator[x] EXCEPT !.pc = "reattach"]

\* The own-AI runtime wrote its step log ...
DispatchDone(x) ==
  /\ creator[x].pc = "execute"
  /\ creator' = [creator EXCEPT ![x] = Dispatched(x)]
  /\ UNCHANGED <<rowVars, creds, runVars, runnerVars, poll, completing, after,
                 canceling, clientVars>>

\* ... or failed after its Run existed: failUnstarted, Run Failed.
DispatchFails(x) ==
  /\ "fail" \in Disruptions
  /\ creator[x].pc = "execute"
  /\ wake' = [wake EXCEPT ![creator[x].wake] = Unstarted(@)]
  /\ runStatus' = RunMoved(creator[x].run, "Failed")
  /\ creator' = [creator EXCEPT ![x] = Dispatched(x)]
  /\ UNCHANGED <<claims, creds, runFor, runnerVars, poll, completing, after,
                 canceling, clientVars>>

\* enqueue and ensureRunForClaim attach the Run the hook returned, again; a
\* claim goes on to mint with it.
ReattachRun(x) ==
  /\ creator[x].pc = "reattach"
  /\ wake' = [wake EXCEPT ![creator[x].wake].run = creator[x].run]
  /\ creator' = [creator EXCEPT ![x] = NoCreator]
  /\ poll' = IF x \in Polls
             THEN [poll EXCEPT ![x].pc = "mint", ![x].run = creator[x].run]
             ELSE poll
  /\ UNCHANGED <<claims, creds, runVars, runnerVars, completing, after,
                 canceling, clientVars>>

\* The Run could not be created: dispatchRun calls failUnstarted and throws,
\* or the hook threw before it (no owner, no Runs database); the hook's
\* callers still have the row to take back.
CreateRunFails(x) ==
  /\ "fail" \in Disruptions
  /\ creator[x].pc = "create"
  /\ \/ wake' = [wake EXCEPT ![creator[x].wake] = Unstarted(@)]
     \/ creator[x].kind # "trigger" /\ UNCHANGED wake
  /\ creator' = [creator EXCEPT ![x] = IF @.kind = "trigger" THEN NoCreator
                                       ELSE [@ EXCEPT !.pc = "undo"]]
  /\ UNCHANGED <<claims, creds, runVars, runnerVars, poll, completing, after,
                 canceling, clientVars>>

\* enqueue's catch block: status = canceled WHERE id = this row, nothing else.
UndoEnqueue(w) ==
  /\ creator[w].pc = "undo"
  /\ wake' = [wake EXCEPT ![w].status = "canceled"]
  /\ creator' = [creator EXCEPT ![w] = NoCreator]
  /\ UNCHANGED <<claims, creds, runVars, runnerVars, poll, completing, after,
                 canceling, clientVars>>

-----------------------------------------------------------------------------
(* claim: a long poll of one Runner.                                       *)

\* A round of the poll reads the Runner's row: active and under no hold.
PollRound(p, r) ==
  /\ poll[p].pc = "idle"
  /\ runner[r] = "active"
  /\ ~paused[r]
  /\ poll' = [poll EXCEPT ![p] = [IdlePoll EXCEPT !.pc = "checked", !.runner = r]]
  /\ UNCHANGED <<rowVars, creds, runVars, runnerVars, creator, completing,
                 after, canceling, clientVars>>

\* The round found nothing, or the poll ended.
PollEmpty(p) ==
  /\ poll[p].pc = "checked"
  /\ poll' = [poll EXCEPT ![p] = IdlePoll]
  /\ UNCHANGED <<rowVars, creds, runVars, runnerVars, creator, completing,
                 after, canceling, clientVars>>

\* The rows the claim statement may pick for Runner r.
Claimable(w, r) ==
  /\ wake[w].status = "queued"
  /\ ~wake[w].held
  /\ assigned = r
  /\ eligible

\* What the claim statement sets.
Claimed(row, r, n) ==
  [row EXCEPT !.status = "claimed", !.holder = r, !.nonce = n, !.lease = "live",
              !.over = FALSE]

\* Mutant: a row without a Run goes straight to mint.
ClaimWithoutRun(p, w) ==
  /\ poll[p].pc = "checked"
  /\ Claimable(w, poll[p].runner)
  /\ claims < MaxClaims
  /\ claims' = claims + 1
  /\ wake' = [wake EXCEPT ![w] = Claimed(@, poll[p].runner, claims + 1)]
  /\ poll' = [poll EXCEPT
       ![p] = [@ EXCEPT !.pc = "mint", !.wake = w, !.nonce = claims + 1,
                        !.run = wake[w].run]]
  /\ UNCHANGED <<creds, runVars, runnerVars, creator, completing, after,
                 canceling, clientVars>>

\* The one claim statement (FOR UPDATE SKIP LOCKED).  It does not look at
\* the Runner's status again.  A row claimed without a Run is given one first
\* (ensureRunForClaim).
ClaimOnce(p, w) ==
  /\ poll[p].pc = "checked"
  /\ Claimable(w, poll[p].runner)
  /\ claims < MaxClaims
  /\ claims' = claims + 1
  /\ wake' = [wake EXCEPT ![w] = Claimed(@, poll[p].runner, claims + 1)]
  /\ poll' = [poll EXCEPT
       ![p] = [@ EXCEPT !.pc = IF wake[w].run = NoRun THEN "ensure" ELSE "mint",
                        !.wake = w, !.nonce = claims + 1, !.run = wake[w].run]]
  /\ creator' = IF wake[w].run = NoRun
                THEN [creator EXCEPT ![p] = Creating(w, "claim")] ELSE creator
  /\ UNCHANGED <<creds, runVars, runnerVars, completing, after, canceling,
                 clientVars>>

\* The claim cannot be served: no Run could be written, or a skill is
\* missing.  The guard is the Runner, not the nonce.
FailClaim(p) ==
  LET w    == poll[p].wake
      row  == wake[w]
      mine == row.status = "claimed" /\ row.holder = poll[p].runner
      noRun == poll[p].pc = "ensure" /\ creator[p].pc = "undo"
  IN
  /\ \/ noRun
     \/ poll[p].pc = "mint" /\ "fail" \in Disruptions
  /\ IF mine
     THEN /\ wake' = [wake EXCEPT ![w].status = "failed", ![w].lease = "none"]
          /\ Owe({FollowUp(w, row, "Failed",
                    IF noRun THEN {"rewake"} ELSE {"status", "rewake"})})
     ELSE UNCHANGED <<wake, after>>
  /\ poll' = [poll EXCEPT ![p] = IdlePoll]
  /\ creator' = [creator EXCEPT ![p] = NoCreator]
  /\ UNCHANGED <<claims, creds, runVars, runnerVars, completing, canceling,
                 clientVars>>

\* mint refuses (the owner left or became a guest): back to the queue.
MintRefused(p) ==
  LET w == poll[p].wake IN
  /\ poll[p].pc = "mint"
  /\ ~eligible
  /\ wake' = [wake EXCEPT
       ![w] = IF @.status = "claimed" /\ @.holder = poll[p].runner
              THEN Released(@) ELSE @]
  /\ poll' = [poll EXCEPT ![p] = IdlePoll]
  /\ UNCHANGED <<claims, creds, runVars, runnerVars, creator, completing,
                 after, canceling, clientVars>>

\* Mutant: the earlier credentials are left to expire.
MintKeepsOld(p) ==
  /\ poll[p].pc = "mint"
  /\ poll' = [poll EXCEPT ![p].pc = "insert"]
  /\ UNCHANGED <<rowVars, creds, runVars, runnerVars, creator, completing,
                 after, canceling, clientVars>>

\* mint: revoke the wake's earlier credentials ...
MintRevoke(p) ==
  /\ poll[p].pc = "mint"
  /\ creds' = RevokedForWake(poll[p].wake)
  /\ poll' = [poll EXCEPT ![p].pc = "insert"]
  /\ UNCHANGED <<rowVars, runVars, runnerVars, creator, completing, after,
                 canceling, clientVars>>

\* ... then insert this claim's, expiring with the lease the claim wrote.
MintInsert(p) ==
  LET row == wake[poll[p].wake]
      \* the lease this claim wrote has run out since
      late == IF row.nonce = poll[p].nonce THEN row.lease = "lapsed"
              ELSE runner[poll[p].runner] # "revoked"
  IN
  /\ poll[p].pc = "insert"
  /\ creds' = creds \cup
       {[nonce |-> poll[p].nonce, wake |-> poll[p].wake,
         runner |-> poll[p].runner, run |-> poll[p].run,
         state |-> IF late THEN "expired" ELSE "live"]}
  /\ poll' = [poll EXCEPT ![p].pc = "answer"]
  /\ UNCHANGED <<rowVars, runVars, runnerVars, creator, completing, after,
                 canceling, clientVars>>

\* The Run is marked Running and the response sent; it may never arrive.
HandOver(p) ==
  /\ poll[p].pc = "answer"
  /\ runStatus' = RunMoved(poll[p].run, "Running")
  /\ \/ sessions' = sessions \cup
          {[nonce |-> poll[p].nonce, wake |-> poll[p].wake,
            runner |-> poll[p].runner, run |-> poll[p].run,
            phase |-> "running"]}
     \/ UNCHANGED sessions
  /\ poll' = [poll EXCEPT ![p] = IdlePoll]
  /\ UNCHANGED <<rowVars, creds, runFor, runnerVars, creator, completing,
                 after, canceling, commented, accepted>>

-----------------------------------------------------------------------------
(* The Runner: its session, the heartbeat and the completion report.       *)

\* The session comments on the record with the credential of its claim; the
\* comment carries the Run of the credential.
Comment(s) ==
  /\ s.phase = "running"
  /\ \E c \in creds :
       /\ c.nonce = s.nonce
       /\ Usable(c)
       /\ commented' = commented \cup {c.run}
  /\ UNCHANGED <<rowVars, creds, runVars, runnerVars, handlerVars, sessions,
                 accepted>>

SessionEnds(s, exit) ==
  /\ s.phase = "running"
  /\ sessions' = (sessions \ {s}) \cup {[s EXCEPT !.phase = exit]}
  /\ UNCHANGED <<rowVars, creds, runVars, runnerVars, handlerVars, commented,
                 accepted>>

\* The Runner was told lease_lost, got its answer, or died.
SessionGone(s) ==
  /\ sessions' = sessions \ {s}
  /\ UNCHANGED <<rowVars, creds, runVars, runnerVars, handlerVars, commented,
                 accepted>>

\* Mutant: no ceiling.
HeartbeatForEver(s) ==
  /\ HeldBy(wake[s.wake], s.runner, s.nonce)
  /\ wake' = [wake EXCEPT ![s.wake].lease = "live"]
  /\ creds' = {IF c.wake = s.wake /\ c.state = "expired"
               THEN [c EXCEPT !.state = "live"] ELSE c : c \in creds}
  /\ UNCHANGED <<claims, runVars, runnerVars, handlerVars, clientVars>>

\* The lease and, with it, the expiry of the wake's credentials slide.  A
\* lease that lapsed but was not reaped yet is revived.  The Runner goes on
\* while it reports a result.
Heartbeat(s) ==
  /\ HeldBy(wake[s.wake], s.runner, s.nonce)
  /\ ~wake[s.wake].over
  /\ wake' = [wake EXCEPT ![s.wake].lease = "live"]
  /\ creds' = {IF c.wake = s.wake /\ c.state = "expired"
               THEN [c EXCEPT !.state = "live"] ELSE c : c \in creds}
  /\ UNCHANGED <<claims, runVars, runnerVars, handlerVars, clientVars>>

\* Mutants: a silent run is always woken again; a second one passes.
OutcomeAlwaysRewoken(row, exit) ==
  IF exit = "limit_reached" THEN "limit"
  ELSE IF exit = "ok" /\ row.record # NoRecord /\ row.run \notin commented THEN "rewoken"
  ELSE IF exit = "ok" THEN "done"
  ELSE IF exit = "aborted" THEN "canceled" ELSE "failed"

OutcomeSecondPasses(row, exit) ==
  IF exit = "limit_reached" THEN "limit"
  ELSE IF exit = "ok" /\ row.record # NoRecord /\ row.run \notin commented /\ ~row.must
       THEN "rewoken"
  ELSE IF exit = "ok" THEN "done"
  ELSE IF exit = "aborted" THEN "canceled" ELSE "failed"

\* What complete() decides from the row and the comments it reads.
Outcome(row, exit) ==
  CASE exit = "limit_reached" -> "limit"
    [] exit = "ok" /\ row.record # NoRecord /\ row.run \notin commented ->
         IF row.must THEN "failed" ELSE "rewoken"
    [] exit = "ok" /\ (row.record = NoRecord \/ row.run \in commented) -> "done"
    [] exit = "aborted" -> "canceled"
    [] exit = "failed" -> "failed"

\* A completion report reaches the server (or is sent again) and is read
\* against the row.
CompleteRead(s) ==
  /\ s.phase \in Exits
  /\ HeldBy(wake[s.wake], s.runner, s.nonce)
  /\ completing' = completing \cup
       {[nonce |-> s.nonce, wake |-> s.wake, runner |-> s.runner,
         out |-> Outcome(wake[s.wake], s.phase)]}
  /\ UNCHANGED <<rowVars, creds, runVars, runnerVars, poll, creator, after,
                 canceling, clientVars>>

\* Mutant: the requeued row keeps its lease.
CompletedKeepsLease(row, out) ==
  IF out \in {"limit", "rewoken"}
  THEN [row EXCEPT !.status = "queued", !.over = FALSE,
                   !.held = (out = "limit"), !.must = @ \/ out = "rewoken"]
  ELSE [row EXCEPT !.status = out, !.lease = "none"]

\* The row after a completion.  A requeued one keeps runner_id and nonce.
Completed(row, out) ==
  IF out \in {"limit", "rewoken"}
  THEN [row EXCEPT !.status = "queued", !.lease = "none", !.over = FALSE,
                   !.held = (out = "limit"), !.must = @ \/ out = "rewoken"]
  ELSE [row EXCEPT !.status = out, !.lease = "none"]

\* The Run status and the follow-ups a completion leaves.
CompletedRun(out) ==
  CASE out \in {"limit", "rewoken"} -> "Queued"
    [] out = "done" -> "Succeeded"
    [] out = "canceled" -> "Canceled"
    [] out = "failed" -> "Failed"

\* The transaction of complete(): guarded by Runner, nonce and claimed.
CompleteFlip(c) ==
  LET row == wake[c.wake] IN
  /\ HeldBy(row, c.runner, c.nonce)
  /\ wake' = [wake EXCEPT ![c.wake] = Completed(@, c.out)]
  /\ paused' = [paused EXCEPT ![c.runner] = @ \/ c.out = "limit"]
  /\ Owe({FollowUp(c.wake, row, CompletedRun(c.out),
            IF c.out \in {"limit", "rewoken"} THEN {"revoke", "status"}
            ELSE {"revoke", "status", "rewake"})})
  /\ accepted' = accepted \cup {<<c.nonce, row.nonce>>}
  /\ completing' = completing \ {c}
  /\ UNCHANGED <<claims, creds, runVars, runner, assigned, eligible, assigning,
                 poll, creator, canceling, sessions, commented>>

\* ... else the answer is a repeat or lease_lost, and nothing is written.
CompleteLost(c) ==
  /\ ~HeldBy(wake[c.wake], c.runner, c.nonce)
  /\ completing' = completing \ {c}
  /\ UNCHANGED <<rowVars, creds, runVars, runnerVars, poll, creator, after,
                 canceling, clientVars>>

-----------------------------------------------------------------------------
(* What a handler does after its transition, one statement at a time:      *)
(* revoke the credential, write the Run, enqueue the rewake.               *)

Did(f, what) ==
  after' = (after \ {f}) \cup
    (IF f.todo = {what} THEN {} ELSE {[f EXCEPT !.todo = @ \ {what}]})

AfterRevoke(f) ==
  /\ "revoke" \in f.todo
  /\ creds' = RevokedForWake(f.wake)
  /\ Did(f, "revoke")
  /\ UNCHANGED <<rowVars, runVars, runnerVars, poll, creator, completing,
                 canceling, clientVars>>

AfterStatus(f) ==
  /\ "status" \in f.todo /\ "revoke" \notin f.todo
  /\ runStatus' = RunMoved(f.run, f.to)
  /\ Did(f, "status")
  /\ UNCHANGED <<rowVars, creds, runFor, runnerVars, poll, creator, completing,
                 canceling, clientVars>>

\* afterTerminal: one fresh wake carries the repeat, if enqueue allows it.
AfterRewake(f) ==
  /\ f.todo = {"rewake"}
  /\ IF eligible THEN InsertOrMerge(wake[f.wake].record, "mention")
                 ELSE UNCHANGED <<wake, creator>>
  /\ Did(f, "rewake")
  /\ UNCHANGED <<claims, creds, runVars, runnerVars, poll, completing,
                 canceling, clientVars>>

-----------------------------------------------------------------------------
(* The sweeper, the owner and the admin.                                   *)

Lapsed == {w \in Wakes : wake[w].status = "claimed" /\ wake[w].lease = "lapsed"}

\* Mutant: the limit is compared with the attempts before this one.
ReapedOneLate(row) ==
  [Released(row) EXCEPT
     !.attempts = @ + 1,
     !.status = IF row.attempts >= MaxAttempts THEN "failed" ELSE "queued"]

\* A row that lost its lease: attempts + 1, and back or failed.
Reaped(row) ==
  [Released(row) EXCEPT
     !.attempts = @ + 1,
     !.status = IF row.attempts + 1 >= MaxAttempts THEN "failed" ELSE "queued"]

\* Mutant: a wake that failed this way is not followed by its rewake.
ReapWithoutRewake ==
  /\ Lapsed # {}
  /\ wake' = [w \in Wakes |-> IF w \in Lapsed THEN Reaped(wake[w]) ELSE wake[w]]
  /\ Owe({FollowUp(w, wake[w], "Queued", {"revoke", "status"}) : w \in Lapsed})
  /\ UNCHANGED <<claims, creds, runVars, runnerVars, poll, creator, completing,
                 canceling, clientVars>>

\* One UPDATE over every expired lease.
ReapExpiredLeases ==
  /\ Lapsed # {}
  /\ wake' = [w \in Wakes |-> IF w \in Lapsed THEN Reaped(wake[w]) ELSE wake[w]]
  /\ Owe({IF Reaped(wake[w]).status = "failed"
          THEN FollowUp(w, wake[w], "Failed", {"revoke", "status", "rewake"})
          ELSE FollowUp(w, wake[w], "Queued", {"revoke", "status"}) : w \in Lapsed})
  /\ UNCHANGED <<claims, creds, runVars, runnerVars, poll, creator, completing,
                 canceling, clientVars>>

\* Mutant: a row waiting for not_before does not expire.
ExpiredUnlessHeld ==
  {w \in Wakes : wake[w].status = "queued" /\ wake[w].aged /\ ~wake[w].held}

Expired == {w \in Wakes : wake[w].status = "queued" /\ wake[w].aged}

\* One UPDATE over every queued row older than WAKE_QUEUE_TTL.
ExpireQueued ==
  /\ Expired # {}
  /\ wake' = [w \in Wakes |-> IF w \in Expired
                              THEN [wake[w] EXCEPT !.status = "canceled"]
                              ELSE wake[w]]
  /\ Owe({FollowUp(w, wake[w], "Canceled", {"status"}) : w \in Expired})
  /\ UNCHANGED <<claims, creds, runVars, runnerVars, poll, creator, completing,
                 canceling, clientVars>>

\* adminCancelRun: the Run is marked first ...
AdminCancelRun(u) ==
  /\ "cancel" \in Disruptions
  /\ runStatus[u] \in {"Queued", "Running"}
  /\ runStatus' = [runStatus EXCEPT ![u] = "Canceled"]
  /\ canceling' = canceling \cup {u}
  /\ UNCHANGED <<rowVars, creds, runFor, runnerVars, poll, creator, completing,
                 after, clientVars>>

\* ... then cancelForRun ends the open row that names it.
CancelForRun(u) ==
  LET S == {w \in Wakes : IsOpen(wake[w]) /\ wake[w].run = u} IN
  /\ u \in canceling
  /\ canceling' = canceling \ {u}
  /\ wake' = [w \in Wakes |-> IF w \in S
                              THEN [wake[w] EXCEPT !.status = "canceled"]
                              ELSE wake[w]]
  /\ Owe({FollowUp(w, wake[w], "Canceled", {"revoke"}) : w \in S})
  /\ UNCHANGED <<claims, creds, runVars, runnerVars, poll, creator, completing,
                 clientVars>>

\* RunnersService.revoke: one transaction, then afterReturned.
RevokeRunner(r) ==
  LET S == {w \in Wakes : wake[w].status = "claimed" /\ wake[w].holder = r} IN
  /\ "remove" \in Disruptions
  /\ runner[r] # "revoked"
  /\ runner' = [runner EXCEPT ![r] = "revoked"]
  /\ assigned' = IF assigned = r THEN NoRunner ELSE assigned
  /\ wake' = [w \in Wakes |-> IF w \in S THEN Released(wake[w]) ELSE wake[w]]
  /\ creds' = RevokedForRunner(r)
  /\ Owe({FollowUp(w, wake[w], "Queued", {"revoke", "status"}) : w \in S})
  /\ UNCHANGED <<claims, runVars, paused, eligible, assigning, poll, creator,
                 completing, canceling, clientVars>>

\* assign: the Runner is read active ...
AssignCheck(r) ==
  /\ "reassign" \in Disruptions
  /\ runner[r] = "active"
  /\ assigning' = assigning \cup {r}
  /\ UNCHANGED <<rowVars, creds, runVars, runner, paused, assigned, eligible,
                 handlerVars, clientVars>>

\* ... and the row of runner_agents is upserted.
AssignUpsert(r) ==
  /\ r \in assigning
  /\ assigning' = assigning \ {r}
  /\ assigned' = r
  /\ UNCHANGED <<rowVars, creds, runVars, runner, paused, eligible,
                 handlerVars, clientVars>>

Unassign ==
  /\ "reassign" \in Disruptions
  /\ assigned # NoRunner
  /\ assigned' = NoRunner
  /\ UNCHANGED <<rowVars, creds, runVars, runner, paused, eligible, assigning,
                 handlerVars, clientVars>>

\* The agent is turned off or on, or its owner leaves or comes back.
ToggleEligible ==
  /\ "toggle" \in Disruptions
  /\ eligible' = ~eligible
  /\ UNCHANGED <<rowVars, creds, runVars, runner, paused, assigned, assigning,
                 handlerVars, clientVars>>

-----------------------------------------------------------------------------
(* Time, and handlers that stop half way (a statement throws, or the       *)
(* process dies).                                                          *)

\* A claim request takes milliseconds of the 90 s its lease lasts: unless the
\* instance has stalls, no lease lapses before its claim is answered.
LeaseLapses(w) ==
  /\ "lapse" \in Disruptions
  /\ "stall" \in Disruptions \/ \A p \in Polls : poll[p].nonce # wake[w].nonce
  /\ wake[w].status = "claimed"
  /\ wake[w].lease = "live"
  /\ wake' = [wake EXCEPT ![w].lease = "lapsed"]
  /\ creds' = {IF c.wake = w /\ c.state = "live"
               THEN [c EXCEPT !.state = "expired"] ELSE c : c \in creds}
  /\ UNCHANGED <<claims, runVars, runnerVars, handlerVars, clientVars>>

\* WAKE_RUN_CEILING_MS since the claim.
CeilingPasses(w) ==
  /\ "ceiling" \in Disruptions
  /\ wake[w].status = "claimed"
  /\ ~wake[w].over
  /\ wake' = [wake EXCEPT ![w].over = TRUE]
  /\ UNCHANGED <<claims, creds, runVars, runnerVars, handlerVars, clientVars>>

\* not_before of a requeued row passes.
HoldEnds(w) ==
  /\ wake[w].status = "queued"
  /\ wake[w].held
  /\ wake' = [wake EXCEPT ![w].held = FALSE]
  /\ UNCHANGED <<claims, creds, runVars, runnerVars, handlerVars, clientVars>>

\* expires_at, set once at insert, passes.
Ages(w) ==
  /\ "age" \in Disruptions
  /\ IsOpen(wake[w])
  /\ ~wake[w].aged
  /\ wake' = [wake EXCEPT ![w].aged = TRUE]
  /\ UNCHANGED <<claims, creds, runVars, runnerVars, handlerVars, clientVars>>

PauseEnds(r) ==
  /\ paused[r]
  /\ paused' = [paused EXCEPT ![r] = FALSE]
  /\ UNCHANGED <<rowVars, creds, runVars, runner, assigned, eligible,
                 assigning, handlerVars, clientVars>>

PollDies(p) ==
  /\ "die" \in Disruptions
  /\ poll[p].pc # "idle"
  /\ poll' = [poll EXCEPT ![p] = IdlePoll]
  /\ creator' = [creator EXCEPT ![p] = NoCreator]
  /\ UNCHANGED <<rowVars, creds, runVars, runnerVars, completing, after,
                 canceling, clientVars>>

CreatorDies(w) ==
  /\ "die" \in Disruptions
  /\ creator[w].pc # "none"
  /\ creator' = [creator EXCEPT ![w] = NoCreator]
  /\ UNCHANGED <<rowVars, creds, runVars, runnerVars, poll, completing, after,
                 canceling, clientVars>>

FollowUpDies(f) ==
  /\ "die" \in Disruptions
  /\ after' = after \ {f}
  /\ UNCHANGED <<rowVars, creds, runVars, runnerVars, poll, creator,
                 completing, canceling, clientVars>>

CancelDies(u) ==
  /\ "die" \in Disruptions
  /\ canceling' = canceling \ {u}
  /\ UNCHANGED <<rowVars, creds, runVars, runnerVars, poll, creator,
                 completing, after, clientVars>>

-----------------------------------------------------------------------------
Init ==
  /\ wake = [w \in Wakes |-> [NewRow(NoRecord) EXCEPT !.status = "absent"]]
  /\ claims = 0
  /\ creds = {}
  /\ runStatus = [u \in Runs |-> "none"]
  /\ runFor = [u \in Runs |-> NoWake]
  /\ runner = [r \in Runners |-> "active"]
  /\ paused = [r \in Runners |-> FALSE]
  /\ assigned \in Runners \cup {NoRunner}
  /\ eligible = TRUE
  /\ poll = [p \in Polls |-> IdlePoll]
  /\ creator = [x \in Wakes \cup Polls |-> NoCreator]
  /\ completing = {} /\ after = {} /\ canceling = {} /\ assigning = {}
  /\ sessions = {} /\ commented = {} /\ accepted = {}

Dispatch ==
  \/ \E rec \in Records, kind \in Kinds : Enqueue(rec, kind)
  \/ \E x \in Wakes \cup Polls :
       \/ CreateRun(x) \/ BlockedRun(x) \/ AttachRun(x) \/ DispatchDone(x)
       \/ DispatchFails(x) \/ ReattachRun(x) \/ CreateRunFails(x)
  \/ \E w \in Wakes : UndoEnqueue(w)

Claim ==
  \E p \in Polls :
    \/ \E r \in Runners : PollRound(p, r)
    \/ \E w \in Wakes : ClaimOnce(p, w)
    \/ PollEmpty(p) \/ FailClaim(p) \/ MintRefused(p) \/ MintRevoke(p)
    \/ MintInsert(p) \/ HandOver(p)

Session ==
  \/ \E s \in sessions :
       \/ Comment(s) \/ SessionGone(s) \/ Heartbeat(s) \/ CompleteRead(s)
       \/ \E exit \in Exits : SessionEnds(s, exit)
  \/ \E c \in completing : CompleteFlip(c) \/ CompleteLost(c)

FollowUps == \E f \in after : AfterRevoke(f) \/ AfterStatus(f) \/ AfterRewake(f)

Sweep == ReapExpiredLeases \/ ExpireQueued

People ==
  \/ \E u \in Runs : AdminCancelRun(u) \/ CancelForRun(u)
  \/ \E r \in Runners : RevokeRunner(r) \/ AssignCheck(r) \/ AssignUpsert(r)
  \/ Unassign \/ ToggleEligible

Time ==
  \/ \E w \in Wakes : LeaseLapses(w) \/ CeilingPasses(w) \/ HoldEnds(w) \/ Ages(w)
  \/ \E r \in Runners : PauseEnds(r)

Deaths ==
  \/ \E p \in Polls : PollDies(p)
  \/ \E w \in Wakes : CreatorDies(w)
  \/ \E f \in after : FollowUpDies(f)
  \/ \E u \in canceling : CancelDies(u)

Next == Dispatch \/ Claim \/ Session \/ FollowUps \/ Sweep \/ People \/ Time \/ Deaths

Spec == Init /\ [][Next]_vars

\* The sweeper runs every 30 s whatever fails, and time passes: the ceiling of
\* a claim, the lease that no heartbeat may renew after it, and the 7 days of
\* a row.  Nothing is assumed of Runners, people or half-done handlers.
TimePasses ==
  /\ \A w \in Wakes : WF_vars(CeilingPasses(w)) /\ WF_vars(Ages(w))
                     /\ WF_vars(wake[w].over /\ LeaseLapses(w))
SweeperRuns == WF_vars(ReapExpiredLeases) /\ SF_vars(ExpireQueued)
FairSpec == Spec /\ TimePasses /\ SweeperRuns

-----------------------------------------------------------------------------
(* What the queue promises.                                                *)

TypeOK ==
  /\ wake \in [Wakes -> Row]
  /\ claims \in 0..MaxClaims
  /\ creds \subseteq Cred
  /\ runStatus \in [Runs -> RunStates]
  /\ runFor \in [Runs -> Wakes \cup {NoWake}]
  /\ runner \in [Runners -> {"active", "revoked"}]
  /\ paused \in [Runners -> BOOLEAN]
  /\ assigned \in Runners \cup {NoRunner}
  /\ eligible \in BOOLEAN
  /\ poll \in [Polls -> PollState]
  /\ creator \in [Wakes \cup Polls -> Creator]
  /\ completing \subseteq Completing
  /\ after \subseteq FollowUpRec
  /\ canceling \subseteq Runs
  /\ assigning \subseteq Runners
  /\ sessions \subseteq SessionRec
  /\ commented \subseteq Runs \cup {NoRun}
  /\ accepted \subseteq Nonces \X Nonces

\* However many sources fire, rewakes land and removals return rows, an agent
\* has at most one open wake per record (the partial unique indexes would
\* make the second one an error in the middle of a handler).
OneOpenWake ==
  \A v, w \in Wakes :
    IsOpen(wake[v]) /\ IsOpen(wake[w]) /\ wake[v].record = wake[w].record => v = w

\* No claim can be stranded: a claimed row always carries the lease the reaper
\* looks for, and the Runner and nonce its holder reports with; a queued row
\* carries no lease of an earlier claim.
ClaimedIsReapable ==
  \A w \in Wakes :
    /\ wake[w].status = "claimed" =>
         /\ wake[w].lease # "none"
         /\ wake[w].holder \in Runners
         /\ wake[w].nonce \in 1..claims
    /\ wake[w].status = "queued" => wake[w].lease = "none" /\ ~wake[w].over

\* A Runner is never handed a wake without a Run, even when the process died
\* between the insert of the row and its Run: the work would leave no trace.
HandedOverWithRun ==
  \A s \in sessions : s.run # NoRun /\ wake[s.wake].run # NoRun

\* The fence is the credential: a session that can still act for a wake is the
\* one that holds it, whatever was reaped, requeued or re-claimed meanwhile.
FenceHolds ==
  \A s \in sessions, c \in creds :
    s.phase = "running" /\ c.nonce = s.nonce /\ Usable(c)
      => HeldBy(wake[s.wake], s.runner, s.nonce)

\* A wake with a record that reads done was commented on by a Run made for it,
\* although complete() reads the comments before its transaction.
DoneMeansCommented ==
  \A w \in Wakes :
    wake[w].status = "done" /\ wake[w].record # NoRecord
      => \E u \in commented \cap Runs : runFor[u] = w

\* A wake is woken again for its silence once: no completion, however often it
\* is sent or how stale the row it read, requeues it a second time.
RewokenOnce ==
  [][\A w \in Wakes :
       wake[w].must /\ wake[w].status = "claimed" /\ wake'[w].status = "queued"
         => wake'[w].nonce = 0 \/ wake'[w].held]_vars

\* Whatever fails, lapses or is taken away meanwhile, the step that ends a claimed wake
\* as done or failed owes the repeat that landed on it: complete, reapExpiredLeases and
\* failClaim all reach afterTerminal.  A row that is canceled, ages out or is undone by
\* the dispatch that began it loses the repeat.
FinishedOwesRewake ==
  [][\A w \in Wakes :
       wake[w].rewake /\ wake[w].status = "claimed" /\ wake'[w].status \in {"done", "failed"}
         => \E f \in after' : f.wake = w /\ "rewake" \in f.todo]_vars

\* Three lost leases fail a wake: none stays open at the limit.
AttemptsBound ==
  \A w \in Wakes : IsOpen(wake[w]) => wake[w].attempts < MaxAttempts

\* Every wake ends: a Runner that is gone, silent or heartbeats for ever does not
\* keep it, and neither does an agent without a Runner.
EveryWakeEnds == \A w \in Wakes : IsOpen(wake[w]) ~> ~IsOpen(wake[w])

\* Every claim ends, within the ceiling: a session cannot hold a wake by
\* heartbeating.
EveryClaimEnds ==
  \A w \in Wakes, n \in Nonces :
    (wake[w].status = "claimed" /\ wake[w].nonce = n)
      ~> ~(wake[w].status = "claimed" /\ wake[w].nonce = n)

-----------------------------------------------------------------------------
(* The queue implements the lease a Runner relies on.                      *)

PhaseOf(row) ==
  CASE row.status = "absent"  -> "absent"
    [] row.status = "queued"  -> "open"
    [] row.status = "claimed" -> "held"
    [] row.status \in Ended   -> "over"

Lease == INSTANCE WakeLease WITH
  phase  <- [w \in Wakes |-> PhaseOf(wake[w])],
  about  <- [w \in Wakes |-> wake[w].record],
  claim  <- [w \in Wakes |-> IF wake[w].status = "claimed" THEN wake[w].nonce ELSE 0],
  issued <- claims,
  reported <- accepted

\* Whatever is lost, repeated or overtaken, the rows of agent_wakes behave as
\* leases: one claim at a time, each one new; a completion is applied once, and
\* only to the claim it was made for; ended wakes never open again.
ImplementsLease == Lease!Spec
=============================================================================
