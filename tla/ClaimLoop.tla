------------------------------ MODULE ClaimLoop ------------------------------
(***************************************************************************)
(* The Runner program: packages/runner/src/claim-loop.ts and the claims it *)
(* keeps in store.ts.  The server is WakeLease, which AgentWakes           *)
(* implements: calls of the Runner are its steps, and its other steps may  *)
(* come at any time, as the sweeper, an admin or another request cause.    *)
(*                                                                         *)
(* The program is one event loop: an action is what runs between two       *)
(* awaits.  A job is one handling of a claim (handle) or of a saved result *)
(* (the report of recover); it is known by the nonce of its claim.         *)
(***************************************************************************)
EXTENDS Integers, FiniteSets

CONSTANTS
  Wakes,
  Concurrencies, \* the values of --concurrency considered
  MaxClaims,     \* bound: claims the server hands out
  MaxRestarts,   \* bound: times the program stops or dies and starts again
  NoRecord

ASSUME LoopConstants ==
  /\ MaxClaims \in Nat /\ MaxRestarts \in Nat
  /\ Concurrencies \subseteq Nat \ {0}
  /\ IsFiniteSet(Wakes) /\ NoRecord \notin Wakes

VARIABLES
  phase, about, claim, issued, reported, \* the server: see WakeLease
  concurrency, \* wakes to run at once on this computer
  restarts,    \* how often the program may still stop and start again
  up,          \* the program runs
  stopping,    \* runSignal is aborted: a stop, or something fatal
  disk,        \* state.json: the saved claim of each wake
  active,      \* the Map active: the job of each wake, by its nonce, or 0
  poll,        \* the claim request in flight
  jobs,        \* the jobs that run
  ran          \* history: the claims a session was started for

serverVars == <<phase, about, claim, issued, reported>>
config     == <<concurrency, restarts>>
vars == <<serverVars, config, up, stopping, disk, active, poll, jobs, ran>>

\* Each wake is about a record of its own, so that none waits for another.
Server == INSTANCE WakeLease WITH Records <- Wakes

Nonces  == 1..MaxClaims
NoClaim       == [nonce |-> 0, phase |-> "none"]
Running(n)    == [nonce |-> n, phase |-> "running"]
Completing(n) == [nonce |-> n, phase |-> "completing"]
Saved == {NoClaim} \cup {Running(n) : n \in Nonces} \cup {Completing(n) : n \in Nonces}

\* waiting for the prior job of its wake; the session running; running but
\* the lease is lost; reporting; the answer of the report on its way; over.
Job == [nonce : Nonces, wake : Wakes, kind : {"handle", "recover"},
        prior : 0..MaxClaims,
        pc : {"waiting", "running", "lost", "reporting", "answered", "done"}]

NoPoll == [pc |-> "none", max |-> 0, got |-> {}]

Busy == Cardinality({w \in Wakes : active[w] # 0})
Moves(j, pc) == jobs' = (jobs \ {j}) \cup {[j EXCEPT !.pc = pc]}
Put(w, c)    == disk' = [disk EXCEPT ![w] = c]

\* store.remove is by wake, whichever claim is saved under it.
Remove(w) == Put(w, NoClaim)

------------------------------------------------------------------------------
(* The poll.                                                               *)

\* Mutant: the poll does not look at what runs.
AskAnyway ==
  /\ up /\ ~stopping
  /\ poll = NoPoll
  /\ poll' = [pc |-> "asked", max |-> concurrency, got |-> {}]
  /\ UNCHANGED <<serverVars, config, up, stopping, disk, active, jobs, ran>>

Ask ==
  /\ up /\ ~stopping
  /\ poll = NoPoll
  /\ concurrency > Busy
  /\ poll' = [pc |-> "asked", max |-> concurrency - Busy, got |-> {}]
  /\ UNCHANGED <<serverVars, config, up, stopping, disk, active, jobs, ran>>

\* The server claims a wake for the request.
ServerGrants(w) ==
  /\ poll.pc = "asked"
  /\ Cardinality(poll.got) < poll.max
  /\ issued < MaxClaims
  /\ \A g \in poll.got : g.wake # w
  /\ Server!Grant(w)
  /\ poll' = [poll EXCEPT !.got = @ \cup {[wake |-> w, nonce |-> issued + 1]}]
  /\ UNCHANGED <<config, up, stopping, disk, active, jobs, ran>>

\* start() for every wake of the answer.
ClaimAnswered ==
  /\ poll.pc = "asked" /\ ~stopping
  /\ jobs' = jobs \cup
       {[nonce |-> g.nonce, wake |-> g.wake, kind |-> "handle",
         prior |-> active[g.wake], pc |-> "waiting"] : g \in poll.got}
  /\ active' = [w \in Wakes |->
       IF \E g \in poll.got : g.wake = w
       THEN (CHOOSE g \in poll.got : g.wake = w).nonce ELSE active[w]]
  /\ poll' = NoPoll
  /\ UNCHANGED <<serverVars, config, up, stopping, disk, ran>>

\* The answer is lost, or the request aborted; a fatal answer stops the loop.
ClaimFails ==
  /\ poll.pc = "asked"
  /\ poll' = NoPoll
  /\ stopping' \in IF poll.got = {} THEN {stopping, TRUE} ELSE {stopping}
  /\ UNCHANGED <<serverVars, config, up, disk, active, jobs, ran>>

------------------------------------------------------------------------------
(* A job.                                                                  *)

\* Mutant: the job does not wait for the prior handling of its wake.
HandleAtOnce(j) ==
  /\ j.pc = "waiting"
  /\ Moves(j, "running")
  /\ Put(j.wake, Running(j.nonce))
  /\ ran' = ran \cup {j.nonce}
  /\ UNCHANGED <<serverVars, config, up, stopping, active, poll>>

\* The claim is saved, then the session starts.
HandleStarts(j) ==
  /\ j.pc = "waiting"
  /\ \A k \in jobs : k.nonce # j.prior
  /\ Moves(j, "running")
  /\ Put(j.wake, Running(j.nonce))
  /\ ran' = ran \cup {j.nonce}
  /\ UNCHANGED <<serverVars, config, up, stopping, active, poll>>

\* The heartbeat: 409, or no answer past the lease, ends the session; so
\* does a fatal answer, which also stops the program.  One that is answered
\* only moves the local deadline, which is left to LeaseRunsOut.
HeartbeatRefused(j) ==
  /\ j.pc = "running"
  /\ claim[j.wake] # j.nonce
  /\ Moves(j, "lost")
  /\ UNCHANGED <<serverVars, config, up, stopping, disk, active, poll, ran>>

LeaseRunsOut(j) ==
  /\ j.pc = "running"
  /\ Moves(j, "lost")
  /\ UNCHANGED <<serverVars, config, up, stopping, disk, active, poll, ran>>

HeartbeatFatal(j) ==
  /\ j.kind = "handle" /\ j.pc \in {"running", "reporting"}
  /\ ~stopping
  /\ stopping' = TRUE
  /\ Moves(j, IF j.pc = "running" THEN "lost" ELSE j.pc)
  /\ UNCHANGED <<serverVars, config, up, disk, active, poll, ran>>

\* The result is saved, then reported.
SessionEnds(j) ==
  /\ j.pc = "running" /\ ~stopping
  /\ Moves(j, "reporting")
  /\ Put(j.wake, Completing(j.nonce))
  /\ UNCHANGED <<serverVars, config, up, stopping, active, poll, ran>>

\* Mutant: only a stop of the program reaches the session.
DiscardedOnStop(j) ==
  /\ j.pc \in {"running", "lost"} /\ stopping
  /\ Moves(j, "done")
  /\ Remove(j.wake)
  /\ UNCHANGED <<serverVars, config, up, stopping, active, poll, ran>>

\* A session that lost its lease, or was told to stop: no result.
SessionDiscarded(j) ==
  /\ j.pc = "lost" \/ (j.pc = "running" /\ stopping)
  /\ Moves(j, "done")
  /\ Remove(j.wake)
  /\ UNCHANGED <<serverVars, config, up, stopping, active, poll, ran>>

\* Mutant: a report the server no longer accepts is sent again.
ReportUntilTaken(j) ==
  /\ j.pc = "reporting"
  /\ claim[j.wake] = j.nonce
  /\ \E next \in {"open", "over"} : Server!Report(j.wake, j.nonce, next)
  /\ Moves(j, "answered")
  /\ UNCHANGED <<config, up, stopping, disk, active, poll, ran>>

\* The report reaches the server, which takes it if it still holds the claim
\* for this Runner, and else answers lease_lost or that it has it already.
ReportReaches(j) ==
  /\ j.pc = "reporting"
  /\ \/ /\ claim[j.wake] = j.nonce
        /\ \E next \in {"open", "over"} : Server!Report(j.wake, j.nonce, next)
     \/ claim[j.wake] # j.nonce /\ UNCHANGED serverVars
  /\ Moves(j, "answered")
  /\ UNCHANGED <<config, up, stopping, disk, active, poll, ran>>

ReportAnswered(j) ==
  /\ j.pc = "answered" /\ ~stopping
  /\ Moves(j, "done")
  /\ Remove(j.wake)
  /\ UNCHANGED <<serverVars, config, up, stopping, active, poll, ran>>

\* The answer is lost: the same request is sent again after a back-off.
AnswerLost(j) ==
  /\ j.pc = "answered" /\ ~stopping
  /\ Moves(j, "reporting")
  /\ UNCHANGED <<serverVars, config, up, stopping, disk, active, poll, ran>>

\* The server refuses the request itself (it is not retried), or answers
\* something fatal.
ReportRefused(j) ==
  /\ j.pc = "reporting" /\ ~stopping
  /\ Moves(j, "done")
  /\ Remove(j.wake)
  /\ stopping' \in BOOLEAN
  /\ UNCHANGED <<serverVars, config, up, active, poll, ran>>

\* Mutant: the result is dropped when the program is told to stop.
AbortForgets(j) ==
  /\ j.pc \in {"reporting", "answered"} /\ stopping
  /\ Moves(j, "done")
  /\ Remove(j.wake)
  /\ UNCHANGED <<serverVars, config, up, stopping, active, poll, ran>>

\* Told to stop while it reports: the result stays saved.
ReportAborted(j) ==
  /\ j.pc \in {"reporting", "answered"} /\ stopping
  /\ Moves(j, "done")
  /\ UNCHANGED <<serverVars, config, up, stopping, disk, active, poll, ran>>

\* Mutant: every job forgets its wake, as recover()'s do.
SettleAny(j) ==
  /\ j.pc = "done"
  /\ jobs' = jobs \ {j}
  /\ active' = [active EXCEPT ![j.wake] = 0]
  /\ UNCHANGED <<serverVars, config, up, stopping, disk, poll, ran>>

\* The finally of start() forgets the job if it is still the wake's; that of
\* recover() forgets whatever is there.
Settle(j) ==
  /\ j.pc = "done"
  /\ jobs' = jobs \ {j}
  /\ active' = IF j.kind = "recover" \/ active[j.wake] = j.nonce
               THEN [active EXCEPT ![j.wake] = 0] ELSE active
  /\ UNCHANGED <<serverVars, config, up, stopping, disk, poll, ran>>

------------------------------------------------------------------------------
(* The process.                                                            *)

StopAsked ==
  /\ up /\ ~stopping
  /\ stopping' = TRUE
  /\ UNCHANGED <<serverVars, config, up, disk, active, poll, jobs, ran>>

Down ==
  /\ up' = FALSE /\ stopping' = FALSE
  /\ active' = [w \in Wakes |-> 0]
  /\ poll' = NoPoll /\ jobs' = {}
  /\ UNCHANGED <<serverVars, config, disk, ran>>

\* run() returns once the jobs in active have settled.
ProcessExits ==
  /\ up /\ stopping /\ poll = NoPoll
  /\ \A w \in Wakes : active[w] = 0
  /\ Down

Crash == up /\ restarts > 0 /\ Down

Recovered(w) ==
  [nonce |-> disk[w].nonce, wake |-> w, kind |-> "recover", prior |-> 0,
   pc |-> "reporting"]

\* Mutant: a saved result is run again instead of reported.
RestartRuns ==
  /\ ~up /\ restarts > 0
  /\ up' = TRUE
  /\ restarts' = restarts - 1
  /\ jobs' = {[Recovered(w) EXCEPT !.kind = "handle", !.pc = "waiting"] :
                w \in {v \in Wakes : disk[v].phase = "completing"}}
  /\ active' = [w \in Wakes |-> IF disk[w].phase = "completing" THEN disk[w].nonce ELSE 0]
  /\ disk' = [w \in Wakes |-> IF disk[w].phase = "running" THEN NoClaim ELSE disk[w]]
  /\ UNCHANGED <<serverVars, concurrency, stopping, poll, ran>>

\* A new process, and recover().
Restart ==
  /\ ~up /\ restarts > 0
  /\ up' = TRUE
  /\ restarts' = restarts - 1
  /\ jobs' = {Recovered(w) : w \in {v \in Wakes : disk[v].phase = "completing"}}
  /\ active' = [w \in Wakes |-> IF disk[w].phase = "completing" THEN disk[w].nonce ELSE 0]
  /\ disk' = [w \in Wakes |-> IF disk[w].phase = "running" THEN NoClaim ELSE disk[w]]
  /\ UNCHANGED <<serverVars, concurrency, stopping, poll, ran>>

\* The rest of the server: wakes are made; leases lapse, wakes are canceled.
ServerElse ==
  /\ \E w \in Wakes : Server!Make(w, w) \/ Server!Withdraw({w})
  /\ UNCHANGED <<config, up, stopping, disk, active, poll, jobs, ran>>

------------------------------------------------------------------------------

Init ==
  /\ Server!Init
  /\ concurrency \in Concurrencies
  /\ restarts \in 0..MaxRestarts
  /\ up = TRUE /\ stopping = FALSE
  /\ disk = [w \in Wakes |-> NoClaim]
  /\ active = [w \in Wakes |-> 0]
  /\ poll = NoPoll
  /\ jobs = {} /\ ran = {}

Polls == Ask \/ ClaimAnswered \/ ClaimFails \/ \E w \in Wakes : ServerGrants(w)
Works(j) ==
  \/ HandleStarts(j) \/ HeartbeatRefused(j) \/ LeaseRunsOut(j) \/ HeartbeatFatal(j)
  \/ SessionEnds(j) \/ SessionDiscarded(j)
Reports(j) ==
  \/ ReportReaches(j) \/ ReportAnswered(j) \/ AnswerLost(j)
  \/ ReportRefused(j) \/ ReportAborted(j) \/ Settle(j)
Process == StopAsked \/ ProcessExits \/ Crash \/ Restart

Next == Polls \/ (\E j \in jobs : Works(j) \/ Reports(j)) \/ Process \/ ServerElse

Spec == Init /\ [][Next]_vars

\* The program as it usually runs: with the default --concurrency 1, or with more
\* and not started again.  With both, the finally of recover() may forget a job
\* that it did not start.
UsualInit == Init /\ (concurrency = 1 \/ restarts = 0)
UsualSpec == UsualInit /\ [][Next]_vars

\* The event loop turns: timers fire, promises settle, adapters end when they
\* are told to.  Answers are lost, but not for ever.  Nothing is assumed of the
\* server's choices, of sessions that run, of stops and of restarts.
Turn(j) ==
  \/ HandleStarts(j) \/ HeartbeatRefused(j) \/ SessionDiscarded(j)
  \/ ReportReaches(j) \/ ReportAborted(j) \/ Settle(j)
Fairness ==
  /\ \A n \in Nonces :
       /\ WF_vars(\E j \in jobs : j.nonce = n /\ Turn(j))
       /\ SF_vars(\E j \in jobs : j.nonce = n /\ ReportAnswered(j))
  /\ WF_vars(stopping /\ ClaimFails) /\ WF_vars(ProcessExits)

------------------------------------------------------------------------------
(* What the Runner promises.                                               *)

LoopTypeOK ==
  /\ concurrency \in Concurrencies /\ restarts \in 0..MaxRestarts
  /\ up \in BOOLEAN /\ stopping \in BOOLEAN
  /\ disk \in [Wakes -> Saved]
  /\ active \in [Wakes -> 0..MaxClaims]
  /\ poll \in [pc : {"none", "asked"}, max : Int,
               got : SUBSET [wake : Wakes, nonce : Nonces]]
  /\ jobs \subseteq Job
  /\ ran \subseteq Nonces

Sessions  == {j \in jobs : j.pc \in {"running", "lost"}}
Reporting == {j \in jobs : j.pc \in {"reporting", "answered"}}

\* "never two sessions for one wake" (claim-loop.test.ts): a wake handed over
\* again waits until the session of the claim before has ended.
OneSessionPerWake == \A j, k \in Sessions : j.wake = k.wake => j = k

\* --concurrency is kept, a session that is being stopped included.
WithinConcurrency == Cardinality(Sessions) <= concurrency

\* Whatever a job is doing is what a restart would read: its claim while the
\* session runs, its result from before the first report to the last.
DiskTellsJobs ==
  /\ \A j \in Sessions : disk[j.wake] = Running(j.nonce)
  /\ \A j \in Reporting : disk[j.wake] = Completing(j.nonce)

\* "A wake is never run twice by THIS Runner": no second session is started
\* for a claim, whatever stops, dies and is recovered in between.
NeverRunTwice ==
  [][\A n \in ran : (\E j \in jobs' : j.nonce = n /\ j.pc = "running")
                     => \E j \in jobs : j.nonce = n /\ j.pc = "running"]_vars

\* While the server would still take a saved result, only the report of that
\* very result takes it off the disk: no stop, crash or other claim does.
SavedResultKept ==
  [][\A w \in Wakes :
       disk[w].phase = "completing" /\ claim[w] = disk[w].nonce /\ disk'[w] # disk[w]
         => ~stopping /\ disk'[w] = NoClaim
              /\ \E j \in Reporting : j.nonce = disk[w].nonce]_vars

\* A session whose lease is gone is stopped, on a 409 or the local deadline.
LostSessionStops ==
  \A n \in Nonces : (\E j \in jobs : j.nonce = n /\ j.pc = "running" /\ claim[j.wake] # n)
                      ~> ~\E j \in Sessions : j.nonce = n

\* A saved result is reported until the server has it or refuses it, unless
\* the program stops; a program told to stop does stop.
SavedResultSettles ==
  \A n \in Nonces :
    (up /\ \E w \in Wakes : disk[w] = Completing(n))
      ~> (~up \/ \A w \in Wakes : disk[w] # Completing(n))
=============================================================================
