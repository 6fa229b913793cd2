--------------------------- MODULE ClaimLoopProofs ---------------------------
(***************************************************************************)
(* Type correctness of the Runner program, and that it starts no second    *)
(* session for a claim, for every number of wakes, claims, sessions at     *)
(* once, stops, crashes and restarts.  As it usually runs (UsualSpec), its *)
(* sessions are also one per wake and within --concurrency, its disk tells *)
(* what they do, and a saved result is kept until it is reported.          *)
(***************************************************************************)
EXTENDS ClaimLoop, FiniteSetTheorems, TLAPS

\* A claim is new until a session is started for it: on its way in the answer
\* of the poll, then with one waiting job, then in ran and on disk.
ClaimsInPoll ==
  /\ \A g \in poll.got : g.nonce \in 1..issued /\ g.nonce \notin ran
  /\ \A g \in poll.got, j \in jobs : g.nonce # j.nonce
  /\ \A g, h \in poll.got : g.nonce = h.nonce => g = h

ClaimsOfJobs ==
  /\ \A j \in jobs : j.nonce \in 1..issued /\ (j.nonce \in ran <=> j.pc # "waiting")
  /\ \A j, k \in jobs : j.pc = "waiting" /\ j.nonce = k.nonce => j = k

ClaimsOnDisk == \A w \in Wakes : disk[w].phase = "completing" => disk[w].nonce \in ran

ClaimsInv ==
  /\ LoopTypeOK
  /\ issued \in 0..MaxClaims /\ ran \subseteq 1..issued
  /\ ~up => poll = NoPoll
  /\ ClaimsInPoll /\ ClaimsOfJobs /\ ClaimsOnDisk

\* Facts about the claims that are saved.
LEMMA SavedClaims ==
  /\ NoClaim \in Saved /\ NoClaim.phase = "none" /\ NoClaim.nonce = 0
  /\ \A n \in Nonces : /\ Running(n) \in Saved /\ Running(n).phase = "running"
                       /\ Completing(n) \in Saved /\ Completing(n).phase = "completing"
                       /\ Completing(n).nonce = n
  /\ \A s \in Saved : s.phase = "completing" => s.nonce \in Nonces
<1>1. NoClaim \in Saved /\ NoClaim.phase = "none" /\ NoClaim.nonce = 0
  BY DEF Saved, NoClaim
<1>2. \A n \in Nonces : Running(n) \in Saved /\ Completing(n) \in Saved
  BY DEF Saved
<1>3. \A n : Running(n).phase = "running" /\ Completing(n).phase = "completing"
            /\ Completing(n).nonce = n
  BY DEF Running, Completing
<1>4. ASSUME NEW s \in Saved, s.phase = "completing" PROVE s.nonce \in Nonces
  <2>1. s = NoClaim \/ (\E n \in Nonces : s = Running(n)) \/ \E n \in Nonces : s = Completing(n)
    BY DEF Saved
  <2> QED
    BY <1>1, <1>3, <1>4, <2>1
<1> QED
  BY <1>1, <1>2, <1>3, <1>4

\* NoPoll is the poll that asks for nothing.
LEMMA NoPollFacts ==
  /\ NoPoll.got = {}
  /\ NoPoll \in [pc : {"none", "asked"}, max : Int, got : SUBSET [wake : Wakes, nonce : Nonces]]
BY DEF NoPoll

LEMMA InitClaims == Init => ClaimsInv
<1> SUFFICES ASSUME Init PROVE ClaimsInv
  OBVIOUS
<1>1. issued = 0 /\ ran = {} /\ jobs = {} /\ poll = NoPoll /\ up = TRUE
  BY DEF Init, Server!Init
<1>2. disk = [w \in Wakes |-> NoClaim] /\ active = [w \in Wakes |-> 0]
  BY DEF Init
<1>3. LoopTypeOK
  <2>1. disk \in [Wakes -> Saved] /\ active \in [Wakes -> 0..MaxClaims]
    BY <1>2, SavedClaims, LoopConstants
  <2>2. poll \in [pc : {"none", "asked"}, max : Int, got : SUBSET [wake : Wakes, nonce : Nonces]]
    BY <1>1, NoPollFacts
  <2> QED
    BY <1>1, <2>1, <2>2 DEF Init, LoopTypeOK
<1>4. ClaimsOnDisk
  BY <1>2, SavedClaims DEF ClaimsOnDisk
<1> QED
  BY <1>1, <1>3, <1>4, NoPollFacts, LoopConstants
  DEF ClaimsInv, ClaimsInPoll, ClaimsOfJobs

\* A job that moves on from waiting, or from a later step, in a step that
\* leaves the poll, the server's counter and the process alone.
LEMMA JobMoves ==
  ASSUME ClaimsInv, NEW j \in jobs,
         NEW p \in {"running", "lost", "reporting", "answered", "done"},
         Moves(j, p), ran' = ran \cup {j.nonce},
         poll' = poll, issued' = issued
  PROVE  /\ jobs' \subseteq Job /\ ran' \subseteq Nonces
         /\ ran' \subseteq 1..issued' /\ issued' \in 0..MaxClaims
         /\ ClaimsInPoll' /\ ClaimsOfJobs'
<1> DEFINE m == [j EXCEPT !.pc = p]
<1>1. j \in Job /\ jobs \subseteq Job /\ j.nonce \in Nonces
  BY DEF ClaimsInv, LoopTypeOK, Job
<1>2. m \in Job /\ m.pc = p /\ m.nonce = j.nonce /\ p # "waiting"
  BY <1>1 DEF Job
<1>3. jobs' = (jobs \ {j}) \cup {m}
  BY DEF Moves
<1>4. \A k \in jobs \ {j} : k.pc = "waiting" => k.nonce # j.nonce
  BY DEF ClaimsInv, ClaimsOfJobs
<1>5. j.nonce \in 1..issued
  BY DEF ClaimsInv, ClaimsOfJobs
<1>6. ClaimsInPoll'
  <2>1. \A g \in poll.got : g.nonce # j.nonce /\ \A k \in jobs : g.nonce # k.nonce
    BY DEF ClaimsInv, ClaimsInPoll
  <2>2. \A g \in poll'.got, k \in jobs' : g.nonce # k.nonce
    BY <1>2, <1>3, <2>1
  <2>3. \A g \in poll'.got : g.nonce \in 1..issued' /\ g.nonce \notin ran'
    BY <2>1 DEF ClaimsInv, ClaimsInPoll
  <2>4. \A g, h \in poll'.got : g.nonce = h.nonce => g = h
    BY DEF ClaimsInv, ClaimsInPoll
  <2> QED
    BY <2>2, <2>3, <2>4 DEF ClaimsInPoll
<1>7. ClaimsOfJobs'
  <2>1. \A k \in jobs' : k.nonce \in 1..issued' /\ (k.nonce \in ran' <=> k.pc # "waiting")
    BY <1>2, <1>3, <1>4, <1>5 DEF ClaimsInv, ClaimsOfJobs
  <2>2. \A k, l \in jobs' : k.pc = "waiting" /\ k.nonce = l.nonce => k = l
    BY <1>2, <1>3, <1>4 DEF ClaimsInv, ClaimsOfJobs
  <2> QED
    BY <2>1, <2>2 DEF ClaimsOfJobs
<1> QED
  BY <1>1, <1>2, <1>3, <1>5, <1>6, <1>7 DEF ClaimsInv, LoopTypeOK

\* What a job may write to disk.
LEMMA DiskWritten ==
  ASSUME ClaimsInv, NEW n \in ran', ran \subseteq ran', n \in Nonces, NEW w \in Wakes,
         \/ disk' = disk \/ Remove(w) \/ Put(w, Running(n)) \/ Put(w, Completing(n))
  PROVE  disk' \in [Wakes -> Saved] /\ ClaimsOnDisk'
<1>1. disk \in [Wakes -> Saved]
  BY DEF ClaimsInv, LoopTypeOK
<1>2. \A c : Put(w, c) /\ c \in Saved /\ (c.phase = "completing" => c.nonce \in ran')
               => disk' \in [Wakes -> Saved] /\ ClaimsOnDisk'
  BY <1>1 DEF Put, ClaimsInv, ClaimsOnDisk
<1> QED
  BY <1>1, <1>2, SavedClaims DEF Remove, ClaimsInv, ClaimsOnDisk

\* Every step of a job but its last.
LEMMA JobStep ==
  ASSUME ClaimsInv, NEW j \in jobs,
         \/ HandleStarts(j) \/ HeartbeatRefused(j) \/ LeaseRunsOut(j) \/ HeartbeatFatal(j)
         \/ SessionEnds(j) \/ SessionDiscarded(j) \/ ReportReaches(j) \/ ReportAnswered(j)
         \/ AnswerLost(j) \/ ReportRefused(j) \/ ReportAborted(j)
  PROVE  ClaimsInv'
<1> DEFINE n == j.nonce
           w == j.wake
           After == {"running", "lost", "reporting", "answered", "done"}
<1>1. j \in Job /\ n \in Nonces /\ w \in Wakes
  BY DEF ClaimsInv, LoopTypeOK, Job
<1>2. \E p \in After : Moves(j, p)
  BY <1>1 DEF HandleStarts, HeartbeatRefused, LeaseRunsOut, HeartbeatFatal, SessionEnds,
     SessionDiscarded, ReportReaches, ReportAnswered, AnswerLost, ReportRefused, ReportAborted
<1>3. ran' = ran \cup {n}
  <2>1. CASE HandleStarts(j)
    BY <2>1 DEF HandleStarts
  <2>2. CASE ~HandleStarts(j)
    <3>1. j.pc # "waiting" /\ ran' = ran
      BY <2>2 DEF HandleStarts, HeartbeatRefused, LeaseRunsOut, HeartbeatFatal, SessionEnds,
         SessionDiscarded, ReportReaches, ReportAnswered, AnswerLost, ReportRefused, ReportAborted
    <3> QED
      BY <3>1 DEF ClaimsInv, ClaimsOfJobs
  <2> QED
    BY <2>1, <2>2
<1>4. poll' = poll /\ up' = up /\ active' = active /\ config' = config /\ stopping' \in BOOLEAN
  BY DEF HandleStarts, HeartbeatRefused, LeaseRunsOut, HeartbeatFatal, SessionEnds,
     SessionDiscarded, ReportReaches, ReportAnswered, AnswerLost, ReportRefused, ReportAborted,
     ClaimsInv, LoopTypeOK
<1>5. issued' = issued
  BY DEF HandleStarts, HeartbeatRefused, LeaseRunsOut, HeartbeatFatal, SessionEnds,
     SessionDiscarded, ReportReaches, ReportAnswered, AnswerLost, ReportRefused, ReportAborted,
     serverVars, Server!Report
<1>6. \/ disk' = disk \/ Remove(w) \/ Put(w, Running(n)) \/ Put(w, Completing(n))
  BY DEF HandleStarts, HeartbeatRefused, LeaseRunsOut, HeartbeatFatal, SessionEnds,
     SessionDiscarded, ReportReaches, ReportAnswered, AnswerLost, ReportRefused, ReportAborted
<1>7. /\ jobs' \subseteq Job /\ ran' \subseteq Nonces
      /\ ran' \subseteq 1..issued' /\ issued' \in 0..MaxClaims
      /\ ClaimsInPoll' /\ ClaimsOfJobs'
  BY <1>2, <1>3, <1>4, <1>5, JobMoves
<1>8. disk' \in [Wakes -> Saved] /\ ClaimsOnDisk'
  BY <1>1, <1>3, <1>6, DiskWritten
<1>9. LoopTypeOK'
  BY <1>4, <1>7, <1>8 DEF ClaimsInv, LoopTypeOK, config
<1> QED
  BY <1>4, <1>7, <1>8, <1>9 DEF ClaimsInv

\* The last step of a job.
LEMMA SettleStep ==
  ASSUME ClaimsInv, NEW j \in jobs, Settle(j)
  PROVE  ClaimsInv'
<1>1. jobs' \subseteq jobs /\ j \in Job
  BY DEF Settle, ClaimsInv, LoopTypeOK
<1>2. active' \in [Wakes -> 0..MaxClaims]
  <2>1. active \in [Wakes -> 0..MaxClaims] /\ 0 \in 0..MaxClaims
    BY LoopConstants DEF ClaimsInv, LoopTypeOK
  <2>2. active' = active \/ active' = [active EXCEPT ![j.wake] = 0]
    BY DEF Settle
  <2> QED
    BY <2>1, <2>2
<1>3. /\ poll' = poll /\ up' = up /\ config' = config /\ stopping' = stopping
      /\ disk' = disk /\ ran' = ran /\ issued' = issued
  BY DEF Settle, serverVars
<1>4. LoopTypeOK'
  BY <1>1, <1>2, <1>3 DEF ClaimsInv, LoopTypeOK, config
<1>5. ClaimsInPoll' /\ ClaimsOfJobs' /\ ClaimsOnDisk'
  BY <1>1, <1>3 DEF ClaimsInv, ClaimsInPoll, ClaimsOfJobs, ClaimsOnDisk
<1> QED
  BY <1>3, <1>4, <1>5 DEF ClaimsInv

\* The poll: asked, answered, failed.
LEMMA AskStep ==
  ASSUME ClaimsInv, Ask \/ ClaimFails
  PROVE  ClaimsInv'
<1>1. Busy \in Nat
  <2>1. IsFiniteSet({w \in Wakes : active[w] # 0})
    <3>1. {w \in Wakes : active[w] # 0} \subseteq Wakes
      OBVIOUS
    <3> QED
      BY <3>1, FS_Subset, LoopConstants
  <2> QED
    BY <2>1, FS_CardinalityType DEF Busy
<1>2. concurrency \in Int
  BY LoopConstants DEF ClaimsInv, LoopTypeOK
<1>3. poll' \in [pc : {"none", "asked"}, max : Int, got : SUBSET [wake : Wakes, nonce : Nonces]]
      /\ poll'.got = {}
  <2>1. CASE Ask
    <3>1. poll' = [pc |-> "asked", max |-> concurrency - Busy, got |-> {}]
      BY <2>1 DEF Ask
    <3>2. concurrency - Busy \in Int
      BY <1>1, <1>2
    <3> QED
      BY <3>1, <3>2
  <2>2. CASE ClaimFails
    BY <2>2, NoPollFacts DEF ClaimFails
  <2> QED
    BY <2>1, <2>2
<1>4. /\ up' = up /\ config' = config /\ stopping' \in BOOLEAN /\ active' = active
      /\ jobs' = jobs /\ disk' = disk /\ ran' = ran /\ issued' = issued
  BY DEF Ask, ClaimFails, serverVars, ClaimsInv, LoopTypeOK
<1>5. ~up' => poll' = NoPoll
  <2>1. CASE Ask
    <3>1. up /\ up' = up
      BY <2>1 DEF Ask
    <3> QED
      BY <3>1
  <2>2. CASE ClaimFails
    BY <2>2 DEF ClaimFails
  <2> QED
    BY <2>1, <2>2
<1>6. LoopTypeOK'
  BY <1>3, <1>4 DEF ClaimsInv, LoopTypeOK, config
<1> QED
  BY <1>3, <1>4, <1>5, <1>6 DEF ClaimsInv, ClaimsInPoll, ClaimsOfJobs, ClaimsOnDisk

LEMMA GrantStep ==
  ASSUME ClaimsInv, NEW w \in Wakes, ServerGrants(w)
  PROVE  ClaimsInv'
<1> DEFINE g == [wake |-> w, nonce |-> issued + 1]
<1>1. issued \in Nat /\ issued + 1 \in Nonces /\ issued' = issued + 1
  BY LoopConstants DEF ServerGrants, Server!Grant, ClaimsInv, Nonces
<1>2. poll \in [pc : {"none", "asked"}, max : Int, got : SUBSET [wake : Wakes, nonce : Nonces]]
  BY DEF ClaimsInv, LoopTypeOK
<1>3. /\ poll' = [poll EXCEPT !.got = @ \cup {g}]
      /\ config' = config /\ up' = up /\ stopping' = stopping /\ active' = active
      /\ jobs' = jobs /\ disk' = disk /\ ran' = ran
  BY DEF ServerGrants
<1>4. g \in [wake : Wakes, nonce : Nonces] /\ g.nonce = issued + 1
  BY <1>1
<1>5. poll'.got = poll.got \cup {g}
      /\ poll' \in [pc : {"none", "asked"}, max : Int, got : SUBSET [wake : Wakes, nonce : Nonces]]
  BY <1>2, <1>3, <1>4
<1>6. 1..issued \subseteq 1..issued' /\ issued + 1 \in 1..issued' /\ issued + 1 \notin 1..issued
      /\ issued' \in 0..MaxClaims
  BY <1>1, LoopConstants DEF Nonces
<1>7. ClaimsInPoll'
  <2>1. \A h \in poll.got : h.nonce \in 1..issued
    BY DEF ClaimsInv, ClaimsInPoll
  <2>2. \A k \in jobs : k.nonce \in 1..issued
    BY DEF ClaimsInv, ClaimsOfJobs
  <2>3. issued + 1 \notin ran
    BY <1>6 DEF ClaimsInv
  <2>4. \A h \in poll'.got : h.nonce \in 1..issued' /\ h.nonce \notin ran'
    BY <1>3, <1>4, <1>5, <1>6, <2>3 DEF ClaimsInv, ClaimsInPoll
  <2>5. \A h \in poll'.got, k \in jobs' : h.nonce # k.nonce
    BY <1>3, <1>4, <1>5, <1>6, <2>2 DEF ClaimsInv, ClaimsInPoll
  <2>6. \A h, i \in poll'.got : h.nonce = i.nonce => h = i
    BY <1>4, <1>5, <1>6, <2>1 DEF ClaimsInv, ClaimsInPoll
  <2> QED
    BY <2>4, <2>5, <2>6 DEF ClaimsInPoll
<1>8. ClaimsOfJobs' /\ ClaimsOnDisk'
  BY <1>3, <1>6 DEF ClaimsInv, ClaimsOfJobs, ClaimsOnDisk
<1>9. LoopTypeOK'
  BY <1>3, <1>5 DEF ClaimsInv, LoopTypeOK, config
<1>10. up
  BY NoPollFacts DEF ServerGrants, ClaimsInv, NoPoll
<1> QED
  BY <1>3, <1>6, <1>7, <1>8, <1>9, <1>10 DEF ClaimsInv

\* start() makes one waiting job of every claim of the answer.
LEMMA AnsweredStep ==
  ASSUME ClaimsInv, ClaimAnswered
  PROVE  ClaimsInv'
<1> DEFINE JobFor(g) == [nonce |-> g.nonce, wake |-> g.wake, kind |-> "handle",
                         prior |-> active[g.wake], pc |-> "waiting"]
<1>1. poll.got \subseteq [wake : Wakes, nonce : Nonces]
  BY DEF ClaimsInv, LoopTypeOK
<1>2. active \in [Wakes -> 0..MaxClaims] /\ Nonces \subseteq 0..MaxClaims
  BY LoopConstants DEF ClaimsInv, LoopTypeOK, Nonces
<1>3. jobs' = jobs \cup {JobFor(g) : g \in poll.got}
  BY DEF ClaimAnswered
<1>4. \A g \in poll.got : JobFor(g) \in Job /\ JobFor(g).pc = "waiting"
                          /\ JobFor(g).nonce = g.nonce
  BY <1>1, <1>2 DEF Job
<1>5. active' \in [Wakes -> 0..MaxClaims]
  <2>1. ASSUME NEW w \in Wakes, NEW h \in poll.got, h.wake = w
        PROVE  (CHOOSE g \in poll.got : g.wake = w).nonce \in Nonces
    <3>1. (CHOOSE g \in poll.got : g.wake = w) \in poll.got
      BY <2>1
    <3> QED
      BY <1>1, <3>1
  <2> QED
    BY <1>2, <2>1 DEF ClaimAnswered
<1>6. /\ poll' = NoPoll /\ poll'.got = {} /\ up' = up /\ config' = config
      /\ stopping' = stopping /\ disk' = disk /\ ran' = ran /\ issued' = issued
  BY NoPollFacts DEF ClaimAnswered, serverVars
<1>7. ClaimsOfJobs'
  <2>1. \A g \in poll.got : g.nonce \in 1..issued /\ g.nonce \notin ran
                            /\ \A k \in jobs : g.nonce # k.nonce
    BY DEF ClaimsInv, ClaimsInPoll
  <2>2. \A k \in jobs' : k \in jobs \/ \E g \in poll.got : k = JobFor(g)
    BY <1>3
  <2>3. \A k \in jobs' : k.nonce \in 1..issued' /\ (k.nonce \in ran' <=> k.pc # "waiting")
    BY <1>4, <1>6, <2>1, <2>2 DEF ClaimsInv, ClaimsOfJobs
  <2>4. ASSUME NEW k \in jobs', NEW l \in jobs', k.pc = "waiting", k.nonce = l.nonce
        PROVE  k = l
    <3>1. CASE k \in jobs /\ l \in jobs
      BY <2>4, <3>1 DEF ClaimsInv, ClaimsOfJobs
    <3>2. CASE (k \in jobs /\ l \notin jobs) \/ (k \notin jobs /\ l \in jobs)
      BY <1>4, <2>1, <2>2, <2>4, <3>2
    <3>3. CASE k \notin jobs /\ l \notin jobs
      <4>1. PICK g \in poll.got, h \in poll.got : k = JobFor(g) /\ l = JobFor(h)
        BY <2>2, <3>3
      <4>2. g = h
        BY <1>4, <2>4, <4>1 DEF ClaimsInv, ClaimsInPoll
      <4> QED
        BY <4>1, <4>2
    <3> QED
      BY <3>1, <3>2, <3>3
  <2> QED
    BY <2>3, <2>4 DEF ClaimsOfJobs
<1>8. jobs' \subseteq Job
  BY <1>3, <1>4 DEF ClaimsInv, LoopTypeOK
<1>9. LoopTypeOK'
  BY <1>5, <1>6, <1>8, NoPollFacts DEF ClaimsInv, LoopTypeOK, config
<1> QED
  BY <1>6, <1>7, <1>9 DEF ClaimsInv, ClaimsInPoll, ClaimsOnDisk

\* The program goes down, or is told to stop.
LEMMA DownStep ==
  ASSUME ClaimsInv, StopAsked \/ ProcessExits \/ Crash
  PROVE  ClaimsInv'
<1>1. CASE StopAsked
  <2>1. LoopTypeOK'
    BY <1>1 DEF StopAsked, ClaimsInv, LoopTypeOK, config
  <2> QED
    BY <1>1, <2>1
    DEF StopAsked, serverVars, ClaimsInv, ClaimsInPoll, ClaimsOfJobs, ClaimsOnDisk
<1>2. CASE Down
  <2>1. /\ up' = FALSE /\ stopping' = FALSE /\ poll' = NoPoll /\ poll'.got = {} /\ jobs' = {}
        /\ active' \in [Wakes -> 0..MaxClaims]
    BY <1>2, NoPollFacts, LoopConstants DEF Down
  <2>2. config' = config /\ disk' = disk /\ ran' = ran /\ issued' = issued
    BY <1>2 DEF Down, serverVars
  <2>3. LoopTypeOK'
    BY <2>1, <2>2, NoPollFacts DEF ClaimsInv, LoopTypeOK, config
  <2> QED
    BY <2>1, <2>2, <2>3 DEF ClaimsInv, ClaimsInPoll, ClaimsOfJobs, ClaimsOnDisk
<1> QED
  BY <1>1, <1>2 DEF ProcessExits, Crash

\* recover(): only results are taken up, as jobs that report.
LEMMA RestartStep ==
  ASSUME ClaimsInv, Restart
  PROVE  ClaimsInv'
<1> DEFINE Kept == {v \in Wakes : disk[v].phase = "completing"}
<1>1. disk \in [Wakes -> Saved] /\ poll = NoPoll /\ poll.got = {}
  BY NoPollFacts DEF Restart, ClaimsInv, LoopTypeOK
<1>2. \A w \in Kept : /\ disk[w].nonce \in Nonces /\ disk[w].nonce \in ran
                      /\ Recovered(w).nonce = disk[w].nonce
                      /\ Recovered(w).pc = "reporting"
                      /\ Recovered(w) \in Job
  <2>1. ASSUME NEW w \in Kept PROVE disk[w].nonce \in Nonces /\ disk[w].nonce \in ran
    BY <1>1, <2>1, SavedClaims DEF ClaimsInv, ClaimsOnDisk
  <2>2. 0 \in 0..MaxClaims
    BY LoopConstants
  <2> QED
    BY <2>1, <2>2 DEF Recovered, Job
<1>3. jobs' = {Recovered(w) : w \in Kept}
  BY DEF Restart
<1>4. active' \in [Wakes -> 0..MaxClaims]
  <2>1. \A w \in Wakes : (IF disk[w].phase = "completing" THEN disk[w].nonce ELSE 0) \in 0..MaxClaims
    BY <1>2, LoopConstants DEF Nonces
  <2> QED
    BY <2>1 DEF Restart
<1>5. /\ disk' \in [Wakes -> Saved]
      /\ \A w \in Wakes : disk'[w].phase = "completing" => disk'[w] = disk[w]
  <2>1. disk' = [w \in Wakes |-> IF disk[w].phase = "running" THEN NoClaim ELSE disk[w]]
    BY DEF Restart
  <2>2. NoClaim \in Saved /\ NoClaim.phase # "completing"
    BY SavedClaims
  <2> QED
    BY <1>1, <2>1, <2>2
<1>6. restarts' \in 0..MaxRestarts
  BY LoopConstants DEF Restart, ClaimsInv, LoopTypeOK
<1>7. /\ up' = TRUE /\ poll' = poll /\ stopping' = stopping /\ concurrency' = concurrency
      /\ ran' = ran /\ issued' = issued
  BY DEF Restart, serverVars
<1>8. jobs' \subseteq Job
  BY <1>2, <1>3
<1>9. LoopTypeOK'
  BY <1>4, <1>5, <1>6, <1>7, <1>8 DEF ClaimsInv, LoopTypeOK
<1>10. ClaimsOfJobs'
  <2>1. \A j \in jobs' : j.pc = "reporting" /\ j.nonce \in ran
    BY <1>2, <1>3
  <2> QED
    BY <1>7, <2>1 DEF ClaimsInv, ClaimsOfJobs
<1>11. ClaimsOnDisk'
  BY <1>5, <1>7 DEF ClaimsInv, ClaimsOnDisk
<1> QED
  BY <1>1, <1>7, <1>9, <1>10, <1>11 DEF ClaimsInv, ClaimsInPoll

\* The server's other steps, and steps in which nothing changes.
LEMMA ElsewhereStep ==
  ASSUME ClaimsInv, ServerElse \/ UNCHANGED vars
  PROVE  ClaimsInv'
<1>1. /\ issued' = issued /\ config' = config /\ up' = up /\ stopping' = stopping
      /\ disk' = disk /\ active' = active /\ poll' = poll /\ jobs' = jobs /\ ran' = ran
  BY DEF ServerElse, Server!Make, Server!Withdraw, vars, serverVars
<1>2. LoopTypeOK'
  BY <1>1 DEF ClaimsInv, LoopTypeOK, config
<1> QED
  BY <1>1, <1>2 DEF ClaimsInv, ClaimsInPoll, ClaimsOfJobs, ClaimsOnDisk

LEMMA NextClaims ==
  ASSUME ClaimsInv, [Next]_vars
  PROVE  ClaimsInv'
<1>1. CASE Polls
  BY <1>1, AskStep, AnsweredStep, GrantStep DEF Polls
<1>2. ASSUME NEW j \in jobs, Works(j) \/ Reports(j) PROVE ClaimsInv'
  BY <1>2, JobStep, SettleStep DEF Works, Reports
<1>3. CASE Process
  BY <1>3, DownStep, RestartStep DEF Process
<1>4. CASE ServerElse \/ UNCHANGED vars
  BY <1>4, ElsewhereStep
<1> QED
  BY <1>1, <1>2, <1>3, <1>4 DEF Next

\* Every state of the Runner program is well typed.
THEOREM LoopTypeCorrect == Spec => []LoopTypeOK
<1>1. Init => ClaimsInv
  BY InitClaims
<1>2. ClaimsInv /\ [Next]_vars => ClaimsInv'
  BY NextClaims
<1>3. ClaimsInv => LoopTypeOK
  BY DEF ClaimsInv
<1> QED
  BY <1>1, <1>2, <1>3, PTL DEF Spec

\* A job that runs after a step ran before it, or was waiting with a claim no
\* session was started for.
LEMMA NewSession ==
  ASSUME ClaimsInv, [Next]_vars,
         NEW j \in jobs', j.pc = "running", j.nonce \in ran
  PROVE  \E k \in jobs : k.nonce = j.nonce /\ k.pc = "running"
<1>1. CASE j \in jobs
  BY <1>1
<1>2. CASE j \notin jobs
  <2>1. ASSUME NEW k \in jobs, Works(k) \/ Reports(k) PROVE HandleStarts(k) /\ j.nonce = k.nonce
    <3>1. k \in Job
      BY DEF ClaimsInv, LoopTypeOK
    <3>2. CASE HandleStarts(k)
      <4>1. jobs' = (jobs \ {k}) \cup {[k EXCEPT !.pc = "running"]}
        BY <3>2 DEF HandleStarts, Moves
      <4> QED
        BY <1>2, <3>1, <3>2, <4>1 DEF Job
    <3>3. CASE ~HandleStarts(k)
      <4>1. Settle(k) \/ \E p \in {"lost", "reporting", "answered", "done"} : Moves(k, p)
        BY <2>1, <3>3, <3>1 DEF Works, Reports, HeartbeatRefused, LeaseRunsOut, HeartbeatFatal,
           SessionEnds, SessionDiscarded, ReportReaches, ReportAnswered, AnswerLost,
           ReportRefused, ReportAborted, Job
      <4> QED
        BY <1>2, <3>1, <4>1 DEF Settle, Moves, Job
    <3> QED
      BY <3>2, <3>3
  <2>2. ASSUME NEW k \in jobs, Works(k) \/ Reports(k) PROVE FALSE
    BY <2>1, <2>2 DEF HandleStarts, ClaimsInv, ClaimsOfJobs
  <2>3. CASE Polls
    <3>1. jobs' = jobs \/ ClaimAnswered
      BY <2>3 DEF Polls, Ask, ClaimFails, ServerGrants
    <3>2. CASE ClaimAnswered
      BY <1>2, <3>2 DEF ClaimAnswered
    <3> QED
      BY <1>2, <3>1, <3>2
  <2>4. CASE Process
    BY <1>2, <2>4 DEF Process, StopAsked, ProcessExits, Crash, Down, Restart, Recovered
  <2>5. CASE ServerElse \/ UNCHANGED vars
    BY <1>2, <2>5 DEF ServerElse, vars
  <2> QED
    BY <2>2, <2>3, <2>4, <2>5 DEF Next
<1> QED
  BY <1>1, <1>2

\* "A wake is never run twice by THIS Runner" (claim-loop.ts): whatever is
\* stopped, dies, is lost or is recovered, a claim has one session.
THEOREM OneSessionPerClaim == Spec => NeverRunTwice
<1> DEFINE Once == \A n \in ran : (\E j \in jobs' : j.nonce = n /\ j.pc = "running")
                                    => \E j \in jobs : j.nonce = n /\ j.pc = "running"
<1>1. Init => ClaimsInv
  BY InitClaims
<1>2. ClaimsInv /\ [Next]_vars => ClaimsInv'
  BY NextClaims
<1>3. ClaimsInv /\ [Next]_vars => Once
  BY NewSession
<1> QED
  BY <1>1, <1>2, <1>3, PTL DEF Spec, NeverRunTwice

------------------------------------------------------------------------------
(* The program as it usually runs: with the default --concurrency, or not  *)
(* started again.                                                          *)

\* The jobs of a wake are a queue: all but the oldest wait, each for the one
\* that was handed out before it.
JobsQueue ==
  /\ \A j, k \in jobs : j.nonce = k.nonce => j = k
  /\ \A j \in jobs : j.prior < j.nonce
  /\ \A j, k \in jobs : j.wake = k.wake /\ k.nonce < j.nonce =>
       /\ j.pc = "waiting" /\ k.nonce <= j.prior
       /\ \E l \in jobs : l.wake = j.wake /\ l.nonce = j.prior

\* active has the newest of them.
ActiveIsLast ==
  /\ \A j \in jobs : j.nonce <= active[j.wake]
  /\ \A w \in Wakes : active[w] # 0 => \E j \in jobs : j.wake = w /\ j.nonce = active[w]

\* What the poll gets is newer than every job, and than what is saved.
PollIsNew ==
  \A g \in poll.got :
    /\ \A j \in jobs : j.nonce < g.nonce
    /\ disk[g.wake].nonce < g.nonce
    /\ \A h \in poll.got : g.wake = h.wake => g = h

\* What is saved is of the oldest job of its wake, or of one before them.
DiskIsOldest ==
  /\ DiskTellsJobs
  /\ \A w \in Wakes : disk[w].nonce <= issued
  /\ \A j \in jobs : disk[j.wake].nonce <= j.nonce

\* The server's claim on a wake is the newest that was handed out for it.
ClaimIsNewest ==
  /\ claim \in [Wakes -> 0..issued]
  /\ \A j \in jobs : claim[j.wake] # 0 => j.nonce <= claim[j.wake]
  /\ \A g \in poll.got : claim[g.wake] # 0 => g.nonce <= claim[g.wake]
  /\ \A w \in Wakes : claim[w] # 0 => disk[w].nonce <= claim[w]

\* What is busy and what is asked for stay within --concurrency.
AskedFits ==
  /\ Busy <= concurrency
  /\ IsFiniteSet(poll.got)
  /\ poll.pc = "asked" => Cardinality(poll.got) <= poll.max /\ poll.max + Busy <= concurrency

\* With --concurrency 1 there is one job at most, and no claim saved but its own.
OneAtATime ==
  /\ \A j, k \in jobs : j = k
  /\ poll.pc = "asked" => jobs = {}
  /\ poll.pc = "asked" \/ (\E j \in jobs : j.pc = "waiting") => \A w \in Wakes : disk[w] = NoClaim
  /\ \A v, w \in Wakes : disk[v] # NoClaim /\ disk[w] # NoClaim => v = w
  /\ \A j \in jobs, w \in Wakes : disk[w] # NoClaim => j.wake = w
  /\ up /\ ~stopping => \A w \in Wakes : disk[w] # NoClaim =>
       \E j \in jobs : j.wake = w /\ j.pc \in {"running", "lost", "reporting", "answered"}

\* With more, no result is recovered, for the program is not started again.
Unrecovered == restarts = 0 /\ \A j \in jobs : j.kind = "handle"

UsualInv ==
  /\ ClaimsInv
  /\ JobsQueue /\ ActiveIsLast /\ PollIsNew /\ DiskIsOldest /\ ClaimIsNewest /\ AskedFits
  /\ concurrency = 1 => OneAtATime
  /\ concurrency = 1 \/ Unrecovered

\* What a job, a poll and the disk look like in a state of ClaimsInv.
LEMMA ClaimsFacts ==
  ASSUME ClaimsInv
  PROVE  /\ concurrency \in Nat \ {0} /\ issued \in Nat
         /\ jobs \subseteq Job /\ disk \in [Wakes -> Saved] /\ active \in [Wakes -> 0..MaxClaims]
         /\ \A j \in jobs : /\ j.nonce \in Nat \ {0} /\ j.nonce <= issued /\ j.wake \in Wakes
                            /\ j.prior \in Nat
         /\ poll.got \subseteq [wake : Wakes, nonce : Nonces]
         /\ \A g \in poll.got : g.wake \in Wakes /\ g.nonce \in Nat \ {0} /\ g.nonce <= issued
<1>1. concurrency \in Nat \ {0} /\ issued \in Nat /\ jobs \subseteq Job /\ disk \in [Wakes -> Saved]
      /\ active \in [Wakes -> 0..MaxClaims] /\ poll.got \subseteq [wake : Wakes, nonce : Nonces]
  BY LoopConstants DEF ClaimsInv, LoopTypeOK
<1>2. ASSUME NEW j \in jobs
      PROVE  j.nonce \in Nat \ {0} /\ j.nonce <= issued /\ j.wake \in Wakes /\ j.prior \in Nat
  <2>1. j.nonce \in 1..issued /\ j \in Job
    BY <1>1 DEF ClaimsInv, ClaimsOfJobs
  <2> QED
    BY <1>1, <2>1, LoopConstants DEF Job
<1>3. ASSUME NEW g \in poll.got
      PROVE  g.wake \in Wakes /\ g.nonce \in Nat \ {0} /\ g.nonce <= issued
  <2>1. g.nonce \in 1..issued /\ g.wake \in Wakes
    BY <1>1 DEF ClaimsInv, ClaimsInPoll
  <2> QED
    BY <1>1, <2>1
<1> QED
  BY <1>1, <1>2, <1>3

\* The nonces that are saved.
LEMMA SavedNonces == \A s \in Saved : s.nonce \in Nat
BY LoopConstants DEF Saved, NoClaim, Running, Completing, Nonces

\* Of the jobs of a wake one at most does not wait, and it is the oldest.
LEMMA OthersWait ==
  ASSUME ClaimsInv, JobsQueue, NEW j \in jobs, j.pc # "waiting",
         NEW k \in jobs, k.wake = j.wake, k # j
  PROVE  k.pc = "waiting" /\ j.nonce < k.nonce
BY ClaimsFacts DEF JobsQueue

\* A job moves on, and saves c or leaves what is saved.
LEMMA JobTurn ==
  ASSUME UsualInv, ClaimsInv', NEW j \in jobs, NEW c,
         NEW p \in {"running", "lost", "reporting", "answered", "done"},
         Moves(j, p), j.pc = "waiting" => \A k \in jobs : k.nonce # j.prior,
         Put(j.wake, c), c.nonce \in Nat, c.nonce <= j.nonce,
         p \in {"running", "lost"} => c = Running(j.nonce),
         p \in {"reporting", "answered"} => c = Completing(j.nonce),
         p = "done" => c = NoClaim \/ stopping',
         up' = up /\ (stopping => stopping') /\ poll' = poll /\ active' = active /\ config' = config,
         issued' = issued, claim' \in [Wakes -> 0..issued],
         \A v \in Wakes : claim'[v] \in {0, claim[v]}
  PROVE  UsualInv'
<1> DEFINE m == [j EXCEPT !.pc = p]
           w == j.wake
<1>1. j \in Job /\ w \in Wakes /\ j.nonce \in Nat \ {0} /\ j.nonce <= issued
  BY ClaimsFacts DEF UsualInv
<1>2. /\ m.nonce = j.nonce /\ m.wake = w /\ m.prior = j.prior /\ m.kind = j.kind
      /\ m.pc = p /\ m.pc # "waiting"
  BY <1>1 DEF Job
<1>3. jobs' = (jobs \ {j}) \cup {m}
  BY DEF Moves
<1>4. \A k \in jobs' : \E l \in jobs : /\ k.nonce = l.nonce /\ k.wake = l.wake /\ k.prior = l.prior
                                       /\ k.kind = l.kind /\ ((k = l /\ k # j) \/ (k = m /\ l = j))
  <2>1. ASSUME NEW k \in jobs'
        PROVE  \E l \in jobs : /\ k.nonce = l.nonce /\ k.wake = l.wake /\ k.prior = l.prior
                               /\ k.kind = l.kind /\ ((k = l /\ k # j) \/ (k = m /\ l = j))
    <3>1. CASE k = m
      BY <1>2, <3>1
    <3>2. CASE k # m
      BY <1>3, <3>2
    <3> HIDE DEF m
    <3> QED
      BY <3>1, <3>2
  <2> HIDE DEF m
  <2> QED
    BY <2>1
<1>5. \A l \in jobs : \E k \in jobs' : /\ k.nonce = l.nonce /\ k.wake = l.wake
  BY <1>2, <1>3
<1>6. /\ \A k \in jobs : k.nonce \in Nat \ {0} /\ k.nonce <= issued /\ k.wake \in Wakes /\ k.prior \in Nat
      /\ \A g \in poll.got : g.wake \in Wakes /\ g.nonce \in Nat \ {0} /\ g.nonce <= issued
      /\ disk \in [Wakes -> Saved] /\ issued \in Nat
      /\ \A v \in Wakes : disk[v].nonce \in Nat
  BY ClaimsFacts, SavedNonces DEF UsualInv
<1>7. disk' = [disk EXCEPT ![w] = c] /\ disk'[w] = c /\ \A v \in Wakes \ {w} : disk'[v] = disk[v]
  BY <1>1, <1>6 DEF Put
<1> HIDE DEF m, w
<1>8. JobsQueue'
  <2>1. \A k, l \in jobs' : k.nonce = l.nonce => k = l
    BY <1>4 DEF UsualInv, JobsQueue
  <2>2. \A k \in jobs' : k.prior < k.nonce
    BY <1>4 DEF UsualInv, JobsQueue
  <2>3. ASSUME NEW k \in jobs', NEW l \in jobs', k.wake = l.wake, l.nonce < k.nonce
        PROVE  /\ k.pc = "waiting" /\ l.nonce <= k.prior
               /\ \E i \in jobs' : i.wake = k.wake /\ i.nonce = k.prior
    <3>1. PICK kk \in jobs, ll \in jobs :
            /\ k.nonce = kk.nonce /\ k.wake = kk.wake /\ k.prior = kk.prior
            /\ ((k = kk /\ k # j) \/ (k = m /\ kk = j))
            /\ l.nonce = ll.nonce /\ l.wake = ll.wake
      BY <1>4
    <3>2. kk.pc = "waiting" /\ ll.nonce <= kk.prior /\ \E i \in jobs : i.wake = kk.wake /\ i.nonce = kk.prior
      BY <2>3, <3>1 DEF UsualInv, JobsQueue
    <3>3. kk # j
      BY <3>2
    <3> QED
      BY <1>5, <3>1, <3>2, <3>3
  <2> QED
    BY <2>1, <2>2, <2>3 DEF JobsQueue
<1>9. ActiveIsLast'
  <2>1. \A k \in jobs' : k.nonce <= active[k.wake]
    BY <1>4 DEF UsualInv, ActiveIsLast
  <2>2. \A v \in Wakes : active[v] # 0 => \E k \in jobs' : k.wake = v /\ k.nonce = active[v]
    BY <1>5 DEF UsualInv, ActiveIsLast
  <2> QED
    BY <2>1, <2>2 DEF ActiveIsLast
<1>10. PollIsNew'
  <2>1. ASSUME NEW g \in poll.got
        PROVE  /\ \A k \in jobs' : k.nonce < g.nonce
               /\ disk'[g.wake].nonce < g.nonce
               /\ \A h \in poll.got : g.wake = h.wake => g = h
    <3>1. /\ \A k \in jobs : k.nonce < g.nonce
          /\ disk[g.wake].nonce < g.nonce
          /\ \A h \in poll.got : g.wake = h.wake => g = h
      BY DEF UsualInv, PollIsNew
    <3>2. c.nonce < g.nonce
      BY <1>6, <3>1
    <3> QED
      BY <1>4, <1>6, <1>7, <3>1, <3>2
  <2> QED
    BY <2>1 DEF PollIsNew
<1>11. \A k \in jobs' : k.wake = w /\ k # m => k.pc = "waiting" /\ j.nonce < k.nonce
  <2>1. m \in jobs' /\ m.pc # "waiting"
    BY <1>2, <1>3
  <2>2. ASSUME NEW k \in jobs', k.wake = w, k # m
        PROVE  k.pc = "waiting" /\ j.nonce < k.nonce
    <3>1. k.nonce # m.nonce /\ k.nonce \in Nat /\ m.nonce \in Nat
      BY <1>2, <1>4, <1>6, <1>8, <2>1, <2>2 DEF JobsQueue
    <3>2. ~(k.nonce < m.nonce)
      BY <1>2, <1>8, <2>1, <2>2 DEF JobsQueue
    <3>3. m.nonce < k.nonce
      BY <3>1, <3>2
    <3> QED
      BY <1>2, <1>8, <2>1, <2>2, <3>3 DEF JobsQueue
  <2> QED
    BY <2>2
<1>12. DiskIsOldest'
  <2>1. DiskTellsJobs'
    <3>1. ASSUME NEW k \in jobs'
          PROVE  /\ k.pc \in {"running", "lost"} => disk'[k.wake] = Running(k.nonce)
                 /\ k.pc \in {"reporting", "answered"} => disk'[k.wake] = Completing(k.nonce)
      <4>1. CASE k = m
        BY <1>2, <1>7, <4>1
      <4>2. CASE k # m /\ k.wake = w
        BY <1>11, <4>2
      <4>3. CASE k # m /\ k.wake # w
        <5>1. k \in jobs /\ k.wake \in Wakes
          BY <1>4, <1>6, <4>3
        <5>2. disk'[k.wake] = disk[k.wake]
          BY <1>7, <4>3, <5>1
        <5> QED
          BY <5>1, <5>2 DEF UsualInv, DiskIsOldest, DiskTellsJobs, Sessions, Reporting
      <4> QED
        BY <4>1, <4>2, <4>3
    <3> QED
      BY <3>1 DEF DiskTellsJobs, Sessions, Reporting
  <2>2. \A v \in Wakes : disk'[v].nonce <= issued
    BY <1>1, <1>6, <1>7 DEF UsualInv, DiskIsOldest
  <2>3. ASSUME NEW k \in jobs' PROVE disk'[k.wake].nonce <= k.nonce
    <3>1. CASE k = m
      BY <1>2, <1>7, <3>1
    <3>2. CASE k # m /\ k.wake = w
      BY <1>1, <1>4, <1>6, <1>7, <1>11, <3>2
    <3>3. CASE k # m /\ k.wake # w
      BY <1>4, <1>6, <1>7, <3>3 DEF UsualInv, DiskIsOldest
    <3> QED
      BY <3>1, <3>2, <3>3
  <2> QED
    BY <2>1, <2>2, <2>3 DEF DiskIsOldest
<1>13. ClaimIsNewest'
  <2>1. \A k \in jobs' : claim'[k.wake] # 0 => k.nonce <= claim'[k.wake]
    BY <1>4, <1>6 DEF UsualInv, ClaimIsNewest
  <2>2. \A g \in poll.got : claim'[g.wake] # 0 => g.nonce <= claim'[g.wake]
    BY <1>6 DEF UsualInv, ClaimIsNewest
  <2>3. ASSUME NEW v \in Wakes, claim'[v] # 0 PROVE disk'[v].nonce <= claim'[v]
    <3>1. claim'[v] = claim[v] /\ claim[v] \in Nat
      BY <1>6, <2>3
    <3>2. CASE v = w
      <4>1. j.nonce <= claim[v]
        BY <2>3, <3>1, <3>2 DEF UsualInv, ClaimIsNewest, w
      <4> QED
        BY <1>1, <1>7, <3>1, <3>2, <4>1
    <3>3. CASE v # w
      BY <1>7, <2>3, <3>1, <3>3 DEF UsualInv, ClaimIsNewest
    <3> QED
      BY <3>2, <3>3
  <2> QED
    BY <2>1, <2>2, <2>3 DEF ClaimIsNewest
<1>14. AskedFits'
  BY DEF UsualInv, AskedFits, Busy, config
<1>15. concurrency' = concurrency /\ restarts' = restarts
  BY DEF config
<1>16. ASSUME concurrency = 1 PROVE OneAtATime'
  <2>1. OneAtATime
    BY <1>16 DEF UsualInv
  <2>2. jobs' = {m}
    BY <1>3, <2>1 DEF OneAtATime
  <2>3. poll.pc # "asked"
    BY <2>1 DEF OneAtATime
  <2>4. \A v \in Wakes : disk'[v] # NoClaim => v = w
    BY <1>7, <2>1 DEF OneAtATime, w
  <2>5. up /\ ~stopping' /\ disk'[w] # NoClaim => p # "done"
    BY <1>7
  <2>6. m.wake = w /\ m.pc = p /\ p # "waiting"
    BY <1>2
  <2> QED
    BY <2>2, <2>3, <2>4, <2>5, <2>6 DEF OneAtATime
<1>17. Unrecovered => Unrecovered'
  BY <1>4, <1>15 DEF Unrecovered
<1> QED
  BY <1>8, <1>9, <1>10, <1>12, <1>13, <1>14, <1>15, <1>16, <1>17 DEF UsualInv

\* What the server does with a report, and by itself, to the claims it has out.
LEMMA ServerClaims ==
  ASSUME claim \in [Wakes -> 0..issued], issued \in Nat,
         \/ UNCHANGED serverVars
         \/ \E w \in Wakes : \E c, next : Server!Report(w, c, next)
         \/ \E w \in Wakes : Server!Make(w, w) \/ Server!Withdraw({w})
  PROVE  issued' = issued /\ claim' \in [Wakes -> 0..issued] /\ \A v \in Wakes : claim'[v] \in {0, claim[v]}
<1>1. CASE UNCHANGED serverVars \/ \E w \in Wakes : Server!Make(w, w)
  BY <1>1 DEF serverVars, Server!Make
<1>2. CASE \E w \in Wakes : \E c, next : Server!Report(w, c, next)
  BY <1>2 DEF Server!Report
<1>3. CASE \E w \in Wakes : Server!Withdraw({w})
  BY <1>3 DEF Server!Withdraw
<1> QED
  BY <1>1, <1>2, <1>3

\* Every step of a job but its last is one of JobTurn.
LEMMA UsualJobStep ==
  ASSUME UsualInv, ClaimsInv', NEW j \in jobs,
         \/ HandleStarts(j) \/ HeartbeatRefused(j) \/ LeaseRunsOut(j) \/ HeartbeatFatal(j)
         \/ SessionEnds(j) \/ SessionDiscarded(j) \/ ReportReaches(j) \/ ReportAnswered(j)
         \/ AnswerLost(j) \/ ReportRefused(j) \/ ReportAborted(j)
  PROVE  UsualInv'
<1> DEFINE w == j.wake
           n == j.nonce
<1>1. w \in Wakes /\ n \in Nat \ {0} /\ disk \in [Wakes -> Saved] /\ issued \in Nat /\ j \in Job
  BY ClaimsFacts DEF UsualInv
<1>2. /\ j.pc \in {"running", "lost"} => disk[w] = Running(n)
      /\ j.pc \in {"reporting", "answered"} => disk[w] = Completing(n)
      /\ disk[w].nonce \in Nat /\ disk[w].nonce <= n
  BY <1>1, SavedNonces DEF UsualInv, DiskIsOldest, DiskTellsJobs, Sessions, Reporting
<1>3. Running(n).nonce = n /\ Completing(n).nonce = n /\ NoClaim.nonce = 0 /\ 0 \in Nat /\ 0 <= n
  BY <1>1 DEF Running, Completing, NoClaim
<1>4. disk' = disk => Put(w, disk[w])
  BY <1>1 DEF Put
<1>5. claim \in [Wakes -> 0..issued]
  BY DEF UsualInv, ClaimIsNewest
<1>6. issued' = issued /\ claim' \in [Wakes -> 0..issued] /\ \A v \in Wakes : claim'[v] \in {0, claim[v]}
  <2>1. UNCHANGED serverVars \/ \E next : Server!Report(w, n, next)
    BY DEF HandleStarts, HeartbeatRefused, LeaseRunsOut, HeartbeatFatal, SessionEnds,
       SessionDiscarded, ReportReaches, ReportAnswered, AnswerLost, ReportRefused, ReportAborted
  <2> QED
    BY <1>1, <1>5, <2>1, ServerClaims
<1>7. up' = up /\ (stopping => stopping') /\ poll' = poll /\ active' = active /\ config' = config
  BY DEF HandleStarts, HeartbeatRefused, LeaseRunsOut, HeartbeatFatal, SessionEnds,
     SessionDiscarded, ReportReaches, ReportAnswered, AnswerLost, ReportRefused, ReportAborted
<1>8. CASE HandleStarts(j)
  <2>1. Moves(j, "running") /\ Put(w, Running(n)) /\ \A k \in jobs : k.nonce # j.prior
    BY <1>8 DEF HandleStarts
  <2> QED
    BY <1>1, <1>3, <1>6, <1>7, <2>1, JobTurn
<1>9. CASE HeartbeatRefused(j) \/ LeaseRunsOut(j) \/ HeartbeatFatal(j) \/ ReportReaches(j) \/ AnswerLost(j)
  <2>1. j.pc # "waiting" /\ disk' = disk
    BY <1>9 DEF HeartbeatRefused, LeaseRunsOut, HeartbeatFatal, ReportReaches, AnswerLost
  <2>2. \/ Moves(j, "lost") /\ j.pc = "running"
        \/ Moves(j, "reporting") /\ j.pc \in {"reporting", "answered"}
        \/ Moves(j, "answered") /\ j.pc = "reporting"
    BY <1>9 DEF HeartbeatRefused, LeaseRunsOut, HeartbeatFatal, ReportReaches, AnswerLost
  <2> QED
    BY <1>2, <1>4, <1>6, <1>7, <2>1, <2>2, JobTurn
<1>10. CASE SessionEnds(j)
  <2>1. j.pc # "waiting" /\ Moves(j, "reporting") /\ Put(w, Completing(n))
    BY <1>10 DEF SessionEnds
  <2> QED
    BY <1>1, <1>3, <1>6, <1>7, <2>1, JobTurn
<1>11. CASE SessionDiscarded(j) \/ ReportAnswered(j) \/ ReportRefused(j)
  <2>1. j.pc # "waiting" /\ Moves(j, "done") /\ Put(w, NoClaim)
    BY <1>11 DEF SessionDiscarded, ReportAnswered, ReportRefused, Remove
  <2> QED
    BY <1>1, <1>3, <1>6, <1>7, <2>1, JobTurn
<1>12. CASE ReportAborted(j)
  <2>1. j.pc # "waiting" /\ Moves(j, "done") /\ disk' = disk /\ stopping'
    BY <1>12 DEF ReportAborted
  <2> QED
    BY <1>2, <1>4, <1>6, <1>7, <2>1, JobTurn
<1> QED
  BY <1>8, <1>9, <1>10, <1>11, <1>12

\* Forgetting a wake does not make more of them busy.
LEMMA BusyCount ==
  /\ Busy \in Nat
  /\ \A S : S \subseteq Wakes => IsFiniteSet(S) /\ Cardinality(S) \in Nat
  /\ \A S, T : S \subseteq T /\ T \subseteq Wakes => Cardinality(S) <= Cardinality(T)
<1>1. \A S : S \subseteq Wakes => IsFiniteSet(S) /\ Cardinality(S) \in Nat
  BY FS_Subset, FS_CardinalityType, LoopConstants
<1>2. \A S, T : S \subseteq T /\ T \subseteq Wakes => Cardinality(S) <= Cardinality(T)
  BY <1>1, FS_Subset
<1>3. {w \in Wakes : active[w] # 0} \subseteq Wakes
  OBVIOUS
<1> QED
  BY <1>1, <1>2, <1>3 DEF Busy

\* A job is over: it was the only one of its wake, or a newer one is active.
LEMMA UsualSettleStep ==
  ASSUME UsualInv, ClaimsInv', NEW j \in jobs, Settle(j)
  PROVE  UsualInv'
<1> DEFINE w == j.wake
<1>1. /\ jobs' = jobs \ {j} /\ j.pc = "done"
      /\ poll' = poll /\ disk' = disk /\ up' = up /\ stopping' = stopping /\ issued' = issued
      /\ claim' = claim /\ concurrency' = concurrency /\ restarts' = restarts
      /\ active' = active \/ active' = [active EXCEPT ![w] = 0]
      /\ active[w] = j.nonce => active' = [active EXCEPT ![w] = 0]
      /\ active' # active => j.kind = "recover" \/ active[w] = j.nonce
  BY DEF Settle, serverVars, config
<1>2. /\ \A k \in jobs : k.nonce \in Nat \ {0} /\ k.nonce <= issued /\ k.wake \in Wakes /\ k.prior \in Nat
      /\ active \in [Wakes -> Nat]
  BY ClaimsFacts, LoopConstants DEF UsualInv
<1>3. \A k \in jobs \ {j} : k.wake = w => k.pc = "waiting" /\ j.nonce < k.nonce
  BY <1>1, OthersWait DEF UsualInv
<1>4. active' # active => \A k \in jobs \ {j} : k.wake # w
  <2>1. CASE active[w] = j.nonce
    <3>1. \A k \in jobs : k.wake = w => k.nonce <= j.nonce
      BY <2>1 DEF UsualInv, ActiveIsLast
    <3> QED
      BY <1>2, <1>3, <3>1
  <2>2. CASE concurrency = 1
    BY <2>2 DEF UsualInv, OneAtATime
  <2>3. CASE Unrecovered
    BY <1>1, <2>1, <2>3 DEF Unrecovered
  <2> QED
    BY <2>2, <2>3 DEF UsualInv
<1>5. JobsQueue'
  <2>1. ASSUME NEW k \in jobs', NEW l \in jobs', k.wake = l.wake, l.nonce < k.nonce
        PROVE  /\ k.pc = "waiting" /\ l.nonce <= k.prior
               /\ \E i \in jobs' : i.wake = k.wake /\ i.nonce = k.prior
    <3>1. /\ k.pc = "waiting" /\ l.nonce <= k.prior
      BY <1>1, <2>1 DEF UsualInv, JobsQueue
    <3>2. PICK i \in jobs : i.wake = k.wake /\ i.nonce = k.prior
      BY <1>1, <2>1 DEF UsualInv, JobsQueue
    <3>3. i # j
      BY <1>1, <1>2, <1>3, <2>1, <3>1, <3>2
    <3> QED
      BY <1>1, <3>1, <3>2, <3>3
  <2> QED
    BY <1>1, <2>1 DEF UsualInv, JobsQueue
<1>6. ActiveIsLast'
  <2>1. CASE active' = active
    <3>2. active[w] # j.nonce
      BY <1>1, <1>2, <2>1
    <3>1. ASSUME NEW v \in Wakes, active[v] # 0 PROVE \E k \in jobs' : k.wake = v /\ k.nonce = active[v]
      BY <1>1, <2>1, <3>1, <3>2 DEF UsualInv, ActiveIsLast
    <3> QED
      BY <1>1, <2>1, <3>1 DEF UsualInv, ActiveIsLast
  <2>2. CASE active' # active
    <3>1. active'[w] = 0 /\ \A v \in Wakes \ {w} : active'[v] = active[v]
      BY <1>1, <1>2, <2>2
    <3>2. \A k \in jobs' : k.wake # w
      BY <1>1, <1>4, <2>2
    <3>3. \A k \in jobs' : k.nonce <= active'[k.wake]
      BY <1>1, <1>2, <3>1, <3>2 DEF UsualInv, ActiveIsLast
    <3>4. ASSUME NEW v \in Wakes, active'[v] # 0 PROVE \E k \in jobs' : k.wake = v /\ k.nonce = active'[v]
      <4>1. v # w
        BY <3>1, <3>4
      <4> QED
        BY <1>1, <3>1, <3>4, <4>1 DEF UsualInv, ActiveIsLast
    <3> QED
      BY <3>3, <3>4 DEF ActiveIsLast
  <2> QED
    BY <2>1, <2>2
<1>7. PollIsNew' /\ DiskIsOldest' /\ ClaimIsNewest'
  BY <1>1 DEF UsualInv, PollIsNew, DiskIsOldest, DiskTellsJobs, Sessions, Reporting, ClaimIsNewest
<1>8. AskedFits'
  <2>1. {v \in Wakes : active'[v] # 0} \subseteq {v \in Wakes : active[v] # 0}
    BY <1>1, <1>2
  <2>2. Busy' <= Busy
    BY <2>1, BusyCount DEF Busy
  <2>3. Busy' \in Nat /\ Busy \in Nat
    <3>1. {v \in Wakes : active'[v] # 0} \subseteq Wakes
      OBVIOUS
    <3> QED
      BY <3>1, BusyCount DEF Busy
  <2>4. concurrency \in Nat /\ (poll.pc = "asked" => poll.max \in Int)
    BY ClaimsFacts DEF UsualInv, ClaimsInv, LoopTypeOK
  <2> QED
    BY <1>1, <2>2, <2>3, <2>4 DEF UsualInv, AskedFits
<1>9. ASSUME concurrency = 1 PROVE OneAtATime'
  BY <1>1, <1>9 DEF UsualInv, OneAtATime
<1>10. Unrecovered => Unrecovered'
  BY <1>1 DEF Unrecovered
<1> QED
  BY <1>1, <1>5, <1>6, <1>7, <1>8, <1>9, <1>10 DEF UsualInv

\* The poll is asked when there is room, and fails.
LEMMA UsualAskStep ==
  ASSUME UsualInv, ClaimsInv', Ask \/ ClaimFails
  PROVE  UsualInv'
<1>1. /\ jobs' = jobs /\ disk' = disk /\ active' = active /\ up' = up /\ issued' = issued
      /\ claim' = claim /\ concurrency' = concurrency /\ restarts' = restarts
      /\ stopping => stopping'
  BY DEF Ask, ClaimFails, serverVars, config
<1>2. poll'.got = {} /\ (poll'.pc = "asked" => Ask)
  <2>1. CASE Ask
    BY <2>1 DEF Ask
  <2>2. CASE ClaimFails
    BY <2>2 DEF ClaimFails, NoPoll
  <2> QED
    BY <2>1, <2>2
<1>3. Busy' = Busy /\ Busy \in Nat /\ concurrency \in Nat
  BY <1>1, BusyCount, ClaimsFacts DEF Busy, UsualInv
<1>4. JobsQueue' /\ ActiveIsLast' /\ PollIsNew' /\ DiskIsOldest' /\ ClaimIsNewest'
  BY <1>1, <1>2 DEF UsualInv, JobsQueue, ActiveIsLast, PollIsNew, DiskIsOldest, DiskTellsJobs,
     Sessions, Reporting, ClaimIsNewest
<1>5. AskedFits'
  <2>1. IsFiniteSet({}) /\ Cardinality({}) = 0
    BY FS_EmptySet
  <2>2. Ask => poll'.max = concurrency - Busy
    BY DEF Ask
  <2> QED
    BY <1>1, <1>2, <1>3, <2>1, <2>2 DEF UsualInv, AskedFits, Ask
<1>6. ASSUME concurrency = 1 PROVE OneAtATime'
  <2>1. CASE Ask
    <3>1. Busy = 0
      BY <1>3, <1>6, <2>1 DEF Ask
    <3>2. \A v \in Wakes : active[v] = 0
      <4>1. {v \in Wakes : active[v] # 0} \subseteq Wakes
        OBVIOUS
      <4>2. {v \in Wakes : active[v] # 0} = {}
        BY <3>1, <4>1, BusyCount, FS_EmptySet DEF Busy
      <4> QED
        BY <4>2
    <3>3. jobs = {}
      BY <3>2, ClaimsFacts DEF UsualInv, ActiveIsLast
    <3>4. up /\ ~stopping
      BY <2>1 DEF Ask
    <3>5. \A v \in Wakes : disk[v] = NoClaim
      BY <1>6, <3>3, <3>4 DEF UsualInv, OneAtATime
    <3> QED
      BY <1>1, <3>3, <3>5 DEF OneAtATime
  <2>2. CASE ClaimFails
    <3>1. poll'.pc # "asked"
      BY <2>2 DEF ClaimFails, NoPoll
    <3> QED
      BY <1>1, <1>6, <3>1 DEF UsualInv, OneAtATime
  <2> QED
    BY <2>1, <2>2
<1>7. Unrecovered => Unrecovered'
  BY <1>1 DEF Unrecovered
<1> QED
  BY <1>1, <1>4, <1>5, <1>6, <1>7 DEF UsualInv

\* The claim the server grants is newer than all there is.
LEMMA UsualGrantStep ==
  ASSUME UsualInv, ClaimsInv', NEW w \in Wakes, ServerGrants(w)
  PROVE  UsualInv'
<1> DEFINE g == [wake |-> w, nonce |-> issued + 1]
<1>1. /\ jobs' = jobs /\ disk' = disk /\ active' = active /\ up' = up /\ stopping' = stopping
      /\ concurrency' = concurrency /\ restarts' = restarts
      /\ issued' = issued + 1 /\ claim' = [claim EXCEPT ![w] = issued + 1]
      /\ poll' = [poll EXCEPT !.got = @ \cup {g}]
      /\ poll.pc = "asked" /\ Cardinality(poll.got) < poll.max /\ \A h \in poll.got : h.wake # w
  BY DEF ServerGrants, Server!Grant, config
<1>2. /\ \A k \in jobs : k.nonce \in Nat \ {0} /\ k.nonce <= issued /\ k.wake \in Wakes
      /\ \A h \in poll.got : h.wake \in Wakes /\ h.nonce \in Nat \ {0} /\ h.nonce <= issued
      /\ disk \in [Wakes -> Saved] /\ issued \in Nat
      /\ \A v \in Wakes : disk[v].nonce \in Nat /\ disk[v].nonce <= issued
  BY ClaimsFacts, SavedNonces DEF UsualInv, DiskIsOldest
<1>3. g.wake = w /\ g.nonce = issued + 1
  OBVIOUS
<1> HIDE DEF g
<1>4. poll'.got = poll.got \cup {g} /\ poll'.max = poll.max /\ poll'.pc = poll.pc /\ poll.max \in Int
  BY <1>1 DEF UsualInv, ClaimsInv, LoopTypeOK
<1>5. JobsQueue' /\ ActiveIsLast'
  BY <1>1 DEF UsualInv, JobsQueue, ActiveIsLast
<1>6. PollIsNew'
  BY <1>1, <1>2, <1>3, <1>4 DEF UsualInv, PollIsNew
<1>7. DiskIsOldest'
  <2>1. DiskTellsJobs'
    BY <1>1 DEF UsualInv, DiskIsOldest, DiskTellsJobs, Sessions, Reporting
  <2> QED
    BY <1>1, <1>2, <2>1 DEF UsualInv, DiskIsOldest
<1>8. ClaimIsNewest'
  <2>1. claim \in [Wakes -> 0..issued] /\ 0..issued \subseteq 0..issued' /\ issued + 1 \in 0..issued'
    BY <1>1, <1>2 DEF UsualInv, ClaimIsNewest
  <2>2. claim' \in [Wakes -> 0..issued']
    BY <1>1, <2>1
  <2>3. claim'[w] = issued + 1 /\ \A v \in Wakes \ {w} : claim'[v] = claim[v]
    BY <1>1, <2>1
  <2>4. \A k \in jobs' : claim'[k.wake] # 0 => k.nonce <= claim'[k.wake]
    BY <1>1, <1>2, <2>3 DEF UsualInv, ClaimIsNewest
  <2>5. \A h \in poll'.got : claim'[h.wake] # 0 => h.nonce <= claim'[h.wake]
    BY <1>2, <1>3, <1>4, <2>3 DEF UsualInv, ClaimIsNewest
  <2>6. \A v \in Wakes : claim'[v] # 0 => disk'[v].nonce <= claim'[v]
    BY <1>1, <1>2, <2>3 DEF UsualInv, ClaimIsNewest
  <2> QED
    BY <2>2, <2>4, <2>5, <2>6 DEF ClaimIsNewest
<1>9. AskedFits'
  <2>1. IsFiniteSet(poll.got) /\ Cardinality(poll.got) \in Nat
    BY FS_CardinalityType DEF UsualInv, AskedFits
  <2>2. IsFiniteSet(poll'.got) /\ Cardinality(poll'.got) <= Cardinality(poll.got) + 1
    <3>1. /\ IsFiniteSet(poll.got \cup {g})
          /\ Cardinality(poll.got \cup {g}) =
               IF g \in poll.got THEN Cardinality(poll.got) ELSE Cardinality(poll.got) + 1
      BY <2>1, FS_AddElement
    <3>2. Cardinality(poll.got \cup {g}) <= Cardinality(poll.got) + 1
      BY <2>1, <3>1
    <3> QED
      BY <1>4, <3>1, <3>2
  <2>3. IsFiniteSet(poll'.got) /\ Cardinality(poll'.got) \in Nat
    BY <2>2, FS_CardinalityType
  <2> QED
    BY <1>1, <1>4, <2>1, <2>2, <2>3 DEF UsualInv, AskedFits, Busy
<1>10. ASSUME concurrency = 1 PROVE OneAtATime'
  BY <1>1, <1>4, <1>10 DEF UsualInv, OneAtATime
<1>11. Unrecovered => Unrecovered'
  BY <1>1 DEF Unrecovered
<1> QED
  BY <1>1, <1>5, <1>6, <1>7, <1>8, <1>9, <1>10, <1>11 DEF UsualInv

\* The wakes of an answer are no more than it has claims.
LEMMA WakesOfAnswer ==
  ASSUME ClaimsInv, IsFiniteSet(poll.got)
  PROVE  Cardinality({g.wake : g \in poll.got}) <= Cardinality(poll.got)
<1> DEFINE T == {g.wake : g \in poll.got}
           f == [g \in poll.got |-> g.wake]
<1>1. f \in Surjection(poll.got, T)
  BY DEF Surjection
<1> QED
  BY <1>1, FS_Surjection

\* A claim of the answer becomes a job that waits for the one active before.
LEMMA UsualAnsweredStep ==
  ASSUME UsualInv, ClaimsInv', ClaimAnswered
  PROVE  UsualInv'
<1> DEFINE JobFor(g) == [nonce |-> g.nonce, wake |-> g.wake, kind |-> "handle",
                         prior |-> active[g.wake], pc |-> "waiting"]
<1>1. /\ jobs' = jobs \cup {JobFor(g) : g \in poll.got}
      /\ poll.pc = "asked" /\ poll' = NoPoll
      /\ disk' = disk /\ up' = up /\ stopping' = stopping /\ issued' = issued
      /\ claim' = claim /\ concurrency' = concurrency /\ restarts' = restarts
  BY DEF ClaimAnswered, serverVars, config
<1>2. /\ \A k \in jobs : k.nonce \in Nat \ {0} /\ k.nonce <= issued /\ k.wake \in Wakes /\ k.prior \in Nat
      /\ \A g \in poll.got : g.wake \in Wakes /\ g.nonce \in Nat \ {0} /\ g.nonce <= issued
      /\ disk \in [Wakes -> Saved] /\ issued \in Nat
      /\ \A v \in Wakes : disk[v].nonce \in Nat
      /\ active \in [Wakes -> Nat]
  BY ClaimsFacts, SavedNonces DEF UsualInv
<1>3. \A g \in poll.got : /\ JobFor(g).nonce = g.nonce /\ JobFor(g).wake = g.wake
                          /\ JobFor(g).kind = "handle" /\ JobFor(g).prior = active[g.wake]
                          /\ JobFor(g).pc = "waiting"
  OBVIOUS
<1> HIDE DEF JobFor
<1>4. /\ \A g, h \in poll.got : g.wake = h.wake => g = h
      /\ \A g, h \in poll.got : g.nonce = h.nonce => g = h
      /\ \A g \in poll.got : (\A j \in jobs : j.nonce < g.nonce) /\ disk[g.wake].nonce < g.nonce
  BY DEF UsualInv, PollIsNew, ClaimsInv, ClaimsInPoll
<1>5. \A k \in jobs' : k \in jobs \/ \E g \in poll.got : k = JobFor(g)
  BY <1>1
<1>6. /\ \A g \in poll.got : active'[g.wake] = g.nonce
      /\ \A v \in Wakes : (\A g \in poll.got : g.wake # v) => active'[v] = active[v]
      /\ active' = [v \in Wakes |-> active'[v]]
  <2>1. active' = [v \in Wakes |-> IF \E g \in poll.got : g.wake = v
                     THEN (CHOOSE g \in poll.got : g.wake = v).nonce ELSE active[v]]
    BY DEF ClaimAnswered
  <2>2. \A g \in poll.got : (CHOOSE h \in poll.got : h.wake = g.wake) = g
    BY <1>4
  <2> QED
    BY <1>2, <2>1, <2>2
<1>7. \A g \in poll.got : active[g.wake] \in Nat /\ active[g.wake] < g.nonce
  BY <1>2, <1>4 DEF UsualInv, ActiveIsLast
<1>8. JobsQueue'
  <2>1. \A k, l \in jobs' : k.nonce = l.nonce => k = l
    <3>1. ASSUME NEW k \in jobs', NEW l \in jobs', k.nonce = l.nonce PROVE k = l
      <4>1. CASE k \in jobs /\ l \in jobs
        BY <3>1, <4>1 DEF UsualInv, JobsQueue
      <4>2. CASE k \notin jobs /\ l \notin jobs
        BY <1>3, <1>4, <1>5, <3>1, <4>2
      <4>3. CASE (k \in jobs /\ l \notin jobs) \/ (k \notin jobs /\ l \in jobs)
        BY <1>2, <1>3, <1>4, <1>5, <3>1, <4>3
      <4> QED
        BY <4>1, <4>2, <4>3
    <3> QED
      BY <3>1
  <2>2. \A k \in jobs' : k.prior < k.nonce
    BY <1>3, <1>5, <1>7 DEF UsualInv, JobsQueue
  <2>3. ASSUME NEW k \in jobs', NEW l \in jobs', k.wake = l.wake, l.nonce < k.nonce
        PROVE  /\ k.pc = "waiting" /\ l.nonce <= k.prior
               /\ \E i \in jobs' : i.wake = k.wake /\ i.nonce = k.prior
    <3>1. CASE k \in jobs
      <4>1. l \in jobs
        BY <1>2, <1>3, <1>4, <1>5, <2>3, <3>1
      <4> QED
        BY <1>1, <2>3, <3>1, <4>1 DEF UsualInv, JobsQueue
    <3>2. CASE k \notin jobs
      <4>1. PICK g \in poll.got : k = JobFor(g)
        BY <1>5, <3>2
      <4>2. l \in jobs
        <5>1. ASSUME NEW h \in poll.got, l = JobFor(h) PROVE FALSE
          <6>1. h = g
            BY <1>3, <1>4, <2>3, <4>1, <5>1
          <6> QED
            BY <1>2, <2>3, <4>1, <5>1, <6>1, <1>3
        <5> QED
          BY <1>5, <5>1
      <4>3. l.nonce <= active[g.wake] /\ k.prior = active[g.wake] /\ k.wake = g.wake /\ g.wake \in Wakes
        BY <1>2, <1>3, <2>3, <4>1, <4>2 DEF UsualInv, ActiveIsLast
      <4>4. active[g.wake] # 0
        BY <1>2, <4>2, <4>3
      <4>5. \E i \in jobs : i.wake = g.wake /\ i.nonce = active[g.wake]
        BY <4>3, <4>4 DEF UsualInv, ActiveIsLast
      <4> QED
        BY <1>1, <1>3, <4>1, <4>3, <4>5
    <3> QED
      BY <3>1, <3>2
  <2> QED
    BY <2>1, <2>2, <2>3 DEF JobsQueue
<1>9. ActiveIsLast'
  <2>1. ASSUME NEW k \in jobs' PROVE k.nonce <= active'[k.wake]
    <3>1. CASE k \in jobs /\ \E g \in poll.got : g.wake = k.wake
      BY <1>2, <1>4, <1>6, <3>1
    <3>2. CASE k \in jobs /\ \A g \in poll.got : g.wake # k.wake
      BY <1>2, <1>6, <3>2 DEF UsualInv, ActiveIsLast
    <3>3. CASE k \notin jobs
      BY <1>2, <1>3, <1>5, <1>6, <3>3
    <3> QED
      BY <3>1, <3>2, <3>3
  <2>2. ASSUME NEW v \in Wakes, active'[v] # 0
        PROVE  \E k \in jobs' : k.wake = v /\ k.nonce = active'[v]
    <3>1. CASE \E g \in poll.got : g.wake = v
      BY <1>1, <1>3, <1>6, <3>1
    <3>2. CASE \A g \in poll.got : g.wake # v
      BY <1>1, <1>6, <2>2, <3>2 DEF UsualInv, ActiveIsLast
    <3> QED
      BY <3>1, <3>2
  <2> QED
    BY <2>1, <2>2 DEF ActiveIsLast
<1>10. PollIsNew' /\ poll'.pc # "asked" /\ poll'.got = {}
  BY <1>1, NoPollFacts DEF PollIsNew, NoPoll
<1>11. DiskIsOldest'
  <2>1. \A k \in jobs' : k.pc # "waiting" => k \in jobs
    BY <1>3, <1>5
  <2>2. DiskTellsJobs'
    BY <1>1, <2>1 DEF UsualInv, DiskIsOldest, DiskTellsJobs, Sessions, Reporting
  <2>3. ASSUME NEW k \in jobs' PROVE disk[k.wake].nonce <= k.nonce
    <3>1. CASE k \in jobs
      BY <3>1 DEF UsualInv, DiskIsOldest
    <3>2. CASE k \notin jobs
      BY <1>2, <1>3, <1>4, <1>5, <3>2
    <3> QED
      BY <3>1, <3>2
  <2> QED
    BY <1>1, <2>2, <2>3 DEF UsualInv, DiskIsOldest
<1>12. ClaimIsNewest'
  <2>1. ASSUME NEW k \in jobs', claim[k.wake] # 0 PROVE k.nonce <= claim[k.wake]
    BY <1>3, <1>5, <2>1 DEF UsualInv, ClaimIsNewest
  <2> QED
    BY <1>1, <1>10, <2>1 DEF UsualInv, ClaimIsNewest
<1>13. AskedFits'
  <2> DEFINE T == {g.wake : g \in poll.got}
             B == {v \in Wakes : active[v] # 0}
             C == {v \in Wakes : active'[v] # 0}
  <2>1. IsFiniteSet(poll.got) /\ Cardinality(poll.got) <= poll.max /\ poll.max + Busy <= concurrency
    BY <1>1 DEF UsualInv, AskedFits
  <2>2. Cardinality(T) <= Cardinality(poll.got)
    BY <2>1, WakesOfAnswer DEF UsualInv
  <2>3. C \subseteq B \cup T /\ B \subseteq Wakes /\ T \subseteq Wakes /\ C \subseteq Wakes
    BY <1>2, <1>6
  <2>4. /\ IsFiniteSet(B) /\ IsFiniteSet(T) /\ Cardinality(B) \in Nat /\ Cardinality(T) \in Nat
        /\ Cardinality(B \cap T) \in Nat /\ Cardinality(B \cup T) \in Nat
        /\ Cardinality(C) \in Nat /\ Cardinality(C) <= Cardinality(B \cup T)
    <3>1. B \cup T \subseteq Wakes /\ B \cap T \subseteq Wakes
      BY <2>3
    <3> HIDE DEF B, C, T
    <3> QED
      BY <2>3, <3>1, BusyCount
  <2>5. Cardinality(B \cup T) = Cardinality(B) + Cardinality(T) - Cardinality(B \cap T)
    <3> HIDE DEF B, T
    <3> QED
      BY <2>4, FS_Union
  <2>6. Busy = Cardinality(B) /\ Busy' = Cardinality(C)
    BY DEF Busy
  <2>7. poll.max \in Int /\ concurrency \in Nat /\ Cardinality(poll.got) \in Nat
    BY <2>1, ClaimsFacts, FS_CardinalityType DEF UsualInv, ClaimsInv, LoopTypeOK
  <2>8. Busy' <= concurrency
    <3> HIDE DEF B, C, T
    <3> QED
      BY <2>1, <2>2, <2>4, <2>5, <2>6, <2>7
  <2>9. IsFiniteSet(poll'.got)
    BY <1>10, FS_EmptySet
  <2> QED
    BY <1>1, <1>10, <2>8, <2>9 DEF AskedFits
<1>14. ASSUME concurrency = 1 PROVE OneAtATime'
  <2>1. jobs = {} /\ \A v \in Wakes : disk[v] = NoClaim
    BY <1>1, <1>14 DEF UsualInv, OneAtATime
  <2>2. IsFiniteSet(poll.got) /\ Cardinality(poll.got) <= poll.max /\ poll.max + Busy <= concurrency
    BY <1>1 DEF UsualInv, AskedFits
  <2>3. Cardinality(poll.got) \in {0, 1}
    BY <1>14, <2>2, BusyCount, FS_CardinalityType DEF UsualInv, ClaimsInv, LoopTypeOK
  <2>4. \A g, h \in poll.got : g = h
    BY <2>2, <2>3, FS_EmptySet, FS_Singleton
  <2>5. \A j, k \in jobs' : j = k
    BY <1>5, <2>1, <2>4
  <2> QED
    BY <1>1, <1>10, <2>1, <2>5 DEF OneAtATime
<1>15. Unrecovered => Unrecovered'
  BY <1>1, <1>3, <1>5 DEF Unrecovered
<1> QED
  BY <1>1, <1>8, <1>9, <1>10, <1>11, <1>12, <1>13, <1>14, <1>15 DEF UsualInv

\* The program is told to stop, exits or dies.
LEMMA UsualDownStep ==
  ASSUME UsualInv, ClaimsInv', StopAsked \/ ProcessExits \/ Crash
  PROVE  UsualInv'
<1>1. CASE StopAsked
  <2>1. /\ jobs' = jobs /\ disk' = disk /\ active' = active /\ up' = up /\ stopping' = TRUE
        /\ issued' = issued /\ claim' = claim /\ concurrency' = concurrency
        /\ restarts' = restarts /\ poll' = poll
    BY <1>1 DEF StopAsked, serverVars, config
  <2>2. JobsQueue' /\ ActiveIsLast' /\ PollIsNew' /\ DiskIsOldest' /\ ClaimIsNewest' /\ AskedFits'
    BY <2>1 DEF UsualInv, JobsQueue, ActiveIsLast, PollIsNew, DiskIsOldest, DiskTellsJobs,
       Sessions, Reporting, ClaimIsNewest, AskedFits, Busy
  <2>3. ASSUME concurrency = 1 PROVE OneAtATime'
    BY <2>1, <2>3 DEF UsualInv, OneAtATime
  <2> QED
    BY <2>1, <2>2, <2>3 DEF UsualInv, Unrecovered
<1>2. CASE Down
  <2>1. /\ jobs' = {} /\ disk' = disk /\ active' = [w \in Wakes |-> 0] /\ up' = FALSE
        /\ issued' = issued /\ claim' = claim /\ concurrency' = concurrency
        /\ restarts' = restarts /\ poll' = NoPoll
    BY <1>2 DEF Down, serverVars, config
  <2>2. poll'.got = {} /\ poll'.pc # "asked"
    BY <2>1 DEF NoPoll
  <2>3. JobsQueue' /\ ActiveIsLast' /\ PollIsNew'
    BY <2>1, <2>2 DEF JobsQueue, ActiveIsLast, PollIsNew
  <2>4. DiskIsOldest' /\ ClaimIsNewest'
    BY <2>1, <2>2 DEF UsualInv, DiskIsOldest, DiskTellsJobs, Sessions, Reporting, ClaimIsNewest
  <2>5. AskedFits'
    <3>1. {w \in Wakes : active'[w] # 0} = {}
      BY <2>1
    <3>2. Busy' = 0 /\ IsFiniteSet(poll'.got)
      BY <2>2, <3>1, FS_EmptySet DEF Busy
    <3> QED
      BY <2>1, <2>2, <3>2, ClaimsFacts DEF UsualInv, AskedFits
  <2>6. ASSUME concurrency = 1 PROVE OneAtATime'
    BY <2>1, <2>2, <2>6 DEF UsualInv, OneAtATime
  <2> QED
    BY <2>1, <2>3, <2>4, <2>5, <2>6 DEF UsualInv, Unrecovered
<1> QED
  BY <1>1, <1>2 DEF ProcessExits, Crash

\* A new process takes up the one result that is saved.
LEMMA UsualRestartStep ==
  ASSUME UsualInv, ClaimsInv', Restart
  PROVE  UsualInv'
<1> DEFINE Kept == {v \in Wakes : disk[v].phase = "completing"}
<1>1. concurrency = 1 /\ OneAtATime
  <2>1. restarts # 0
    BY LoopConstants DEF Restart, UsualInv, ClaimsInv, LoopTypeOK
  <2> QED
    BY <2>1 DEF UsualInv, Unrecovered
<1>2. /\ jobs' = {Recovered(v) : v \in Kept}
      /\ active' = [v \in Wakes |-> IF disk[v].phase = "completing" THEN disk[v].nonce ELSE 0]
      /\ disk' = [v \in Wakes |-> IF disk[v].phase = "running" THEN NoClaim ELSE disk[v]]
      /\ issued' = issued /\ claim' = claim /\ concurrency' = concurrency /\ poll' = poll
      /\ poll = NoPoll
  BY DEF Restart, serverVars, UsualInv, ClaimsInv
<1>3. poll'.got = {} /\ poll'.pc # "asked"
  BY <1>2 DEF NoPoll
<1>4. /\ disk \in [Wakes -> Saved]
      /\ \A v \in Wakes : disk[v].nonce \in Nat /\ disk[v].nonce <= issued
      /\ issued \in Nat
  BY ClaimsFacts, SavedNonces DEF UsualInv, DiskIsOldest
<1>5. \A v, u \in Kept : v = u
  BY <1>1, SavedClaims DEF OneAtATime
<1>6. \A v \in Kept : /\ disk[v] = Completing(disk[v].nonce) /\ disk[v].nonce \in Nat \ {0}
                      /\ disk[v] # NoClaim /\ disk'[v] = disk[v] /\ active'[v] = disk[v].nonce
  <2>1. ASSUME NEW v \in Kept PROVE disk[v] = Completing(disk[v].nonce) /\ disk[v].nonce \in Nat \ {0}
    <3>1. disk[v] \in Saved /\ disk[v].phase = "completing"
      BY <1>4, <2>1
    <3>2. PICK n \in Nonces : disk[v] = Completing(n)
      BY <3>1 DEF Saved, NoClaim, Running
    <3> QED
      BY <3>2, LoopConstants DEF Completing, Nonces
  <2> QED
    BY <1>2, <2>1, SavedClaims
<1>7. \A j \in jobs' : \E v \in Kept : /\ j = Recovered(v) /\ j.wake = v /\ j.nonce = disk[v].nonce
                                       /\ j.pc = "reporting" /\ j.prior = 0
  BY <1>2 DEF Recovered
<1>8. \A j, k \in jobs' : j = k
  BY <1>5, <1>7
<1>9. \A v \in Wakes : v \notin Kept => active'[v] = 0 /\ disk'[v] = NoClaim
  <2>1. ASSUME NEW v \in Wakes, v \notin Kept, disk[v].phase # "running" PROVE disk[v] = NoClaim
    BY <1>4, <2>1 DEF Saved, Running, Completing
  <2> QED
    BY <1>2, <2>1
<1>10. JobsQueue'
  <2>1. \A j \in jobs' : j.prior < j.nonce /\ j.nonce \in Nat
    BY <1>6, <1>7
  <2> QED
    BY <1>8, <2>1 DEF JobsQueue
<1>11. ActiveIsLast'
  <2>1. \A j \in jobs' : j.nonce <= active'[j.wake]
    BY <1>6, <1>7
  <2>2. ASSUME NEW v \in Wakes, active'[v] # 0
        PROVE  \E j \in jobs' : j.wake = v /\ j.nonce = active'[v]
    <3>1. v \in Kept
      BY <1>9, <2>2
    <3>2. Recovered(v) \in jobs' /\ Recovered(v).wake = v /\ Recovered(v).nonce = disk[v].nonce
      BY <1>2, <3>1 DEF Recovered
    <3> QED
      BY <1>6, <3>1, <3>2
  <2> QED
    BY <2>1, <2>2 DEF ActiveIsLast
<1>12. PollIsNew'
  BY <1>3 DEF PollIsNew
<1>13. \A v \in Wakes : disk'[v] = disk[v] \/ disk'[v].nonce = 0
  BY <1>2, SavedClaims
<1>14. DiskIsOldest'
  <2>1. DiskTellsJobs'
    BY <1>6, <1>7 DEF DiskTellsJobs, Sessions, Reporting
  <2>2. \A v \in Wakes : disk'[v].nonce <= issued'
    BY <1>2, <1>4, <1>13
  <2>3. \A j \in jobs' : disk'[j.wake].nonce <= j.nonce
    BY <1>6, <1>7
  <2> QED
    BY <2>1, <2>2, <2>3 DEF DiskIsOldest
<1>15. ClaimIsNewest'
  <2>1. claim \in [Wakes -> 0..issued]
    BY DEF UsualInv, ClaimIsNewest
  <2>2. \A v \in Wakes : claim[v] # 0 => disk[v].nonce <= claim[v]
    BY DEF UsualInv, ClaimIsNewest
  <2>3. \A j \in jobs' : claim[j.wake] # 0 => j.nonce <= claim[j.wake]
    BY <1>7, <2>2
  <2>4. \A v \in Wakes : claim[v] # 0 => disk'[v].nonce <= claim[v]
    BY <1>4, <1>13, <2>1, <2>2
  <2> QED
    BY <1>2, <1>3, <2>1, <2>3, <2>4 DEF ClaimIsNewest
<1>16. AskedFits'
  <2> DEFINE C == {v \in Wakes : active'[v] # 0}
  <2>1. C \subseteq Wakes /\ \A v, u \in C : v = u
    BY <1>5, <1>9
  <2>2. Cardinality(C) <= 1
    <3>1. CASE C = {}
      BY <3>1, FS_EmptySet
    <3>2. CASE C # {}
      <4>1. PICK v : C = {v}
        BY <2>1, <3>2
      <4> HIDE DEF C
      <4> QED
        BY <4>1, FS_Singleton
    <3> HIDE DEF C
    <3> QED
      BY <3>1, <3>2
  <2>3. Busy' = Cardinality(C)
    BY DEF Busy
  <2>4. IsFiniteSet(poll'.got)
    BY <1>3, FS_EmptySet
  <2> HIDE DEF C
  <2> QED
    BY <1>1, <1>2, <1>3, <2>2, <2>3, <2>4 DEF AskedFits
<1>17. OneAtATime'
  <2>1. \A v \in Wakes : disk'[v] # NoClaim => v \in Kept
    BY <1>9
  <2>2. ASSUME NEW v \in Kept PROVE \E j \in jobs' : j.wake = v /\ j.pc = "reporting"
    <3>1. Recovered(v) \in jobs' /\ Recovered(v).wake = v /\ Recovered(v).pc = "reporting"
      BY <1>2, <2>2 DEF Recovered
    <3> QED
      BY <3>1
  <2>3. \A j \in jobs' : j.pc # "waiting" /\ j.wake \in Kept
    BY <1>7
  <2> HIDE DEF Kept
  <2> QED
    BY <1>3, <1>5, <1>8, <2>1, <2>2, <2>3 DEF OneAtATime
<1> QED
  BY <1>1, <1>2, <1>10, <1>11, <1>12, <1>14, <1>15, <1>16, <1>17 DEF UsualInv

\* The server's other steps, and steps in which nothing changes.
LEMMA UsualElsewhereStep ==
  ASSUME UsualInv, ClaimsInv', ServerElse \/ UNCHANGED vars
  PROVE  UsualInv'
<1>1. /\ jobs' = jobs /\ disk' = disk /\ active' = active /\ up' = up /\ stopping' = stopping
      /\ concurrency' = concurrency /\ restarts' = restarts /\ poll' = poll
  BY DEF ServerElse, vars, config
<1>2. claim \in [Wakes -> 0..issued] /\ issued \in Nat
  BY ClaimsFacts DEF UsualInv, ClaimIsNewest
<1>3. issued' = issued /\ claim' \in [Wakes -> 0..issued] /\ \A v \in Wakes : claim'[v] \in {0, claim[v]}
  BY <1>2, ServerClaims DEF ServerElse, vars
<1>4. ClaimIsNewest'
  <2>1. \A k \in jobs : k.wake \in Wakes
    BY ClaimsFacts DEF UsualInv
  <2>2. \A g \in poll.got : g.wake \in Wakes
    BY ClaimsFacts DEF UsualInv
  <2> QED
    BY <1>1, <1>3, <2>1, <2>2 DEF UsualInv, ClaimIsNewest
<1>5. JobsQueue' /\ ActiveIsLast' /\ PollIsNew' /\ DiskIsOldest' /\ AskedFits'
  BY <1>1, <1>3 DEF UsualInv, JobsQueue, ActiveIsLast, PollIsNew, DiskIsOldest, DiskTellsJobs,
     Sessions, Reporting, AskedFits, Busy
<1>6. ASSUME concurrency = 1 PROVE OneAtATime'
  BY <1>1, <1>6 DEF UsualInv, OneAtATime
<1> QED
  BY <1>1, <1>4, <1>5, <1>6 DEF UsualInv, Unrecovered

LEMMA NextUsual ==
  ASSUME UsualInv, [Next]_vars
  PROVE  UsualInv'
<1>1. ClaimsInv'
  BY NextClaims DEF UsualInv
<1>2. CASE Polls
  BY <1>1, <1>2, UsualAskStep, UsualAnsweredStep, UsualGrantStep DEF Polls
<1>3. ASSUME NEW j \in jobs, Works(j) \/ Reports(j) PROVE UsualInv'
  BY <1>1, <1>3, UsualJobStep, UsualSettleStep DEF Works, Reports
<1>4. CASE Process
  BY <1>1, <1>4, UsualDownStep, UsualRestartStep DEF Process
<1>5. CASE ServerElse \/ UNCHANGED vars
  BY <1>1, <1>5, UsualElsewhereStep
<1> QED
  BY <1>2, <1>3, <1>4, <1>5 DEF Next

LEMMA InitUsual == UsualInit => UsualInv
<1> SUFFICES ASSUME UsualInit PROVE UsualInv
  OBVIOUS
<1>1. Init /\ (concurrency = 1 \/ restarts = 0) /\ ClaimsInv
  BY InitClaims DEF UsualInit
<1>2. jobs = {} /\ poll = NoPoll /\ disk = [w \in Wakes |-> NoClaim] /\ active = [w \in Wakes |-> 0]
      /\ issued = 0 /\ claim = [w \in Wakes |-> 0]
  BY <1>1 DEF Init, Server!Init
<1>3. poll.got = {} /\ poll.pc # "asked"
  BY <1>2 DEF NoPoll
<1>4. JobsQueue /\ ActiveIsLast /\ PollIsNew
  BY <1>2, <1>3 DEF JobsQueue, ActiveIsLast, PollIsNew
<1>5. DiskIsOldest /\ ClaimIsNewest
  BY <1>2, <1>3 DEF DiskIsOldest, DiskTellsJobs, Sessions, Reporting, ClaimIsNewest, NoClaim
<1>6. AskedFits
  <2>1. {w \in Wakes : active[w] # 0} = {}
    BY <1>2
  <2>2. Busy = 0 /\ IsFiniteSet(poll.got)
    BY <1>3, <2>1, FS_EmptySet DEF Busy
  <2> QED
    BY <1>1, <1>3, <2>2, ClaimsFacts DEF AskedFits
<1>7. OneAtATime
  BY <1>2, <1>3 DEF OneAtATime
<1> QED
  BY <1>1, <1>2, <1>4, <1>5, <1>6, <1>7 DEF UsualInv, Unrecovered

\* What UsualInv says of sessions.
LEMMA UsualSessions ==
  ASSUME UsualInv
  PROVE  OneSessionPerWake /\ WithinConcurrency /\ DiskTellsJobs
<1>1. OneSessionPerWake
  <2>1. ASSUME NEW j \in Sessions, NEW k \in Sessions, j.wake = k.wake, j # k PROVE FALSE
    BY <2>1, OthersWait DEF UsualInv, Sessions
  <2> QED
    BY <2>1 DEF OneSessionPerWake
<1>2. WithinConcurrency
  <2> DEFINE B == {w \in Wakes : active[w] # 0}
             f == [j \in Sessions |-> j.wake]
  <2>1. \A j \in Sessions : j.wake \in B
    BY ClaimsFacts DEF UsualInv, ActiveIsLast, Sessions
  <2>2. f \in Injection(Sessions, B)
    BY <1>1, <2>1 DEF OneSessionPerWake, Injection, IsInjective
  <2>3. B \subseteq Wakes
    OBVIOUS
  <2>4. IsFiniteSet(B) /\ Busy = Cardinality(B)
    BY <2>3, BusyCount DEF Busy
  <2>5. IsFiniteSet(Sessions) /\ Cardinality(Sessions) <= Busy
    <3> HIDE DEF B, f
    <3> QED
      BY <2>2, <2>4, FS_Injection
  <2>6. Cardinality(Sessions) \in Nat /\ Busy \in Nat /\ concurrency \in Nat
    BY <2>5, FS_CardinalityType, BusyCount, ClaimsFacts DEF UsualInv
  <2> QED
    BY <2>5, <2>6 DEF UsualInv, AskedFits, WithinConcurrency
<1>3. DiskTellsJobs
  BY DEF UsualInv, DiskIsOldest
<1> QED
  BY <1>1, <1>2, <1>3

\* A saved result that the server would take leaves the disk by its report alone.
LEMMA ResultKept ==
  ASSUME UsualInv, [Next]_vars,
         NEW w \in Wakes, disk[w].phase = "completing", claim[w] = disk[w].nonce, disk'[w] # disk[w]
  PROVE  ~stopping /\ disk'[w] = NoClaim /\ \E j \in Reporting : j.nonce = disk[w].nonce
<1>1. disk \in [Wakes -> Saved] /\ disk[w].nonce \in Nat \ {0} /\ disk[w].nonce \in ran
  BY SavedClaims, LoopConstants DEF UsualInv, ClaimsInv, LoopTypeOK, ClaimsOnDisk, Nonces
<1>2. PICK j \in jobs : Works(j) \/ Reports(j)
  <2>1. CASE Polls \/ ServerElse \/ UNCHANGED vars
    BY <2>1 DEF Polls, Ask, ClaimAnswered, ClaimFails, ServerGrants, ServerElse, vars
  <2>2. CASE Process
    BY <1>1, <2>2 DEF Process, StopAsked, ProcessExits, Crash, Down, Restart
  <2> QED
    BY <2>1, <2>2 DEF Next
<1>3. j \in Job /\ j.nonce \in Nat /\ j.wake \in Wakes
  BY ClaimsFacts DEF UsualInv
<1>4. j.pc \in {"running", "lost"} => disk[j.wake].phase = "running"
  <2>1. j.pc \in {"running", "lost"} => disk[j.wake] = Running(j.nonce)
    BY DEF UsualInv, DiskIsOldest, DiskTellsJobs, Sessions
  <2> QED
    BY <2>1 DEF Running
<1>5. ~HandleStarts(j)
  <2>1. ASSUME HandleStarts(j) PROVE FALSE
    <3>1. j.wake = w /\ j.pc = "waiting"
      BY <1>1, <1>3, <2>1 DEF HandleStarts, Put
    <3>2. j.nonce <= disk[w].nonce /\ disk[w].nonce <= j.nonce
      BY <1>1, <3>1 DEF UsualInv, ClaimIsNewest, DiskIsOldest
    <3>3. j.nonce \notin ran
      BY <3>1 DEF UsualInv, ClaimsInv, ClaimsOfJobs
    <3> QED
      BY <1>1, <1>3, <3>2, <3>3
  <2> QED
    BY <2>1
<1>6. SessionEnds(j) \/ SessionDiscarded(j) \/ ReportAnswered(j) \/ ReportRefused(j)
  BY <1>2, <1>5 DEF Works, Reports, HeartbeatRefused, LeaseRunsOut, HeartbeatFatal,
     ReportReaches, AnswerLost, ReportAborted, Settle
<1>7. j.wake = w
  BY <1>1, <1>3, <1>6 DEF SessionEnds, SessionDiscarded, ReportAnswered, ReportRefused, Remove, Put
<1>8. ReportAnswered(j) \/ ReportRefused(j)
  BY <1>4, <1>6, <1>7 DEF SessionEnds, SessionDiscarded
<1>9. ~stopping /\ disk' = [disk EXCEPT ![w] = NoClaim] /\ j \in Reporting
  BY <1>7, <1>8 DEF ReportAnswered, ReportRefused, Remove, Put, Reporting
<1>10. disk[w] = Completing(j.nonce)
  BY <1>7, <1>9 DEF UsualInv, DiskIsOldest, DiskTellsJobs
<1> QED
  BY <1>1, <1>9, <1>10 DEF Completing

\* "never two sessions for one wake", --concurrency is kept, and a restart would
\* read what the jobs are doing: for every number of wakes and claims, through
\* stops and crashes, as long as the program is not started again with results
\* to recover and more than one session at once.
THEOREM SessionsInOrder == UsualSpec => [](OneSessionPerWake /\ WithinConcurrency /\ DiskTellsJobs)
<1>1. UsualInit => UsualInv
  BY InitUsual
<1>2. UsualInv /\ [Next]_vars => UsualInv'
  BY NextUsual
<1>3. UsualInv => OneSessionPerWake /\ WithinConcurrency /\ DiskTellsJobs
  BY UsualSessions
<1> QED
  BY <1>1, <1>2, <1>3, PTL DEF UsualSpec

\* Under the same condition a saved result is dropped by nothing but its own
\* report: no stop, crash, restart, or later claim on its wake.
THEOREM ResultsAreKept == UsualSpec => SavedResultKept
<1> DEFINE Kept == \A w \in Wakes :
              disk[w].phase = "completing" /\ claim[w] = disk[w].nonce /\ disk'[w] # disk[w]
                => ~stopping /\ disk'[w] = NoClaim
                     /\ \E j \in Reporting : j.nonce = disk[w].nonce
<1>1. UsualInit => UsualInv
  BY InitUsual
<1>2. UsualInv /\ [Next]_vars => UsualInv'
  BY NextUsual
<1>3. UsualInv /\ [Next]_vars => Kept
  BY ResultKept
<1> QED
  BY <1>1, <1>2, <1>3, PTL DEF UsualSpec, SavedResultKept
=============================================================================
