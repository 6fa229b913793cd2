--------------------------- MODULE AiCreditsProofs ---------------------------
(***************************************************************************)
(* Three facts about the prepaid credits, for every number of processes    *)
(* and payments, every amount and every fault: one charge of the card is   *)
(* in flight at a time, no payment is credited twice, and the balance is   *)
(* what the ledger has left of the top-ups.                                *)
(*                                                                         *)
(* The first needs nothing of the sums.  The others rest on what Left adds *)
(* up, a fold over a set of payments: the facts about sums come before     *)
(* them.  Induction over the set is a smallest set that would refute the   *)
(* fact (SmallestSet), for a set that is finite has one.                   *)
(***************************************************************************)
EXTENDS AiCredits, FiniteSetTheorems, WellFoundedInduction, TLAPS

-----------------------------------------------------------------------------
(* One reload.                                                             *)

Places == {"idle", "balance", "commit", "insert", "add", "claim", "charge", "release", "failed"}

Fields(P, C, S, F, B, E, N) ==
  [at : Places, payment : P, auto : BOOLEAN, cost : C, stale : S, forfeit : F, current : B,
   enabled : E, failures : N]

\* A process is a record of these fields, whatever the sums in it.
Shaped(q) == \E P, C, S, F, B, E, N : q \in Fields(P, C, S, F, B, E, N)

\* A reload is charged, then topped up, then over; only a reload is charged, ends or fails.
Placed(q) ==
  /\ q.auto \in BOOLEAN
  /\ q.auto => q.at \in {"charge", "insert", "add", "release", "failed"}
  /\ q.at \in {"charge", "release", "failed"} => q.auto

ShapeInv ==
  /\ proc = [c \in Procs |-> proc[c]]
  /\ \A c \in Procs : Shaped(proc[c]) /\ Placed(proc[c])

\* reload has its fields, whatever the count of failures.
ReloadInv ==
  reload = [enabled |-> reload.enabled, claimed |-> reload.claimed,
            failures |-> reload.failures, retry |-> reload.retry]

CreditsInv == ShapeInv /\ ReloadInv /\ OneReload

\* A process that begins.
LEMMA FreeShape ==
  /\ Shaped(Free) /\ Placed(Free) /\ ~Free.auto
  /\ LET q == [Free EXCEPT !.at = "claim"] IN Shaped(q) /\ Placed(q) /\ ~q.auto
  /\ LET q == [Free EXCEPT !.at = "release", !.auto = TRUE] IN Shaped(q) /\ Placed(q)
<1>1. Free \in Fields({0}, {0}, {{}}, {0}, {0}, {FALSE}, {0}) /\ Placed(Free) /\ ~Free.auto
  BY DEF Fields, Places, Placed, Free
<1> DEFINE q == [Free EXCEPT !.at = "claim"]
           r == [Free EXCEPT !.at = "release", !.auto = TRUE]
<1>2. q \in Fields({0}, {0}, {{}}, {0}, {0}, {FALSE}, {0}) /\ Placed(q) /\ ~q.auto
  BY DEF Fields, Places, Placed, Free
<1>3. r \in Fields({0}, {0}, {{}}, {0}, {0}, {FALSE}, {0}) /\ Placed(r)
  BY DEF Fields, Places, Placed, Free
<1> HIDE DEF q, r
<1>4. Shaped(Free) /\ Shaped(q) /\ Shaped(r)
  BY <1>1, <1>2, <1>3 DEF Shaped
<1> QED
  BY <1>1, <1>2, <1>3, <1>4 DEF q, r

\* A process that goes on to another place.
LEMMA MovedShape ==
  ASSUME NEW q, Shaped(q), NEW place \in Places, NEW r, r = [q EXCEPT !.at = place]
  PROVE  Shaped(r) /\ r.at = place /\ r.auto = q.auto
<1>1. PICK P, C, S, F, B, E, N : q \in Fields(P, C, S, F, B, E, N)
  BY DEF Shaped
<1>2. r \in Fields(P, C, S, F, B, E, N) /\ r.at = place /\ r.auto = q.auto
  BY <1>1 DEF Fields
<1> QED
  BY <1>2 DEF Shaped

\* A step of one process keeps the claim to one: it takes a claim only when there is none,
\* and gives up only its own.
LEMMA OneTurn ==
  ASSUME CreditsInv, NEW c \in Procs, NEW q, proc' = [proc EXCEPT ![c] = q],
         Shaped(q), Placed(q), ReloadInv',
         q.auto => reload'.claimed,
         q.auto /\ ~proc[c].auto => ~reload.claimed,
         reload.claimed /\ ~reload'.claimed => proc[c].auto
  PROVE  CreditsInv'
<1>1. /\ proc' = [d \in Procs |-> proc'[d]] /\ proc'[c] = q
      /\ \A d \in Procs : d # c => proc'[d] = proc[d]
  BY DEF CreditsInv, ShapeInv
<1>2. ShapeInv'
  BY <1>1 DEF CreditsInv, ShapeInv
<1>3. /\ \A d \in Procs : proc[d].auto => reload.claimed
      /\ \A d, e \in Procs : proc[d].auto /\ proc[e].auto => d = e
  BY DEF CreditsInv, OneReload, Reloading
<1>4. ASSUME NEW d \in Procs, proc'[d].auto PROVE reload'.claimed
  <2>1. CASE d = c
    BY <1>1, <1>4, <2>1
  <2>2. CASE d # c
    BY <1>1, <1>3, <1>4, <2>2
  <2> QED
    BY <2>1, <2>2
<1>5. ASSUME NEW d \in Procs, NEW e \in Procs, proc'[d].auto, proc'[e].auto PROVE d = e
  <2>1. CASE d # c /\ e # c
    BY <1>1, <1>3, <1>5, <2>1
  <2>2. ASSUME NEW f \in Procs, f # c, proc'[f].auto, proc'[c].auto PROVE FALSE
    <3>1. proc[f].auto /\ reload.claimed /\ q.auto
      BY <1>1, <1>3, <2>2
    <3>2. proc[c].auto
      BY <3>1, <1>2 DEF CreditsInv, ShapeInv, Placed
    <3> QED
      BY <1>3, <2>2, <3>1, <3>2
  <2> QED
    BY <1>5, <2>1, <2>2
<1> QED
  BY <1>2, <1>4, <1>5 DEF CreditsInv, OneReload, Reloading

\* A step of a process that does not touch the claim.
LEMMA QuietTurn ==
  ASSUME CreditsInv, NEW c \in Procs, NEW q, Continue(c, q), Shaped(q), Placed(q),
         q.auto => proc[c].auto, reload' = reload
  PROVE  CreditsInv'
<1>1. proc' = [proc EXCEPT ![c] = q]
  BY DEF Continue
<1>2. proc[c].auto => reload.claimed
  BY DEF CreditsInv, OneReload, Reloading
<1>3. ReloadInv'
  BY DEF CreditsInv, ReloadInv
<1> QED
  BY <1>1, <1>2, <1>3, OneTurn

\* A step that changes no process and keeps the claim.
LEMMA NoTurn ==
  ASSUME CreditsInv, proc' = proc, ReloadInv', reload'.claimed = reload.claimed
  PROVE  CreditsInv'
BY DEF CreditsInv, ShapeInv, OneReload, Reloading

LEMMA AfterTopUpShape ==
  ASSUME NEW c, Shaped(proc[c]), Placed(proc[c])
  PROVE  LET q == AfterTopUp(c) IN Shaped(q) /\ Placed(q) /\ (q.auto => proc[c].auto)
<1>1. CASE proc[c].auto
  <2>1. AfterTopUp(c) = [Free EXCEPT !.at = "release", !.auto = TRUE]
    BY <1>1 DEF AfterTopUp
  <2> QED
    BY <1>1, <2>1, FreeShape
<1>2. CASE ~proc[c].auto
  <2>1. AfterTopUp(c) = Free
    BY <1>2 DEF AfterTopUp
  <2> QED
    BY <2>1, FreeShape
<1> QED
  BY <1>1, <1>2

\* The steps of a process one by one.
LEMMA StepCredits == ASSUME CreditsInv, NEW c \in Procs, Step(c) PROVE CreditsInv'
<1>0. Shaped(proc[c]) /\ Placed(proc[c]) /\ ReloadInv
  BY DEF CreditsInv, ShapeInv
<1>1. CASE Insert(c)
  <2>1. CASE FirstTime(proc[c].payment)
    <3> DEFINE q == [proc[c] EXCEPT !.at = "add"]
    <3>1. proc[c].at = "insert" /\ Continue(c, q) /\ reload' = reload
      BY <1>1, <2>1 DEF Insert
    <3>2. Shaped(q) /\ q.at = "add" /\ q.auto = proc[c].auto
      <4>1. "add" \in Places
        BY DEF Places
      <4> QED
        BY <1>0, <4>1, MovedShape
    <3> HIDE DEF q
    <3>3. Placed(q)
      BY <1>0, <3>1, <3>2 DEF Placed
    <3> QED
      BY <3>1, <3>2, <3>3, QuietTurn
  <2>2. CASE ~FirstTime(proc[c].payment)
    <3>1. Continue(c, AfterTopUp(c)) /\ reload' = reload
      BY <1>1, <2>2 DEF Insert
    <3> QED
      BY <1>0, <3>1, AfterTopUpShape, QuietTurn
  <2> QED
    BY <2>1, <2>2
<1>2. CASE Add(c)
  <2>1. Continue(c, AfterTopUp(c)) /\ reload' = reload
    BY <1>2 DEF Add
  <2> QED
    BY <1>0, <2>1, AfterTopUpShape, QuietTurn
<1>3. CASE ReadBalance(c)
  <2> DEFINE q == [proc[c] EXCEPT !.at = "commit", !.current = AfterForfeit(c),
                     !.forfeit = 0, !.enabled = reload.enabled]
  <2>1. proc[c].at = "balance" /\ Continue(c, q) /\ reload' = reload
    BY <1>3 DEF ReadBalance
  <2>2. PICK P, C, S, F, B, E, N : proc[c] \in Fields(P, C, S, F, B, E, N)
    BY <1>0 DEF Shaped
  <2>3. /\ q \in Fields(P, C, S, F \cup {0}, B \cup {AfterForfeit(c)}, E \cup {reload.enabled}, N)
        /\ q.at = "commit" /\ q.auto = proc[c].auto
    BY <2>2 DEF Fields, Places
  <2> HIDE DEF q
  <2>4. Shaped(q) /\ Placed(q)
    BY <1>0, <2>1, <2>3 DEF Shaped, Placed
  <2> QED
    BY <2>1, <2>3, <2>4, QuietTurn
<1>4. CASE Commit(c)
  <2>1. reload' = reload /\ (Continue(c, [Free EXCEPT !.at = "claim"]) \/ Continue(c, Free))
    BY <1>4 DEF Commit
  <2> QED
    BY <2>1, FreeShape, QuietTurn
<1>5. CASE Claim(c)
  <2>1. CASE Claimable
    <3> DEFINE q == [Free EXCEPT !.at = "charge", !.auto = TRUE, !.failures = reload.failures]
    <3>1. proc' = [proc EXCEPT ![c] = q] /\ reload' = [reload EXCEPT !.claimed = TRUE]
          /\ ~reload.claimed
      BY <1>5, <2>1 DEF Claim, Continue, Claimable
    <3>2. q \in Fields({0}, {0}, {{}}, {0}, {0}, {FALSE}, {reload.failures}) /\ Placed(q)
      BY DEF Fields, Places, Placed, Free
    <3> HIDE DEF q
    <3>3. Shaped(q)
      BY <3>2 DEF Shaped
    <3>4. ReloadInv' /\ reload'.claimed
      BY <1>0, <3>1 DEF ReloadInv
    <3> QED
      BY <3>1, <3>2, <3>3, <3>4, OneTurn
  <2>2. CASE ~Claimable
    <3>1. Continue(c, Free) /\ reload' = reload
      BY <1>5, <2>2 DEF Claim
    <3> QED
      BY <3>1, FreeShape, QuietTurn
  <2> QED
    BY <2>1, <2>2
<1>6. CASE ChargeCard(c)
  <2> DEFINE q == [proc[c] EXCEPT !.at = "insert", !.payment = NewPayment]
  <2>1. proc[c].at = "charge" /\ Continue(c, q) /\ reload' = reload
    BY <1>6 DEF ChargeCard
  <2>2. Shaped(q) /\ q.at = "insert" /\ q.auto = proc[c].auto
    <3>1. PICK P, C, S, F, B, E, N : proc[c] \in Fields(P, C, S, F, B, E, N)
      BY <1>0 DEF Shaped
    <3>2. q \in Fields(P \cup {NewPayment}, C, S, F, B, E, N) /\ q.at = "insert" /\ q.auto = proc[c].auto
      BY <3>1 DEF Fields, Places
    <3> HIDE DEF q
    <3> QED
      BY <3>2 DEF Shaped
  <2> HIDE DEF q
  <2>3. Placed(q)
    BY <1>0, <2>1, <2>2 DEF Placed
  <2> QED
    BY <2>1, <2>2, <2>3, QuietTurn
<1>7. CASE Declined(c)
  <2> DEFINE q == [proc[c] EXCEPT !.at = "failed"]
  <2>1. proc[c].at = "charge" /\ Continue(c, q) /\ reload' = reload
    BY <1>7 DEF Declined
  <2>2. Shaped(q) /\ q.at = "failed" /\ q.auto = proc[c].auto
    <3>1. "failed" \in Places
      BY DEF Places
    <3> QED
      BY <1>0, <3>1, MovedShape
  <2> HIDE DEF q
  <2>3. Placed(q)
    BY <1>0, <2>1, <2>2 DEF Placed
  <2> QED
    BY <2>1, <2>2, <2>3, QuietTurn
<1>8. CASE Release(c)
  <2>1. /\ proc[c].at = "release" /\ proc' = [proc EXCEPT ![c] = Free]
        /\ reload' = [reload EXCEPT !.claimed = FALSE, !.failures = 0, !.retry = "none"]
    BY <1>8 DEF Release, Continue
  <2>2. proc[c].auto
    BY <1>0, <2>1 DEF Placed
  <2>3. ReloadInv'
    BY <1>0, <2>1 DEF ReloadInv
  <2> QED
    BY <2>1, <2>2, <2>3, FreeShape, OneTurn
<1>9. CASE Fail(c)
  <2>1. /\ proc[c].at = "failed" /\ proc' = [proc EXCEPT ![c] = Free]
        /\ reload' = FailedReload(proc[c].failures + 1)
    BY <1>9 DEF Fail, Continue
  <2>2. proc[c].auto
    BY <1>0, <2>1 DEF Placed
  <2>3. ReloadInv'
    BY <1>0, <2>1 DEF ReloadInv, FailedReload
  <2> QED
    BY <2>1, <2>2, <2>3, FreeShape, OneTurn
<1> QED
  BY <1>1, <1>2, <1>3, <1>4, <1>5, <1>6, <1>7, <1>8, <1>9 DEF Step

LEMMA NextCredits == CreditsInv /\ [Next]_vars => CreditsInv'
<1> SUFFICES ASSUME CreditsInv, [Next]_vars PROVE CreditsInv'
  OBVIOUS
<1>0. ReloadInv
  BY DEF CreditsInv
<1>1. CASE Checkout
  BY <1>0, <1>1, NoTurn DEF Checkout, ReloadInv
<1>2. ASSUME NEW c \in Procs, NEW p \in Payments, Deliver(c, p) PROVE CreditsInv'
  <2> DEFINE q == [Free EXCEPT !.at = "insert", !.payment = p]
  <2>1. Continue(c, q) /\ reload' = reload
    BY <1>2 DEF Deliver
  <2>2. q \in Fields({p}, {0}, {{}}, {0}, {0}, {FALSE}, {0}) /\ Placed(q) /\ ~q.auto
    BY DEF Fields, Places, Placed, Free
  <2> HIDE DEF q
  <2>3. Shaped(q)
    BY <2>2 DEF Shaped
  <2> QED
    BY <2>1, <2>2, <2>3, QuietTurn
<1>3. ASSUME NEW p \in Payments, Lapse(p) PROVE CreditsInv'
  BY <1>0, <1>3, NoTurn DEF Lapse, ReloadInv
<1>4. ASSUME NEW c \in Procs, RecordUsage(c) \/ GetBalance(c) PROVE CreditsInv'
  <2> DEFINE q(cost) == [Free EXCEPT !.at = "balance", !.cost = cost, !.stale = Stale,
                           !.forfeit = Left(Stale)]
  <2>1. reload' = reload /\ (Continue(c, q(Charge)) \/ Continue(c, q(0)))
    BY <1>4 DEF RecordUsage, GetBalance, Begin
  <2>2. ASSUME NEW cost
        PROVE  /\ q(cost) \in Fields({0}, {cost}, {Stale}, {Left(Stale)}, {0}, {FALSE}, {0})
               /\ Placed(q(cost)) /\ ~q(cost).auto
    BY DEF Fields, Places, Placed, Free
  <2> HIDE DEF q
  <2>3. \A cost : Shaped(q(cost))
    BY <2>2 DEF Shaped
  <2> QED
    BY <2>1, <2>2, <2>3, QuietTurn
<1>5. ASSUME NEW c \in Procs, Sweep(c) PROVE CreditsInv'
  <2>1. Continue(c, [Free EXCEPT !.at = "claim"]) /\ reload' = reload
    BY <1>5 DEF Sweep
  <2> QED
    BY <2>1, FreeShape, QuietTurn
<1>6. ASSUME NEW c \in Procs, TopUpThrows(c) PROVE CreditsInv'
  <2> DEFINE q == [proc[c] EXCEPT !.at = "failed", !.payment = 0]
  <2>1. proc[c].auto /\ Continue(c, q) /\ reload' = reload
    BY <1>6 DEF TopUpThrows
  <2>2. Shaped(proc[c]) /\ Placed(proc[c])
    BY DEF CreditsInv, ShapeInv
  <2>3. Shaped(q) /\ q.at = "failed" /\ q.auto = proc[c].auto
    <3>1. PICK P, C, S, F, B, E, N : proc[c] \in Fields(P, C, S, F, B, E, N)
      BY <2>2 DEF Shaped
    <3>2. q \in Fields(P \cup {0}, C, S, F, B, E, N) /\ q.at = "failed" /\ q.auto = proc[c].auto
      BY <3>1 DEF Fields, Places
    <3> HIDE DEF q
    <3> QED
      BY <3>2 DEF Shaped
  <2> HIDE DEF q
  <2>4. Placed(q)
    BY <2>1, <2>2, <2>3 DEF Placed
  <2> QED
    BY <2>1, <2>3, <2>4, QuietTurn
<1>7. ASSUME NEW c \in Procs, Crash(c) PROVE CreditsInv'
  <2>1. Continue(c, Free) /\ reload' = reload
    BY <1>7 DEF Crash
  <2> QED
    BY <2>1, FreeShape, QuietTurn
<1>8. CASE BackoffPasses
  <2>1. proc' = proc /\ reload' = [reload EXCEPT !.retry = "due"]
    BY <1>8 DEF BackoffPasses
  <2>2. ReloadInv' /\ reload'.claimed = reload.claimed
    BY <1>0, <2>1 DEF ReloadInv
  <2> QED
    BY <2>1, <2>2, NoTurn
<1>9. ASSUME NEW enabled \in BOOLEAN, SetAutoReload(enabled) PROVE CreditsInv'
  <2>1. /\ proc' = proc
        /\ reload' = [reload EXCEPT !.enabled = enabled, !.failures = 0, !.retry = "none"]
    BY <1>9 DEF SetAutoReload
  <2>2. ReloadInv' /\ reload'.claimed = reload.claimed
    BY <1>0, <2>1 DEF ReloadInv
  <2> QED
    BY <2>1, <2>2, NoTurn
<1>10. CASE UNCHANGED vars
  BY <1>0, <1>10, NoTurn DEF vars, ReloadInv
<1> QED
  BY <1>1, <1>2, <1>3, <1>4, <1>5, <1>6, <1>7, <1>8, <1>9, <1>10, StepCredits DEF Next

LEMMA InitCredits == Init => CreditsInv
<1> SUFFICES ASSUME Init PROVE CreditsInv
  OBVIOUS
<1>1. ShapeInv /\ \A c \in Procs : ~proc[c].auto
  BY FreeShape DEF Init, ShapeInv
<1>2. ReloadInv
  BY DEF Init, ReloadInv
<1> QED
  BY <1>1, <1>2 DEF CreditsInv, OneReload, Reloading

\* However runs cross the threshold together, the sweep retries and people set the reload
\* meanwhile, tryAutoReload never has two charges of the card in flight.
THEOREM OneChargeInFlight == Spec => []OneReload
<1>1. CreditsInv => OneReload
  BY DEF CreditsInv
<1> QED
  BY <1>1, InitCredits, NextCredits, PTL DEF Spec

-----------------------------------------------------------------------------
(* Sums over a finite set, what Left adds up.                              *)

Pick(s) == CHOOSE x \in s : TRUE
Sum(f, S) == FoldFunctionOnSet(+, 0, f, S)

\* g is the table of the sums of f over the subsets of S.
Table(f, S, g) ==
  g = [s \in SUBSET S |-> IF s = {} THEN 0 ELSE f[Pick(s)] + g[s \ {Pick(s)}]]

\* Among sets of parts of a finite set there is a smallest.
LEMMA SmallestSet ==
  ASSUME NEW S, IsFiniteSet(S), NEW B, B \subseteq SUBSET S, B # {}
  PROVE  \E s \in B : IsFiniteSet(s) /\ \A t \in B : t \subseteq s => t = s
<1>1. IsWellFoundedOn(StrictSubsetOrdering(S), FiniteSubsetsOf(S))
  BY FS_StrictSubsetOrderingWellFounded
<1>2. B \subseteq FiniteSubsetsOf(S)
  BY FS_Subset DEF FiniteSubsetsOf
<1>3. PICK s \in B : \A t \in B : <<t, s>> \notin StrictSubsetOrdering(S)
  BY <1>1, <1>2, WFMin
<1>4. ASSUME NEW t \in B, t \subseteq s PROVE t = s
  BY <1>3, <1>4 DEF StrictSubsetOrdering
<1> QED
  BY <1>2, <1>4 DEF FiniteSubsetsOf

LEMMA PickIn == ASSUME NEW s, s # {} PROVE Pick(s) \in s
BY DEF Pick

LEMMA TableRow ==
  ASSUME NEW f, NEW S, NEW g, Table(f, S, g), NEW s \in SUBSET S
  PROVE  /\ s = {} => g[s] = 0
         /\ s # {} => g[s] = f[Pick(s)] + g[s \ {Pick(s)}]
BY DEF Table

LEMMA TableTop ==
  ASSUME NEW f, NEW S, NEW g, Table(f, S, g)
  PROVE  /\ S = {} => g[S] = 0
         /\ S # {} => g[S] = f[Pick(S)] + g[S \ {Pick(S)}]
BY DEF Table

\* Two tables agree where the functions do.
LEMMA TablesAgree ==
  ASSUME NEW S, IsFiniteSet(S), NEW T, NEW f, NEW e, NEW g, NEW h,
         Table(f, S, g), Table(e, T, h), \A x \in S : f[x] = e[x],
         NEW r, r \subseteq S, r \subseteq T
  PROVE  g[r] = h[r]
<1> DEFINE B == {s \in SUBSET S : s \subseteq T /\ g[s] # h[s]}
<1>1. SUFFICES ASSUME B # {} PROVE FALSE
  OBVIOUS
<1>2. PICK s \in B : \A t \in B : t \subseteq s => t = s
  <2>1. B \subseteq SUBSET S
    OBVIOUS
  <2> HIDE DEF B
  <2> QED
    BY <1>1, <2>1, SmallestSet
<1>3. s \in SUBSET S /\ s \in SUBSET T /\ g[s] # h[s]
  OBVIOUS
<1>4. CASE s = {}
  BY <1>3, <1>4, TableRow
<1>5. CASE s # {}
  <2> DEFINE u == s \ {Pick(s)}
  <2>1. Pick(s) \in s
    BY <1>5, PickIn
  <2>2. u \in SUBSET S /\ u \subseteq T /\ u \subseteq s /\ u # s
    BY <1>3, <2>1
  <2>3. g[u] = h[u]
    BY <1>2, <2>2
  <2>4. f[Pick(s)] = e[Pick(s)]
    BY <1>3, <2>1
  <2>5. g[s] = f[Pick(s)] + g[u]
    <3> HIDE DEF B
    <3> QED
      BY <1>3, <1>5 DEF Table
  <2>6. h[s] = e[Pick(s)] + h[u]
    <3> HIDE DEF B
    <3> QED
      BY <1>3, <1>5 DEF Table
  <2> QED
    BY <1>3, <2>3, <2>4, <2>5, <2>6
<1> QED
  BY <1>4, <1>5

\* There is a table for every finite set.
LEMMA TableExists == ASSUME NEW S, IsFiniteSet(S), NEW f PROVE \E g : Table(f, S, g)
<1> DEFINE B == {s \in SUBSET S : ~ \E g : Table(f, s, g)}
<1>1. SUFFICES ASSUME B # {} PROVE FALSE
  OBVIOUS
<1>2. PICK s \in B : IsFiniteSet(s) /\ \A t \in B : t \subseteq s => t = s
  <2>1. B \subseteq SUBSET S
    OBVIOUS
  <2> HIDE DEF B
  <2> QED
    BY <1>1, <2>1, SmallestSet
<1> DEFINE G(u) == CHOOSE g : Table(f, u, g)
           v(u) == u \ {Pick(u)}
           h == [u \in SUBSET s |-> IF u = {} THEN 0 ELSE f[Pick(u)] + G(v(u))[v(u)]]
<1>3. ASSUME NEW u, u \subseteq s, u # s PROVE Table(f, u, G(u)) /\ IsFiniteSet(u)
  <2>1. u \in SUBSET S /\ u \notin B
    BY <1>2, <1>3
  <2>2. \E g : Table(f, u, g)
    BY <2>1
  <2>3. Table(f, u, G(u))
    BY <2>2
  <2>4. IsFiniteSet(u)
    BY <1>2, <1>3, FS_Subset
  <2> QED
    BY <2>3, <2>4
<1>4. ASSUME NEW u \in SUBSET s, u # {} PROVE h[v(u)] = G(v(u))[v(u)]
  <2>1. v(u) \subseteq s /\ v(u) # s
    BY <1>4, PickIn
  <2>2. Table(f, v(u), G(v(u))) /\ IsFiniteSet(v(u))
    BY <1>3, <2>1
  <2>3. CASE v(u) = {}
    <3>1. G(v(u))[v(u)] = 0
      BY <2>2, <2>3, TableRow
    <3>2. h[v(u)] = 0
      BY <2>1, <2>3
    <3> QED
      BY <3>1, <3>2
  <2>4. CASE v(u) # {}
    <3> DEFINE w == v(v(u))
    <3>1. w \subseteq v(u) /\ w \subseteq s /\ w # s
      BY <2>1, <2>4, PickIn
    <3>2. Table(f, w, G(w)) /\ IsFiniteSet(w)
      BY <1>3, <3>1
    <3>3. G(w)[w] = G(v(u))[w]
      <4> HIDE DEF G, w, v
      <4> QED
        BY <2>2, <3>1, <3>2, TablesAgree
    <3>4. G(v(u))[v(u)] = f[Pick(v(u))] + G(v(u))[w]
      <4>1. ASSUME NEW r, Table(f, r, G(r)), r # {}
            PROVE  G(r)[r] = f[Pick(r)] + G(r)[v(r)]
        <5> HIDE DEF G
        <5> QED
          BY <4>1, TableTop
      <4> QED
        BY <2>2, <2>4, <4>1
    <3>5. h[v(u)] = f[Pick(v(u))] + G(w)[w]
      BY <2>1, <2>4
    <3> QED
      BY <3>3, <3>4, <3>5
  <2> QED
    BY <2>3, <2>4
<1>5. Table(f, s, h)
  <2> HIDE DEF G
  <2>1. h = [u \in SUBSET s |-> IF u = {} THEN 0 ELSE f[Pick(u)] + h[v(u)]]
    BY <1>4
  <2> QED
    BY <2>1 DEF Table
<1>6. \E g : Table(f, s, g)
  BY <1>5
<1> QED
  BY <1>6

LEMMA SumTable ==
  ASSUME NEW f, NEW S, IsFiniteSet(S)
  PROVE  \E g : Table(f, S, g) /\ Sum(f, S) = g[S]
<1>1. Sum(f, S) = (CHOOSE g : Table(f, S, g))[S]
  BY DEF Sum, FoldFunctionOnSet, MapThenFoldSet, Table, Pick
<1> QED
  BY <1>1, TableExists

\* Sums of what agrees on the set are equal.
LEMMA SumAgrees ==
  ASSUME NEW f, NEW e, NEW S, IsFiniteSet(S), \A x \in S : f[x] = e[x]
  PROVE  Sum(f, S) = Sum(e, S)
BY SumTable, TablesAgree

LEMMA SumStep ==
  ASSUME NEW f, NEW S, IsFiniteSet(S)
  PROVE  /\ S = {} => Sum(f, S) = 0
         /\ S # {} => Sum(f, S) = f[Pick(S)] + Sum(f, S \ {Pick(S)})
<1>1. PICK g : Table(f, S, g) /\ Sum(f, S) = g[S]
  BY SumTable
<1>2. CASE S = {}
  BY <1>1, <1>2, TableRow
<1>3. CASE S # {}
  <2> DEFINE u == S \ {Pick(S)}
  <2>1. IsFiniteSet(u) /\ u \subseteq S
    BY FS_Subset
  <2>2. PICK h : Table(f, u, h) /\ Sum(f, u) = h[u]
    BY <2>1, SumTable
  <2>3. h[u] = g[u]
    <3> HIDE DEF u
    <3> QED
      BY <1>1, <2>1, <2>2, TablesAgree
  <2>4. g[S] = f[Pick(S)] + g[u]
    BY <1>1, <1>3, TableRow
  <2> QED
    BY <1>1, <1>3, <2>2, <2>3, <2>4
<1> QED
  BY <1>2, <1>3

LEMMA SumType ==
  ASSUME NEW f, NEW S, IsFiniteSet(S), \A x \in S : f[x] \in Int
  PROVE  Sum(f, S) \in Int /\ ((\A x \in S : f[x] >= 0) => Sum(f, S) >= 0)
<1> DEFINE Good(s) == Sum(f, s) \in Int /\ ((\A x \in S : f[x] >= 0) => Sum(f, s) >= 0)
           B == {s \in SUBSET S : ~Good(s)}
<1>1. SUFFICES ASSUME B # {} PROVE FALSE
  OBVIOUS
<1>2. PICK s \in B : IsFiniteSet(s) /\ \A t \in B : t \subseteq s => t = s
  <2>1. B \subseteq SUBSET S
    OBVIOUS
  <2> HIDE DEF B
  <2> QED
    BY <1>1, <2>1, SmallestSet
<1>3. s \subseteq S /\ ~Good(s)
  OBVIOUS
<1>4. CASE s = {}
  <2>1. Sum(f, s) = 0
    BY <1>2, <1>4, SumStep
  <2> QED
    BY <1>3, <2>1
<1>5. CASE s # {}
  <2> DEFINE u == s \ {Pick(s)}
  <2>1. Pick(s) \in s
    BY <1>5, PickIn
  <2>2. u \in SUBSET S /\ u \subseteq s /\ u # s
    BY <1>3, <2>1
  <2>3. Good(u)
    BY <1>2, <2>2
  <2>4. Sum(f, s) = f[Pick(s)] + Sum(f, u)
    BY <1>2, <1>5, SumStep
  <2>5. f[Pick(s)] \in Int /\ Pick(s) \in S
    BY <1>3, <2>1
  <2> QED
    BY <1>3, <2>3, <2>4, <2>5
<1> QED
  BY <1>4, <1>5

\* Any element can be taken out first.
LEMMA SumWithout ==
  ASSUME NEW f, NEW S, IsFiniteSet(S), \A x \in S : f[x] \in Int, NEW a \in S
  PROVE  Sum(f, S) = f[a] + Sum(f, S \ {a})
<1> DEFINE B == {s \in SUBSET S : \E x \in s : Sum(f, s) # f[x] + Sum(f, s \ {x})}
<1>1. SUFFICES ASSUME B # {} PROVE FALSE
  OBVIOUS
<1>2. PICK s \in B : IsFiniteSet(s) /\ \A t \in B : t \subseteq s => t = s
  <2>1. B \subseteq SUBSET S
    OBVIOUS
  <2> HIDE DEF B
  <2> QED
    BY <1>1, <2>1, SmallestSet
<1>3. PICK x \in s : Sum(f, s) # f[x] + Sum(f, s \ {x})
  OBVIOUS
<1> DEFINE p == Pick(s)
           u == s \ {p}
           v == s \ {x}
           w == u \ {x}
<1>4. p \in s /\ s \subseteq S
  BY PickIn
<1>5. Sum(f, s) = f[p] + Sum(f, u)
  BY <1>2, <1>4, SumStep
<1>6. p # x
  BY <1>3, <1>5
<1>7. u \in SUBSET S /\ v \in SUBSET S /\ w = v \ {p} /\ u # s /\ v # s /\ x \in u /\ p \in v
  BY <1>4, <1>6
<1>8. u \notin B /\ v \notin B
  BY <1>2, <1>7
<1>9. Sum(f, u) = f[x] + Sum(f, w) /\ Sum(f, v) = f[p] + Sum(f, w)
  BY <1>7, <1>8
<1>10. f[x] \in Int /\ f[p] \in Int
  BY <1>4
<1>11. Sum(f, w) \in Int
  <2>1. IsFiniteSet(w) /\ \A y \in w : f[y] \in Int
    BY <1>7, FS_Subset
  <2> QED
    BY <2>1, SumType
<1> HIDE DEF p, u, v, w
<1>12. Sum(f, s) = f[x] + Sum(f, v)
  BY <1>5, <1>9, <1>10, <1>11
<1> QED
  BY <1>3, <1>12 DEF v

\* A set is summed in two parts.
LEMMA SumSplit ==
  ASSUME NEW f, NEW S, IsFiniteSet(S), \A x \in S : f[x] \in Int, NEW T
  PROVE  Sum(f, S) = Sum(f, S \cap T) + Sum(f, S \ T)
<1> DEFINE B == {s \in SUBSET S : Sum(f, s) # Sum(f, s \cap T) + Sum(f, s \ T)}
<1>1. SUFFICES ASSUME B # {} PROVE FALSE
  OBVIOUS
<1>2. PICK s \in B : IsFiniteSet(s) /\ \A t \in B : t \subseteq s => t = s
  <2>1. B \subseteq SUBSET S
    OBVIOUS
  <2> HIDE DEF B
  <2> QED
    BY <1>1, <2>1, SmallestSet
<1>3. s \subseteq S /\ Sum(f, s) # Sum(f, s \cap T) + Sum(f, s \ T)
  OBVIOUS
<1>4. CASE s = {}
  <2>1. s \cap T = {} /\ s \ T = {} /\ IsFiniteSet({})
    BY <1>4, FS_EmptySet
  <2>2. Sum(f, {}) = 0
    BY <2>1, SumStep
  <2> QED
    BY <1>3, <1>4, <2>1, <2>2
<1>5. CASE s # {}
  <2>1. PICK a \in s : TRUE
    BY <1>5
  <2> DEFINE u == s \ {a}
  <2>2. u \in SUBSET S /\ u # s /\ u \subseteq s
    BY <1>3, <2>1
  <2>3. Sum(f, u) = Sum(f, u \cap T) + Sum(f, u \ T)
    BY <1>2, <2>2
  <2>4. \A t \in SUBSET S : IsFiniteSet(t) /\ \A x \in t : f[x] \in Int
    BY FS_Subset
  <2>5. Sum(f, s) = f[a] + Sum(f, u) /\ f[a] \in Int
    BY <1>3, <2>1, <2>4, SumWithout
  <2>6. u \cap T \in SUBSET S /\ u \ T \in SUBSET S /\ s \cap T \in SUBSET S /\ s \ T \in SUBSET S
    BY <1>3
  <2>7. Sum(f, u \cap T) \in Int /\ Sum(f, u \ T) \in Int
    BY <2>4, <2>6, SumType
  <2>8. CASE a \in T
    <3>1. (s \cap T) \ {a} = u \cap T /\ s \ T = u \ T /\ a \in s \cap T
      BY <2>8, <2>1
    <3>2. Sum(f, s \cap T) = f[a] + Sum(f, u \cap T)
      BY <2>4, <2>6, <3>1, SumWithout
    <3>3. Sum(f, s \ T) = Sum(f, u \ T)
      BY <3>1
    <3> HIDE DEF u
    <3>4. Sum(f, s) = Sum(f, s \cap T) + Sum(f, s \ T)
      BY <2>3, <2>5, <2>7, <3>2, <3>3
    <3> QED
      BY <1>3, <3>4
  <2>9. CASE a \notin T
    <3>1. (s \ T) \ {a} = u \ T /\ s \cap T = u \cap T /\ a \in s \ T
      BY <2>9, <2>1
    <3>2. Sum(f, s \ T) = f[a] + Sum(f, u \ T)
      BY <2>4, <2>6, <3>1, SumWithout
    <3>3. Sum(f, s \cap T) = Sum(f, u \cap T)
      BY <3>1
    <3> HIDE DEF u
    <3>4. Sum(f, s) = Sum(f, s \cap T) + Sum(f, s \ T)
      BY <2>3, <2>5, <2>7, <3>2, <3>3
    <3> QED
      BY <1>3, <3>4
  <2> QED
    BY <2>8, <2>9
<1> QED
  BY <1>4, <1>5

\* A sum of nothing.
LEMMA SumZero ==
  ASSUME NEW f, NEW S, IsFiniteSet(S), \A x \in S : f[x] = 0
  PROVE  Sum(f, S) = 0
<1> DEFINE B == {s \in SUBSET S : Sum(f, s) # 0}
<1>1. SUFFICES ASSUME B # {} PROVE FALSE
  OBVIOUS
<1>2. PICK s \in B : IsFiniteSet(s) /\ \A t \in B : t \subseteq s => t = s
  <2>1. B \subseteq SUBSET S
    OBVIOUS
  <2> HIDE DEF B
  <2> QED
    BY <1>1, <2>1, SmallestSet
<1>3. s # {}
  BY <1>2, SumStep
<1> DEFINE u == s \ {Pick(s)}
<1>4. Pick(s) \in s /\ f[Pick(s)] = 0
  BY <1>3, PickIn
<1>5. Sum(f, u) = 0
  BY <1>2, <1>4
<1>6. Sum(f, s) = f[Pick(s)] + Sum(f, u)
  BY <1>2, <1>3, SumStep
<1> HIDE DEF u
<1>7. Sum(f, s) = 0
  BY <1>4, <1>5, <1>6
<1> QED
  BY <1>7

\* A part of a sum of what is not negative is not more than all of it.
LEMMA SumPart ==
  ASSUME NEW f, NEW S, IsFiniteSet(S), \A x \in S : f[x] \in Int /\ f[x] >= 0, NEW T,
         T \subseteq S
  PROVE  /\ Sum(f, S) \in Nat /\ Sum(f, T) \in Nat /\ Sum(f, S \ T) \in Nat
         /\ Sum(f, S) = Sum(f, T) + Sum(f, S \ T)
<1>1. S \cap T = T /\ IsFiniteSet(T) /\ IsFiniteSet(S \ T)
  BY FS_Subset
<1>2. Sum(f, S) = Sum(f, T) + Sum(f, S \ T)
  <2>1. \A x \in S : f[x] \in Int
    OBVIOUS
  <2>2. Sum(f, S) = Sum(f, S \cap T) + Sum(f, S \ T)
    BY ONLY IsFiniteSet(S), <2>1, SumSplit
  <2> QED
    BY <1>1, <2>2
<1>3. /\ Sum(f, S) \in Int /\ Sum(f, T) \in Int /\ Sum(f, S \ T) \in Int
      /\ Sum(f, S) >= 0 /\ Sum(f, T) >= 0 /\ Sum(f, S \ T) >= 0
  BY <1>1, SumType
<1> QED
  BY <1>2, <1>3

\* What is left of f when t is taken from the first on: at n, once those before it
\* have been used up.
Rest(f, t, n) ==
  LET before == t - Sum(f, 1..(n - 1))
  IN IF before <= 0 THEN f[n] ELSE IF before < f[n] THEN f[n] - before ELSE 0

\* All of it is what there was less what was taken.
LEMMA FifoTakes ==
  ASSUME NEW N \in Nat, NEW f, \A n \in 1..N : f[n] \in Nat, NEW t \in Nat,
         NEW w, \A n \in 1..N : w[n] = Rest(f, t, n)
  PROVE  Sum(w, 1..N) = IF t < Sum(f, 1..N) THEN Sum(f, 1..N) - t ELSE 0
<1> DEFINE Good(n) == Sum(w, 1..n) = IF t < Sum(f, 1..n) THEN Sum(f, 1..n) - t ELSE 0
           B == {s \in SUBSET (1..N) : \E n \in 0..N : s = 1..n /\ ~Good(n)}
<1>0. \A n \in 0..N : IsFiniteSet(1..n) /\ 1..n \in SUBSET (1..N)
  BY FS_Interval
<1>1. \A n \in 0..N : Sum(f, 1..n) \in Nat
  <2> TAKE n \in 0..N
  <2>1. IsFiniteSet(1..n) /\ \A x \in 1..n : f[x] \in Int /\ f[x] >= 0
    BY <1>0
  <2> QED
    BY <2>1, SumType
<1>2. CASE B = {}
  <2>1. N \in 0..N
    OBVIOUS
  <2>2. Good(N)
    BY <1>0, <1>2, <2>1
  <2> QED
    BY <2>2
<1>3. CASE B # {}
  <2>1. PICK s \in B : IsFiniteSet(s) /\ \A u \in B : u \subseteq s => u = s
    <3> DEFINE S == 1..N
    <3>1. B \subseteq SUBSET S /\ IsFiniteSet(S)
      BY <1>0
    <3> HIDE DEF B, S
    <3> QED
      BY <1>3, <3>1, SmallestSet
  <2>2. PICK n \in 0..N : s = 1..n /\ ~Good(n)
    OBVIOUS
  <2>3. CASE n = 0
    <3>1. 1..n = {} /\ IsFiniteSet(1..n)
      BY <1>0, <2>3
    <3>2. Sum(w, 1..n) = 0 /\ Sum(f, 1..n) = 0
      BY <3>1, SumStep
    <3>3. Good(n)
      BY <3>2
    <3> QED
      BY <2>2, <3>3
  <2>4. CASE n # 0
    <3> DEFINE m == n - 1
    <3>1. m \in 0..N /\ 1..m \subseteq 1..n /\ 1..m # 1..n /\ (1..n) \ {n} = 1..m /\ n \in 1..n /\ n \in 1..N
      BY <2>4
    <3>2. Good(m)
      BY <1>0, <2>1, <2>2, <3>1
    <3>3. IsFiniteSet(1..n) /\ \A x \in 1..n : f[x] \in Int
      BY <1>0
    <3>4. Sum(f, 1..n) = f[n] + Sum(f, 1..m)
      <4> DEFINE S == 1..n
      <4>1. IsFiniteSet(S) /\ (\A x \in S : f[x] \in Int) /\ n \in S /\ S \ {n} = 1..m
        BY <3>1, <3>3
      <4> HIDE DEF S, m
      <4>2. Sum(f, S) = f[n] + Sum(f, S \ {n})
        BY <4>1, SumWithout
      <4> QED
        BY <4>1, <4>2 DEF S
    <3>5. \A x \in 1..N : w[x] \in Int
      <4> TAKE x \in 1..N
      <4>1. x - 1 \in 0..N
        OBVIOUS
      <4> DEFINE A == Sum(f, 1..(x - 1))
      <4>2. A \in Nat /\ f[x] \in Nat
        BY <1>1, <4>1
      <4>3. w[x] = IF t - A <= 0 THEN f[x] ELSE IF t - A < f[x] THEN f[x] - (t - A) ELSE 0
        BY DEF Rest
      <4> HIDE DEF A
      <4> QED
        BY <4>2, <4>3
    <3>6. Sum(w, 1..n) = w[n] + Sum(w, 1..m)
      <4> DEFINE S == 1..n
      <4>1. IsFiniteSet(S) /\ (\A x \in S : w[x] \in Int) /\ n \in S /\ S \ {n} = 1..m
        BY <3>1, <3>3, <3>5
      <4> HIDE DEF S, m
      <4>2. Sum(w, S) = w[n] + Sum(w, S \ {n})
        BY ONLY <4>1, SumWithout
      <4> QED
        BY <4>1, <4>2 DEF S
    <3>7. w[n] = Rest(f, t, n) /\ f[n] \in Nat
      BY <3>1
    <3>8. Sum(f, 1..m) \in Nat
      BY <1>1, <3>1
    <3> DEFINE A == Sum(f, 1..m)
    <3>9. w[n] = IF t - A <= 0 THEN f[n] ELSE IF t - A < f[n] THEN f[n] - (t - A) ELSE 0
      BY <3>7 DEF Rest
    <3>10. Sum(w, 1..m) = IF t < A THEN A - t ELSE 0
      BY <3>2
    <3>11. A \in Nat
      BY <3>8
    <3>12. Sum(f, 1..n) = f[n] + A
      BY <3>4
    <3> HIDE DEF A, m
    <3>13. Good(n)
      BY <3>6, <3>7, <3>9, <3>10, <3>11, <3>12
    <3> QED
      BY <2>2, <3>13
  <2> QED
    BY <2>3, <2>4
<1> QED
  BY <1>2, <1>3

-----------------------------------------------------------------------------
(* Types.                                                                  *)

Process ==
  [at : Places, payment : 0..MaxPayments, auto : BOOLEAN, cost : Nat, stale : SUBSET Payments,
   forfeit : Int, current : Nat, enabled : BOOLEAN, failures : Nat]

Row == [state : {"none", "live", "lapsed"}, remaining : Int]

Reload == [enabled : BOOLEAN, claimed : BOOLEAN, failures : Nat,
           retry : {"none", "waiting", "due"}]

Typed ==
  /\ balance \in Nat /\ reload \in Reload /\ topUp \in [Payments -> Row]
  /\ paid \in [Payments -> {"none", "checkout", "auto"}] /\ seen \subseteq Payments
  /\ proc \in [Procs -> Process]
  /\ runs \in Nat /\ changes \in Nat /\ mixed \in BOOLEAN /\ faults \in Nat

LEMMA TypesAre == Typed <=> TypeOK
<1>1. Process = [at : {"idle", "balance", "commit", "insert", "add", "claim", "charge",
                       "release", "failed"},
                 payment : 0..MaxPayments, auto : BOOLEAN, cost : Nat,
                 stale : SUBSET Payments, forfeit : Int, current : Nat,
                 enabled : BOOLEAN, failures : Nat]
  BY DEF Process, Places
<1> QED
  BY <1>1, Zenon DEF Typed, TypeOK, Row, Reload

LEMMA PaymentsFinite == IsFiniteSet(Payments) /\ \A S \in SUBSET Payments : IsFiniteSet(S)
<1>1. 1 \in Int /\ MaxPayments \in Int
  BY PaymentsAssumption
<1>2. IsFiniteSet(Payments)
  BY <1>1, FS_Interval DEF Payments
<1> QED
  BY <1>2, FS_Subset

LEMMA PaymentPlace == ASSUME NEW p \in Payments PROVE p \in 0..MaxPayments
BY PaymentsAssumption DEF Payments

LEMMA FreeType == Free \in Process /\ 0 \in 0..MaxPayments
BY PaymentsAssumption DEF Free, Process, Places

LEMMA NewPaymentIn == ASSUME CanPay PROVE NewPayment \in Payments /\ paid[NewPayment] = "none"
BY DEF CanPay, NewPayment

LEMMA AmountsType == Amount \in Nat /\ Threshold \in Nat /\ Charge \in Nat
BY AmountsAssumption

LEMMA LeftIs == ASSUME NEW S PROVE Left(S) = Sum([p \in Payments |-> topUp[p].remaining], S)
BY DEF Left, Sum

LEMMA LeftType ==
  ASSUME topUp \in [Payments -> Row], NEW S, S \subseteq Payments
  PROVE  Left(S) \in Int
<1> DEFINE f == [p \in Payments |-> topUp[p].remaining]
<1>1. IsFiniteSet(S) /\ \A p \in S : f[p] \in Int
  BY PaymentsFinite DEF Row
<1>2. Left(S) = Sum(f, S)
  BY LeftIs
<1> HIDE DEF f
<1> QED
  BY <1>1, <1>2, SumType

LEMMA AfterTopUpType == ASSUME NEW c PROVE AfterTopUp(c) \in Process
BY FreeType DEF AfterTopUp, Process, Free, Places

\* What a row has left after a debit is an integer.
LEMMA WrittenDownType ==
  ASSUME topUp \in [Payments -> Row], NEW p \in Payments, NEW F, NEW t \in Int
  PROVE  WrittenDown(p, F, t) \in Int
<1>1. (1..(p - 1)) \ F \subseteq Payments
  BY PaymentsAssumption DEF Payments
<1>2. Left((1..(p - 1)) \ F) \in Int
  BY <1>1, LeftType
<1>3. topUp[p].remaining \in Int
  BY DEF Row
<1> QED
  BY <1>2, <1>3 DEF WrittenDown

LEMMA StaleType == topUp \in [Payments -> Row] => Stale \in SUBSET Payments /\ Left(Stale) \in Int
BY LeftType DEF Stale

\* The types after a step of one process.
LEMMA TurnTypes ==
  ASSUME Typed, NEW c \in Procs, NEW q \in Process, Continue(c, q),
         balance' \in Nat, reload' \in Reload, topUp' \in [Payments -> Row],
         paid' \in [Payments -> {"none", "checkout", "auto"}], seen' \subseteq Payments,
         runs' \in Nat, changes' = changes, mixed' \in BOOLEAN, faults' \in Nat
  PROVE  Typed'
<1>1. proc' \in [Procs -> Process]
  BY DEF Typed, Continue
<1> QED
  BY <1>1 DEF Typed

LEMMA StepTypes == ASSUME Typed, NEW c \in Procs, Step(c) PROVE Typed'
<1> USE DEF Typed
<1>0. proc[c] \in Process /\ proc[c].current \in Nat /\ proc[c].cost \in Nat
      /\ proc[c].forfeit \in Int /\ proc[c].payment \in 0..MaxPayments
      /\ proc[c].failures \in Nat
  BY DEF Process
<1>1. CASE Insert(c)
  <2>1. topUp' \in [Payments -> Row]
    <3>1. [state |-> "live", remaining |-> Amount] \in Row
      BY AmountsType DEF Row
    <3>2. topUp' = topUp \/
          topUp' = [topUp EXCEPT ![proc[c].payment] = [state |-> "live", remaining |-> Amount]]
      BY <1>1 DEF Insert
    <3> QED
      BY <3>1, <3>2
  <2>2. [proc[c] EXCEPT !.at = "add"] \in Process
    BY <1>0 DEF Process, Places
  <2>3. PICK q \in Process : Continue(c, q)
    BY <1>1, <2>2, AfterTopUpType DEF Insert
  <2> QED
    BY <1>1, <2>1, <2>3, TurnTypes DEF Insert
<1>2. CASE Add(c)
  BY <1>2, AfterTopUpType, AmountsType, TurnTypes DEF Add
<1>3. CASE ReadBalance(c)
  <2> DEFINE q == [proc[c] EXCEPT !.at = "commit", !.current = AfterForfeit(c),
                     !.forfeit = 0, !.enabled = reload.enabled]
  <2>1. AfterForfeit(c) \in Nat
    BY <1>0 DEF AfterForfeit
  <2>2. q \in Process
    <3>1. reload.enabled \in BOOLEAN /\ "commit" \in Places /\ 0 \in Int
      BY DEF Reload, Places
    <3> QED
      BY <1>0, <2>1, <3>1 DEF Process
  <2>3. Continue(c, q)
    BY <1>3 DEF ReadBalance
  <2> HIDE DEF q
  <2> QED
    BY <1>3, <2>2, <2>3, TurnTypes DEF ReadBalance
<1>4. CASE Commit(c)
  <2>1. Debited(proc[c]) \in Nat
    BY <1>0 DEF Debited
  <2>2. proc[c].current - Debited(proc[c]) \in Int
    BY <1>0, <2>1
  <2>3. topUp' \in [Payments -> Row]
    <3> DEFINE w(p) == WrittenDown(p, proc[c].stale, proc[c].current - Debited(proc[c]))
    <3>1. \A p \in Payments : w(p) \in Int
      BY <2>2, WrittenDownType
    <3>2. topUp' = [p \in Payments |-> [topUp[p] EXCEPT !.remaining = w(p)]]
      BY <1>4 DEF Commit
    <3> HIDE DEF w
    <3> QED
      BY <3>1, <3>2 DEF Row
  <2>4. [Free EXCEPT !.at = "claim"] \in Process
    BY FreeType DEF Process, Places, Free
  <2>5. PICK q \in Process : Continue(c, q)
    BY <1>4, <2>4, FreeType DEF Commit
  <2> QED
    BY <1>4, <2>1, <2>3, <2>5, TurnTypes DEF Commit
<1>5. CASE Claim(c)
  <2>1. [Free EXCEPT !.at = "charge", !.auto = TRUE, !.failures = reload.failures] \in Process
    BY FreeType DEF Process, Places, Free, Reload
  <2>2. PICK q \in Process : Continue(c, q)
    BY <1>5, <2>1, FreeType DEF Claim
  <2>3. reload' \in Reload
    BY <1>5 DEF Claim, Reload
  <2> QED
    BY <1>5, <2>2, <2>3, TurnTypes DEF Claim
<1>6. CASE ChargeCard(c)
  <2> DEFINE q == [proc[c] EXCEPT !.at = "insert", !.payment = NewPayment]
  <2>1. NewPayment \in Payments /\ NewPayment \in 0..MaxPayments
    BY <1>6, NewPaymentIn, PaymentPlace DEF ChargeCard
  <2>2. q \in Process
    BY <1>0, <2>1 DEF Process, Places
  <2>3. Continue(c, q) /\ mixed' \in BOOLEAN
    BY <1>6 DEF ChargeCard
  <2>4. paid' \in [Payments -> {"none", "checkout", "auto"}]
    BY <1>6, <2>1 DEF ChargeCard
  <2> HIDE DEF q
  <2> QED
    BY <1>6, <2>2, <2>3, <2>4, TurnTypes DEF ChargeCard
<1>7. CASE Declined(c)
  <2>1. [proc[c] EXCEPT !.at = "failed"] \in Process
    BY <1>0 DEF Process, Places
  <2> QED
    BY <1>7, <2>1, TurnTypes DEF Declined
<1>8. CASE Release(c)
  <2>1. reload' \in Reload
    BY <1>8 DEF Release, Reload
  <2> QED
    BY <1>8, <2>1, FreeType, TurnTypes DEF Release
<1>9. CASE Fail(c)
  <2>1. reload' \in Reload
    <3> DEFINE n == proc[c].failures + 1
               r == [enabled |-> FALSE, claimed |-> FALSE, failures |-> n, retry |-> "none"]
               s == [reload EXCEPT !.claimed = FALSE, !.failures = n, !.retry = "waiting"]
    <3>1. n \in Nat
      BY <1>0
    <3>2. reload' = r \/ reload' = s
      BY <1>9 DEF Fail, FailedReload
    <3> HIDE DEF n
    <3>3. r \in Reload /\ s \in Reload
      BY <3>1 DEF Reload
    <3> QED
      BY <3>2, <3>3
  <2> QED
    BY <1>9, <2>1, FreeType, TurnTypes DEF Fail
<1> QED
  BY <1>1, <1>2, <1>3, <1>4, <1>5, <1>6, <1>7, <1>8, <1>9 DEF Step

LEMMA NextTypes == Typed /\ [Next]_vars => Typed'
<1> SUFFICES ASSUME Typed, [Next]_vars PROVE Typed'
  OBVIOUS
<1> USE DEF Typed
<1>1. CASE Checkout
  <2>1. paid' \in [Payments -> {"none", "checkout", "auto"}]
    BY <1>1, NewPaymentIn DEF Checkout
  <2> QED
    BY <1>1, <2>1 DEF Checkout
<1>2. ASSUME NEW c \in Procs, NEW p \in Payments, Deliver(c, p) PROVE Typed'
  <2>1. [Free EXCEPT !.at = "insert", !.payment = p] \in Process
    BY FreeType, PaymentPlace DEF Process, Places, Free
  <2>2. mixed' \in BOOLEAN /\ seen' \subseteq Payments
    BY <1>2 DEF Deliver
  <2> QED
    BY <1>2, <2>1, <2>2, TurnTypes DEF Deliver
<1>3. ASSUME NEW p \in Payments, Lapse(p) PROVE Typed'
  <2>1. topUp' \in [Payments -> Row]
    BY <1>3 DEF Lapse, Row
  <2> QED
    BY <1>3, <2>1 DEF Lapse
<1>4. ASSUME NEW c \in Procs, NEW cost \in Nat, Begin(c, cost), runs' \in Nat PROVE Typed'
  <2> DEFINE q == [Free EXCEPT !.at = "balance", !.cost = cost, !.stale = Stale,
                           !.forfeit = Left(Stale)]
  <2>1. q \in Process
    BY StaleType, FreeType DEF Process, Places, Free
  <2>2. Continue(c, q) /\ mixed' \in BOOLEAN
    BY <1>4 DEF Begin
  <2> HIDE DEF q
  <2> QED
    BY <1>4, <2>1, <2>2, TurnTypes DEF Begin
<1>5. ASSUME NEW c \in Procs, RecordUsage(c) \/ GetBalance(c) PROVE Typed'
  BY <1>4, <1>5, AmountsType DEF RecordUsage, GetBalance
<1>6. ASSUME NEW c \in Procs, Sweep(c) PROVE Typed'
  <2>1. [Free EXCEPT !.at = "claim"] \in Process
    BY FreeType DEF Process, Places, Free
  <2> QED
    BY <1>6, <2>1, TurnTypes DEF Sweep
<1>7. ASSUME NEW c \in Procs, TopUpThrows(c) PROVE Typed'
  <2>1. [proc[c] EXCEPT !.at = "failed", !.payment = 0] \in Process
    BY FreeType DEF Process, Places
  <2> QED
    BY <1>7, <2>1, TurnTypes DEF TopUpThrows
<1>8. ASSUME NEW c \in Procs, Crash(c) PROVE Typed'
  BY <1>8, FreeType, TurnTypes DEF Crash
<1>9. CASE BackoffPasses
  <2>1. reload' \in Reload
    BY <1>9 DEF BackoffPasses, Reload
  <2> QED
    BY <1>9, <2>1 DEF BackoffPasses
<1>10. ASSUME NEW enabled \in BOOLEAN, SetAutoReload(enabled) PROVE Typed'
  <2>1. reload' \in Reload
    BY <1>10 DEF SetAutoReload, Reload
  <2> QED
    BY <1>10, <2>1 DEF SetAutoReload
<1>11. CASE UNCHANGED vars
  BY <1>11 DEF vars
<1> QED
  BY <1>1, <1>2, <1>3, <1>5, <1>6, <1>7, <1>8, <1>9, <1>10, <1>11, StepTypes DEF Next

LEMMA InitTypes == Init => Typed
<1> SUFFICES ASSUME Init PROVE Typed
  OBVIOUS
<1>1. proc \in [Procs -> Process]
  BY FreeType DEF Init
<1> QED
  <2>1. [enabled |-> TRUE, claimed |-> FALSE, failures |-> 0, retry |-> "none"] \in Reload
    BY DEF Reload
  <2>2. [state |-> "none", remaining |-> 0] \in Row
    BY DEF Row
  <2> QED
    BY <1>1, <2>1, <2>2 DEF Init, Typed

\* Every variable keeps the shape of its column or of its local variables.
THEOREM CreditsTypes == Spec => []TypeOK
BY InitTypes, NextTypes, TypesAre, PTL DEF Spec

-----------------------------------------------------------------------------
(* No payment is credited twice.                                           *)

\* The payments in the ledger, those that wait to be added to the balance, and the
\* others: what they were worth is what the balance can be.
Entered == {p \in Payments : topUp[p].state # "none"}
Adding == {p \in Payments : \E c \in Procs : proc[c].at = "add" /\ proc[c].payment = p}
Credited == Entered \ Adding
Worth == Amount * Cardinality(Credited)

\* Nothing has less than nothing left, and what is not in the ledger nothing at all.
LeftNotNegative ==
  /\ \A p \in Payments :
       topUp[p].remaining >= 0 /\ (topUp[p].state = "none" => topUp[p].remaining = 0)
  /\ \A c \in Procs : proc[c].forfeit >= 0

\* A top-up under way is of a payment that was made, and one that is added is entered.
Carried(q) ==
  /\ q.at \in {"insert", "add"} => q.payment \in Payments /\ paid[q.payment] # "none"
  /\ q.at = "add" => topUp[q.payment].state # "none"

InHand == \A c \in Procs : Carried(proc[c])

\* A payment is added by one process.
OneAdd ==
  \A c, d \in Procs :
    proc[c].at = "add" /\ proc[d].at = "add" /\ proc[c].payment = proc[d].payment => c = d

EnteredPaid == \A p \in Payments : topUp[p].state # "none" => paid[p] # "none"

\* The balance, and one that a transaction has read, is no more than what was credited.
WithinCredited ==
  /\ balance <= Worth
  /\ \A c \in Procs : proc[c].at = "commit" => proc[c].current <= Worth

PaidInv == Typed /\ LeftNotNegative /\ InHand /\ OneAdd /\ EnteredPaid /\ WithinCredited

LEMMA CreditedFinite ==
  Credited \in SUBSET Payments /\ IsFiniteSet(Credited) /\ Cardinality(Credited) \in Nat
<1>1. Credited \in SUBSET Payments
  BY DEF Credited, Entered
<1> QED
  BY <1>1, PaymentsFinite, FS_CardinalityType

LEMMA WorthType == Worth \in Nat
BY CreditedFinite, AmountsType DEF Worth

LEMMA Multiples ==
  ASSUME NEW a \in Nat, NEW m \in Nat, NEW n \in Nat, m <= n
  PROVE  a * m <= a * n /\ a * (m + 1) = a * m + a
OBVIOUS

\* What was credited is worth as much when more is.
LEMMA WorthGrows ==
  ASSUME NEW S, NEW T, S \subseteq T, T \subseteq Payments
  PROVE  /\ Amount * Cardinality(S) \in Nat /\ Amount * Cardinality(T) \in Nat
         /\ Amount * Cardinality(S) <= Amount * Cardinality(T)
<1>1. IsFiniteSet(S) /\ IsFiniteSet(T) /\ Cardinality(S) <= Cardinality(T)
  BY PaymentsFinite, FS_Subset
<1>2. Cardinality(S) \in Nat /\ Cardinality(T) \in Nat
  BY <1>1, FS_CardinalityType
<1> QED
  BY <1>1, <1>2, Multiples, AmountsType

\* The values of a process in a typed state.
LEMMA ProcessType ==
  ASSUME Typed, NEW c \in Procs
  PROVE  /\ proc[c] \in Process /\ proc[c].current \in Nat /\ proc[c].cost \in Nat
         /\ proc[c].forfeit \in Int /\ proc[c].stale \in SUBSET Payments
BY DEF Typed, Process

LEMMA RowType ==
  ASSUME Typed, NEW p \in Payments
  PROVE  /\ topUp[p] \in Row /\ topUp[p].remaining \in Int
         /\ topUp[p].state \in {"none", "live", "lapsed"}
BY DEF Typed, Row

\* A step of one process that credits what it takes out of its hands: the others hold
\* what they held.
LEMMA PaidTurn ==
  ASSUME PaidInv, Typed', LeftNotNegative', EnteredPaid',
         NEW c \in Procs, NEW q \in Process, Continue(c, q),
         q.at \in {"insert", "add"} => q.payment \in Payments /\ paid'[q.payment] # "none",
         q.at = "add" => topUp'[q.payment].state # "none",
         \A p \in Payments : topUp[p].state # "none" => topUp'[p].state # "none",
         \A p \in Payments : paid[p] # "none" => paid'[p] # "none",
         q.at = "add" => topUp[q.payment].state = "none",
         Credited \subseteq Credited',
         balance' <= Worth',
         q.at = "commit" => q.current <= Worth
  PROVE  PaidInv'
<1>1. /\ proc'[c] = q
      /\ \A d \in Procs : d # c => proc'[d] = proc[d]
  BY DEF PaidInv, Typed, Continue
<1>2. InHand'
  <2> SUFFICES ASSUME NEW d \in Procs PROVE Carried(proc[d])'
    BY DEF InHand
  <2>1. CASE d = c
    BY <1>1, <2>1 DEF Carried
  <2>2. CASE d # c
    BY <1>1, <2>2 DEF PaidInv, InHand, Carried
  <2> QED
    BY <2>1, <2>2
<1>3. OneAdd'
  <2> SUFFICES ASSUME NEW d \in Procs, NEW e \in Procs, proc'[d].at = "add", proc'[e].at = "add",
                      proc'[d].payment = proc'[e].payment
               PROVE  d = e
    BY DEF OneAdd
  <2>1. CASE d # c /\ e # c
    BY <1>1, <2>1 DEF PaidInv, OneAdd
  <2>2. ASSUME NEW f \in Procs, f # c, proc'[f].at = "add", q.at = "add",
               proc'[f].payment = q.payment
        PROVE  FALSE
    <3>1. proc[f].at = "add" /\ proc[f].payment = q.payment
      BY <1>1, <2>2
    <3>2. topUp[q.payment].state # "none"
      BY <3>1 DEF PaidInv, InHand, Carried
    <3> QED
      BY <2>2, <3>2
  <2> QED
    BY <1>1, <2>1, <2>2
<1>4. Worth <= Worth' /\ Worth \in Nat /\ Worth' \in Nat
  <2>1. Credited' \subseteq Payments
    BY DEF Credited, Entered
  <2> QED
    BY <2>1, WorthGrows DEF Worth
<1>5. \A d \in Procs : proc'[d].at = "commit" => proc'[d].current <= Worth'
  <2> SUFFICES ASSUME NEW d \in Procs, proc'[d].at = "commit" PROVE proc'[d].current <= Worth'
    OBVIOUS
  <2>1. proc'[d].current <= Worth
    BY <1>1 DEF PaidInv, WithinCredited
  <2>2. proc'[d].current \in Int
    <3>1. proc'[d] \in Process
      BY DEF Typed
    <3> QED
      BY <3>1 DEF Process
  <2> QED
    BY <1>4, <2>1, <2>2
<1> QED
  BY <1>2, <1>3, <1>5 DEF PaidInv, WithinCredited

\* When the ledger has the payments it had and the process is not at an addition now,
\* what was credited still is.
LEMMA CreditedKept ==
  ASSUME Typed, NEW c \in Procs, NEW q, Continue(c, q), q.at # "add",
         \A p \in Payments : topUp[p].state # "none" => topUp'[p].state # "none"
  PROVE  Credited \subseteq Credited'
<1>1. /\ proc'[c] = q
      /\ \A d \in Procs : d # c => proc'[d] = proc[d]
  BY DEF Typed, Continue
<1> SUFFICES ASSUME NEW p \in Payments, p \in Credited PROVE p \in Credited'
  BY DEF Credited, Entered
<1>2. topUp'[p].state # "none"
  BY DEF Credited, Entered
<1>3. ASSUME NEW d \in Procs, proc'[d].at = "add", proc'[d].payment = p PROVE FALSE
  <2>1. d # c /\ proc[d].at = "add" /\ proc[d].payment = p
    BY <1>1, <1>3
  <2> QED
    BY <2>1 DEF Credited, Adding
<1> QED
  BY <1>2, <1>3 DEF Credited, Entered, Adding

\* A step of one process that leaves ledger and balance as they are.
LEMMA PaidQuiet ==
  ASSUME PaidInv, Typed', NEW c \in Procs, NEW q \in Process, Continue(c, q),
         topUp' = topUp, balance' = balance,
         \A p \in Payments : paid[p] # "none" => paid'[p] # "none",
         q.at = "insert" => q.payment \in Payments /\ paid'[q.payment] # "none",
         q.at \notin {"add", "commit"}, q.forfeit >= 0
  PROVE  PaidInv'
<1>1. Credited \subseteq Credited'
  BY CreditedKept DEF PaidInv
<1>2. LeftNotNegative' /\ EnteredPaid'
  BY DEF PaidInv, Typed, Continue, LeftNotNegative, EnteredPaid
<1>3. balance' <= Worth'
  <2>1. Credited' \subseteq Payments /\ balance \in Nat /\ balance <= Worth
    BY DEF Credited, Entered, PaidInv, WithinCredited, Typed
  <2>2. Worth <= Worth' /\ Worth \in Nat /\ Worth' \in Nat
    BY <1>1, <2>1, WorthGrows DEF Worth
  <2> QED
    BY <2>1, <2>2
<1> QED
  BY <1>1, <1>2, <1>3, PaidTurn

\* A step that changes no process and no balance.
LEMMA PaidNoTurn ==
  ASSUME PaidInv, Typed', proc' = proc, balance' = balance,
         \A p \in Payments : /\ topUp'[p].remaining = topUp[p].remaining
                             /\ topUp'[p].state = "none" <=> topUp[p].state = "none",
         \A p \in Payments : paid[p] # "none" => paid'[p] # "none"
  PROVE  PaidInv'
<1>1. Credited' = Credited
  BY DEF Credited, Entered, Adding
<1>2. Worth' = Worth
  BY <1>1 DEF Worth
<1>3. LeftNotNegative' /\ InHand' /\ OneAdd' /\ EnteredPaid'
  BY DEF PaidInv, LeftNotNegative, InHand, OneAdd, EnteredPaid, Carried
<1> QED
  BY <1>2, <1>3 DEF PaidInv, WithinCredited

\* What goes on after a top-up carries no payment.
LEMMA AfterTopUpHas ==
  ASSUME NEW c
  PROVE  AfterTopUp(c) \in Process /\ AfterTopUp(c).at \in {"idle", "release"}
         /\ AfterTopUp(c).forfeit = 0
BY AfterTopUpType DEF AfterTopUp, Free

\* A row loses no more than it has.
LEMMA WrittenDownLeft ==
  ASSUME topUp \in [Payments -> Row], NEW p \in Payments, NEW F, NEW t \in Int,
         topUp[p].remaining >= 0
  PROVE  /\ WrittenDown(p, F, t) >= 0
         /\ topUp[p].remaining = 0 => WrittenDown(p, F, t) = 0
<1>1. (1..(p - 1)) \ F \subseteq Payments
  BY PaymentsAssumption DEF Payments
<1>2. Left((1..(p - 1)) \ F) \in Int
  BY <1>1, LeftType
<1>3. topUp[p].remaining \in Int
  BY DEF Row
<1> QED
  BY <1>2, <1>3 DEF WrittenDown

\* The ledger row: the payment waits to be added from now on.
LEMMA InsertPaid == ASSUME PaidInv, Typed', NEW c \in Procs, Insert(c) PROVE PaidInv'
<1> DEFINE p == proc[c].payment
<1>0. Typed /\ proc[c].at = "insert" /\ balance' = balance /\ paid' = paid
  BY DEF PaidInv, Insert
<1>1. p \in Payments /\ paid[p] # "none"
  BY <1>0 DEF PaidInv, InHand, Carried
<1>2. CASE ~FirstTime(p)
  <2>1. Continue(c, AfterTopUp(c)) /\ topUp' = topUp
    BY <1>2 DEF Insert
  <2>2. PICK q \in Process : q = AfterTopUp(c)
    BY AfterTopUpHas
  <2> QED
    BY <1>0, <2>1, <2>2, AfterTopUpHas, PaidQuiet
<1>3. CASE FirstTime(p)
  <2> DEFINE r == [proc[c] EXCEPT !.at = "add"]
  <2>1. r \in Process /\ r.at = "add" /\ r.payment = p
    <3>1. "add" \in Places
      BY DEF Places
    <3> QED
      BY <1>0, <3>1, ProcessType DEF Process
  <2>2. PICK q \in Process : q = r
    BY <2>1
  <2>3. Continue(c, q) /\ topUp' = [topUp EXCEPT ![p] = [state |-> "live", remaining |-> Amount]]
    BY <1>3, <2>2 DEF Insert
  <2> HIDE DEF r
  <2>4. topUp[p].state = "none"
    BY <1>3 DEF FirstTime
  <2>5. /\ topUp'[p] = [state |-> "live", remaining |-> Amount]
        /\ \A o \in Payments : o # p => topUp'[o] = topUp[o]
    BY <1>0, <1>1, <2>3 DEF Typed
  <2>6. /\ proc'[c] = q
        /\ \A d \in Procs : d # c => proc'[d] = proc[d]
    BY <1>0, <2>3 DEF Typed, Continue
  <2>7. LeftNotNegative'
    <3>1. \A o \in Payments : topUp'[o].remaining >= 0
            /\ (topUp'[o].state = "none" => topUp'[o].remaining = 0)
      BY <2>5, AmountsType DEF PaidInv, LeftNotNegative
    <3>2. q.forfeit = proc[c].forfeit
      BY <2>2, <1>0, ProcessType DEF r, Process
    <3>3. \A d \in Procs : proc'[d].forfeit >= 0
      BY <2>6, <3>2 DEF PaidInv, LeftNotNegative
    <3> QED
      BY <3>1, <3>3 DEF LeftNotNegative
  <2>8. EnteredPaid'
    BY <1>0, <1>1, <2>5 DEF PaidInv, EnteredPaid
  <2>9. Credited \subseteq Credited'
    <3> SUFFICES ASSUME NEW o \in Payments, o \in Credited PROVE o \in Credited'
      BY DEF Credited, Entered
    <3>1. o # p /\ topUp'[o].state # "none"
      BY <2>4, <2>5 DEF Credited, Entered
    <3>2. ASSUME NEW d \in Procs, proc'[d].at = "add", proc'[d].payment = o PROVE FALSE
      <4>1. d # c /\ proc[d].at = "add" /\ proc[d].payment = o
        BY <2>1, <2>2, <2>6, <3>1, <3>2
      <4> QED
        BY <4>1 DEF Credited, Adding
    <3> QED
      BY <3>1, <3>2 DEF Credited, Entered, Adding
  <2>10. balance' <= Worth'
    <3>1. Credited' \subseteq Payments /\ balance \in Nat /\ balance <= Worth
      BY DEF Credited, Entered, PaidInv, WithinCredited, Typed
    <3>2. Worth <= Worth' /\ Worth \in Nat /\ Worth' \in Nat
      BY <2>9, <3>1, WorthGrows DEF Worth
    <3> QED
      BY <1>0, <3>1, <3>2
  <2>11. \A o \in Payments : topUp[o].state # "none" => topUp'[o].state # "none"
    BY <2>4, <2>5
  <2> HIDE DEF p
  <2> QED
    BY <1>0, <1>1, <2>1, <2>2, <2>3, <2>4, <2>5, <2>7, <2>8, <2>9, <2>10, <2>11, PaidTurn
<1> QED
  BY <1>2, <1>3

\* The balance: the payment leaves the hands of the process and counts.
LEMMA AddPaid == ASSUME PaidInv, Typed', NEW c \in Procs, Add(c) PROVE PaidInv'
<1> DEFINE p == proc[c].payment
<1>0. /\ Typed /\ proc[c].at = "add" /\ balance' = balance + Amount /\ paid' = paid
      /\ topUp' = topUp /\ Continue(c, AfterTopUp(c))
  BY DEF PaidInv, Add
<1>1. PICK q \in Process : q = AfterTopUp(c)
  BY AfterTopUpHas
<1>2. q.at \in {"idle", "release"} /\ q.forfeit = 0
  BY <1>1, AfterTopUpHas
<1>3. /\ proc'[c] = q
      /\ \A d \in Procs : d # c => proc'[d] = proc[d]
  BY <1>0, <1>1 DEF Typed, Continue
<1>4. p \in Payments /\ topUp[p].state # "none" /\ p \notin Credited
  BY <1>0 DEF PaidInv, InHand, Carried, Credited, Adding
<1>5. Credited \subseteq Credited'
  BY <1>0, <1>1, <1>2, CreditedKept
<1>6. p \in Credited'
  <2>1. ASSUME NEW d \in Procs, proc'[d].at = "add", proc'[d].payment = p PROVE FALSE
    <3>1. d # c /\ proc[d].at = "add" /\ proc[d].payment = p
      BY <1>2, <1>3, <2>1
    <3> QED
      BY <1>0, <3>1 DEF PaidInv, OneAdd
  <2> QED
    BY <1>0, <1>4, <2>1 DEF Credited, Entered, Adding
<1> HIDE DEF p
<1>7. balance' <= Worth'
  <2> DEFINE T == Credited \cup {p}
             n == Cardinality(Credited)
  <2>1. T \subseteq Credited' /\ Credited' \subseteq Payments /\ Cardinality(T) = n + 1 /\ n \in Nat
    <3>1. Credited' \subseteq Payments
      BY DEF Credited, Entered
    <3>2. Cardinality(T) = n + 1 /\ n \in Nat
      BY <1>4, CreditedFinite, FS_AddElement
    <3> QED
      BY <1>5, <1>6, <3>1, <3>2
  <2> HIDE DEF T
  <2>2. Amount * Cardinality(T) <= Amount * Cardinality(Credited')
        /\ Amount * Cardinality(Credited') \in Nat
    BY <2>1, WorthGrows
  <2> HIDE DEF n
  <2>3. Amount * (n + 1) = Amount * n + Amount /\ Amount * n \in Nat
    BY <2>1, AmountsType, Multiples
  <2>4. balance \in Nat /\ balance <= Amount * n
    BY DEF PaidInv, Typed, WithinCredited, Worth, n
  <2>5. balance + Amount <= Amount * Cardinality(Credited')
    BY <2>1, <2>2, <2>3, <2>4, AmountsType
  <2> QED
    BY <1>0, <2>5 DEF Worth
<1>8. LeftNotNegative' /\ EnteredPaid'
  BY <1>0, <1>2, <1>3 DEF PaidInv, LeftNotNegative, EnteredPaid
<1> QED
  BY <1>0, <1>1, <1>2, <1>5, <1>7, <1>8, PaidTurn

\* The balance is read.
LEMMA ReadPaid == ASSUME PaidInv, Typed', NEW c \in Procs, ReadBalance(c) PROVE PaidInv'
<1> DEFINE r == [proc[c] EXCEPT !.at = "commit", !.current = AfterForfeit(c),
                   !.forfeit = 0, !.enabled = reload.enabled]
<1>0. Typed /\ topUp' = topUp /\ balance' = balance /\ paid' = paid /\ Continue(c, r)
  BY DEF PaidInv, ReadBalance
<1>1. AfterForfeit(c) \in Nat /\ AfterForfeit(c) <= balance
  BY <1>0, ProcessType DEF AfterForfeit, PaidInv, LeftNotNegative, Typed
<1>2. r \in Process /\ r.at = "commit" /\ r.current = AfterForfeit(c) /\ r.forfeit = 0
  <2>1. reload.enabled \in BOOLEAN /\ "commit" \in Places /\ 0 \in Int
    BY <1>0 DEF Reload, Places, Typed
  <2> QED
    BY <1>0, <1>1, <2>1, ProcessType DEF Process
<1>3. PICK q \in Process : q = r
  BY <1>2
<1> HIDE DEF r
<1>4. Continue(c, q) /\ q.at = "commit" /\ q.current <= balance /\ q.current \in Nat /\ q.forfeit = 0
  BY <1>0, <1>1, <1>2, <1>3
<1>5. /\ proc'[c] = q
      /\ \A d \in Procs : d # c => proc'[d] = proc[d]
  BY <1>0, <1>4 DEF Typed, Continue
<1>6. Credited \subseteq Credited'
  BY <1>0, <1>4, CreditedKept
<1>7. balance' <= Worth' /\ q.current <= Worth
  <2>1. Credited' \subseteq Payments /\ balance \in Nat /\ balance <= Worth
    BY DEF Credited, Entered, PaidInv, WithinCredited, Typed
  <2>2. Worth <= Worth' /\ Worth \in Nat /\ Worth' \in Nat
    BY <1>6, <2>1, WorthGrows DEF Worth
  <2> QED
    BY <1>0, <1>4, <2>1, <2>2
<1>8. LeftNotNegative' /\ EnteredPaid'
  BY <1>0, <1>4, <1>5 DEF PaidInv, LeftNotNegative, EnteredPaid
<1> QED
  BY <1>0, <1>4, <1>6, <1>7, <1>8, PaidTurn

\* The balance and the ledger are written: less than what was read.
LEMMA CommitPaid == ASSUME PaidInv, Typed', NEW c \in Procs, Commit(c) PROVE PaidInv'
<1> DEFINE w(p) == WrittenDown(p, proc[c].stale, proc[c].current - Debited(proc[c]))
<1>0. Typed /\ proc[c].at = "commit" /\ paid' = paid /\ balance' = Debited(proc[c])
      /\ topUp' = [p \in Payments |-> [topUp[p] EXCEPT !.remaining = w(p)]]
  BY DEF PaidInv, Commit
<1>1. Debited(proc[c]) \in Nat /\ Debited(proc[c]) <= proc[c].current /\ proc[c].current \in Nat
  BY <1>0, ProcessType DEF Debited
<1>2. proc[c].current - Debited(proc[c]) \in Int
  BY <1>1
<1>3. \A p \in Payments : w(p) >= 0 /\ (topUp[p].remaining = 0 => w(p) = 0)
  BY <1>0, <1>2, WrittenDownLeft DEF PaidInv, LeftNotNegative, Typed
<1> HIDE DEF w
<1>4. \A p \in Payments : topUp'[p].remaining = w(p) /\ topUp'[p].state = topUp[p].state
  BY <1>0, RowType DEF Row
<1>5. PICK q \in Process : Continue(c, q) /\ q.at \in {"idle", "claim"} /\ q.forfeit = 0
  <2> DEFINE r == [Free EXCEPT !.at = "claim"]
  <2>1. r \in Process /\ r.at = "claim" /\ r.forfeit = 0
    BY FreeType DEF Process, Places, Free
  <2>2. Continue(c, r) \/ Continue(c, Free)
    BY DEF Commit
  <2>3. Free.at = "idle" /\ Free.forfeit = 0
    BY DEF Free
  <2> QED
    BY <2>1, <2>2, <2>3, FreeType
<1>6. /\ proc'[c] = q
      /\ \A d \in Procs : d # c => proc'[d] = proc[d]
  BY <1>0, <1>5 DEF Typed, Continue
<1>7. Credited \subseteq Credited'
  BY <1>0, <1>4, <1>5, CreditedKept
<1>8. balance' <= Worth'
  <2>1. Credited' \subseteq Payments /\ proc[c].current <= Worth
    BY <1>0 DEF Credited, Entered, PaidInv, WithinCredited
  <2>2. Worth <= Worth' /\ Worth \in Nat /\ Worth' \in Nat
    BY <1>7, <2>1, WorthGrows DEF Worth
  <2> QED
    BY <1>0, <1>1, <2>1, <2>2
<1>9. LeftNotNegative'
  <2>1. \A p \in Payments : topUp'[p].remaining >= 0
          /\ (topUp'[p].state = "none" => topUp'[p].remaining = 0)
    BY <1>3, <1>4 DEF PaidInv, LeftNotNegative
  <2>2. \A d \in Procs : proc'[d].forfeit >= 0
    BY <1>5, <1>6 DEF PaidInv, LeftNotNegative
  <2> QED
    BY <2>1, <2>2 DEF LeftNotNegative
<1>10. EnteredPaid'
  BY <1>0, <1>4 DEF PaidInv, EnteredPaid
<1> QED
  BY <1>0, <1>4, <1>5, <1>7, <1>8, <1>9, <1>10, PaidTurn

LEMMA StepPaid == ASSUME PaidInv, Typed', NEW c \in Procs, Step(c) PROVE PaidInv'
<1>0. Typed /\ proc[c] \in Process /\ proc[c].forfeit >= 0
  BY ProcessType DEF PaidInv, LeftNotNegative
<1>1. Free \in Process /\ Free.at = "idle" /\ Free.forfeit = 0
  BY FreeType DEF Free
<1>2. CASE Insert(c)
  BY <1>2, InsertPaid
<1>3. CASE Add(c)
  BY <1>3, AddPaid
<1>4. CASE ReadBalance(c)
  BY <1>4, ReadPaid
<1>5. CASE Commit(c)
  BY <1>5, CommitPaid
<1>6. CASE Claim(c)
  <2> DEFINE r == [Free EXCEPT !.at = "charge", !.auto = TRUE, !.failures = reload.failures]
  <2>1. r \in Process /\ r.at = "charge" /\ r.forfeit = 0
    BY <1>0, FreeType DEF Process, Places, Free, Reload, Typed
  <2>2. Continue(c, r) \/ Continue(c, Free)
    BY <1>6 DEF Claim
  <2>3. topUp' = topUp /\ balance' = balance /\ paid' = paid
    BY <1>6 DEF Claim
  <2> HIDE DEF r
  <2>4. PICK q \in Process : Continue(c, q) /\ q.at \in {"charge", "idle"} /\ q.forfeit = 0
    BY <1>1, <2>1, <2>2
  <2> QED
    BY <2>3, <2>4, PaidQuiet
<1>7. CASE ChargeCard(c)
  <2> DEFINE n == NewPayment
             r == [proc[c] EXCEPT !.at = "insert", !.payment = n]
  <2>1. n \in Payments /\ paid[n] = "none" /\ n \in 0..MaxPayments
    BY <1>7, NewPaymentIn, PaymentPlace DEF ChargeCard
  <2>2. topUp' = topUp /\ balance' = balance /\ paid' = [paid EXCEPT ![n] = "auto"]
        /\ Continue(c, r)
    BY <1>7 DEF ChargeCard
  <2> HIDE DEF n
  <2>3. "insert" \in Places
    BY DEF Places
  <2>4. r \in Process /\ r.at = "insert" /\ r.payment = n /\ r.forfeit = proc[c].forfeit
    BY <1>0, <2>1, <2>3 DEF Process
  <2> HIDE DEF r
  <2>5. PICK q \in Process : Continue(c, q) /\ q.at = "insert" /\ q.payment = n /\ q.forfeit >= 0
    BY <1>0, <2>2, <2>4
  <2>6. paid'[n] # "none" /\ \A p \in Payments : paid[p] # "none" => paid'[p] # "none"
    BY <1>0, <2>1, <2>2 DEF Typed
  <2> QED
    BY <2>1, <2>2, <2>5, <2>6, PaidQuiet
<1>8. CASE Declined(c)
  <2> DEFINE r == [proc[c] EXCEPT !.at = "failed"]
  <2>1. "failed" \in Places
    BY DEF Places
  <2>2. r \in Process /\ r.at = "failed" /\ r.forfeit = proc[c].forfeit
    BY <1>0, <2>1 DEF Process
  <2>3. topUp' = topUp /\ balance' = balance /\ paid' = paid /\ Continue(c, r)
    BY <1>8 DEF Declined
  <2> HIDE DEF r
  <2>4. PICK q \in Process : Continue(c, q) /\ q.at = "failed" /\ q.forfeit >= 0
    BY <1>0, <2>2, <2>3
  <2> QED
    BY <2>3, <2>4, PaidQuiet
<1>9. CASE Release(c) \/ Fail(c)
  <2>1. topUp' = topUp /\ balance' = balance /\ paid' = paid /\ Continue(c, Free)
    BY <1>9 DEF Release, Fail
  <2> QED
    BY <1>1, <2>1, PaidQuiet
<1> QED
  BY <1>2, <1>3, <1>4, <1>5, <1>6, <1>7, <1>8, <1>9 DEF Step

\* What has expired is not less than nothing.
LEMMA StaleLeft == ASSUME PaidInv PROVE Left(Stale) \in Int /\ Left(Stale) >= 0
<1> DEFINE f == [p \in Payments |-> topUp[p].remaining]
<1>1. IsFiniteSet(Stale) /\ \A p \in Stale : f[p] \in Int /\ f[p] >= 0
  <2>1. Stale \in SUBSET Payments
    BY DEF Stale
  <2> QED
    BY <2>1, PaymentsFinite, RowType DEF PaidInv, LeftNotNegative
<1>2. Left(Stale) = Sum(f, Stale)
  BY LeftIs
<1> HIDE DEF f
<1> QED
  BY <1>1, <1>2, SumType

LEMMA NextPaid == PaidInv /\ [Next]_vars => PaidInv'
<1> SUFFICES ASSUME PaidInv, [Next]_vars PROVE PaidInv'
  OBVIOUS
<1>0. Typed /\ Typed'
  BY NextTypes DEF PaidInv
<1>1. CASE Checkout
  <2> DEFINE n == NewPayment
  <2>1. n \in Payments /\ paid[n] = "none"
    BY <1>1, NewPaymentIn DEF Checkout
  <2>2. proc' = proc /\ topUp' = topUp /\ balance' = balance
        /\ paid' = [paid EXCEPT ![n] = "checkout"]
    BY <1>1 DEF Checkout
  <2> HIDE DEF n
  <2>3. \A p \in Payments : paid[p] # "none" => paid'[p] # "none"
    BY <1>0, <2>1, <2>2 DEF Typed
  <2> QED
    BY <1>0, <2>2, <2>3, PaidNoTurn
<1>2. ASSUME NEW c \in Procs, NEW p \in Payments, Deliver(c, p) PROVE PaidInv'
  <2> DEFINE r == [Free EXCEPT !.at = "insert", !.payment = p]
  <2>1. r \in Process /\ r.at = "insert" /\ r.payment = p /\ r.forfeit = 0
    BY FreeType, PaymentPlace DEF Process, Places, Free
  <2>2. Continue(c, r) /\ topUp' = topUp /\ balance' = balance /\ paid' = paid
        /\ paid[p] = "checkout"
    BY <1>2 DEF Deliver
  <2> HIDE DEF r
  <2>3. PICK q \in Process : Continue(c, q) /\ q.at = "insert" /\ q.payment = p /\ q.forfeit = 0
    BY <2>1, <2>2
  <2> QED
    BY <1>0, <2>2, <2>3, PaidQuiet
<1>3. ASSUME NEW p \in Payments, Lapse(p) PROVE PaidInv'
  <2>1. proc' = proc /\ balance' = balance /\ paid' = paid /\ topUp[p].state = "live"
        /\ topUp' = [topUp EXCEPT ![p].state = "lapsed"]
    BY <1>3 DEF Lapse
  <2>2. \A o \in Payments : /\ topUp'[o].remaining = topUp[o].remaining
                            /\ topUp'[o].state = "none" <=> topUp[o].state = "none"
    BY <1>0, <2>1, RowType DEF Row, Typed
  <2> QED
    BY <1>0, <2>1, <2>2, PaidNoTurn
<1>4. ASSUME NEW c \in Procs, NEW cost \in Nat, Begin(c, cost) PROVE PaidInv'
  <2> DEFINE r == [Free EXCEPT !.at = "balance", !.cost = cost, !.stale = Stale,
                           !.forfeit = Left(Stale)]
  <2>1. r \in Process /\ r.at = "balance" /\ r.forfeit = Left(Stale)
    BY <1>0, StaleType, FreeType DEF Process, Places, Free, Typed
  <2>2. Continue(c, r) /\ topUp' = topUp /\ balance' = balance /\ paid' = paid
    BY <1>4 DEF Begin
  <2> HIDE DEF r
  <2>3. PICK q \in Process : Continue(c, q) /\ q.at = "balance" /\ q.forfeit >= 0
    BY <2>1, <2>2, StaleLeft
  <2> QED
    BY <1>0, <2>2, <2>3, PaidQuiet
<1>5. ASSUME NEW c \in Procs, RecordUsage(c) \/ GetBalance(c) PROVE PaidInv'
  BY <1>4, <1>5, AmountsType DEF RecordUsage, GetBalance
<1>6. ASSUME NEW c \in Procs, Sweep(c) PROVE PaidInv'
  <2> DEFINE r == [Free EXCEPT !.at = "claim"]
  <2>1. r \in Process /\ r.at = "claim" /\ r.forfeit = 0
    BY FreeType DEF Process, Places, Free
  <2>2. Continue(c, r) /\ topUp' = topUp /\ balance' = balance /\ paid' = paid
    BY <1>6 DEF Sweep
  <2> HIDE DEF r
  <2> QED
    BY <1>0, <2>1, <2>2, PaidQuiet
<1>7. ASSUME NEW c \in Procs, TopUpThrows(c) PROVE PaidInv'
  <2> DEFINE r == [proc[c] EXCEPT !.at = "failed", !.payment = 0]
  <2>1. "failed" \in Places /\ 0 \in 0..MaxPayments
    BY FreeType DEF Places
  <2>2. r \in Process /\ r.at = "failed" /\ r.forfeit = proc[c].forfeit
    BY <1>0, <2>1, ProcessType DEF Process
  <2>3. Continue(c, r) /\ topUp' = topUp /\ balance' = balance /\ paid' = paid
    BY <1>7 DEF TopUpThrows
  <2>4. r.forfeit >= 0
    BY <2>2 DEF PaidInv, LeftNotNegative
  <2> HIDE DEF r
  <2> QED
    BY <1>0, <2>2, <2>3, <2>4, PaidQuiet
<1>8. ASSUME NEW c \in Procs, Crash(c) PROVE PaidInv'
  <2>1. Continue(c, Free) /\ topUp' = topUp /\ balance' = balance /\ paid' = paid
    BY <1>8 DEF Crash
  <2>2. Free \in Process /\ Free.at = "idle" /\ Free.forfeit = 0
    BY FreeType DEF Free
  <2> QED
    BY <1>0, <2>1, <2>2, PaidQuiet
<1>9. CASE BackoffPasses
  BY <1>0, <1>9, PaidNoTurn DEF BackoffPasses
<1>10. ASSUME NEW enabled \in BOOLEAN, SetAutoReload(enabled) PROVE PaidInv'
  BY <1>0, <1>10, PaidNoTurn DEF SetAutoReload
<1>11. CASE UNCHANGED vars
  BY <1>0, <1>11, PaidNoTurn DEF vars
<1> QED
  BY <1>0, <1>1, <1>2, <1>3, <1>5, <1>6, <1>7, <1>8, <1>9, <1>10, <1>11, StepPaid DEF Next

LEMMA InitPaid == Init => PaidInv
<1> SUFFICES ASSUME Init PROVE PaidInv
  OBVIOUS
<1>1. Typed
  BY InitTypes
<1>2. /\ \A c \in Procs : proc[c].at = "idle" /\ proc[c].forfeit = 0
      /\ \A p \in Payments : topUp[p].state = "none" /\ topUp[p].remaining = 0
  BY DEF Init, Free
<1>3. balance <= Worth
  BY WorthType DEF Init
<1> QED
  BY <1>1, <1>2, <1>3
     DEF PaidInv, LeftNotNegative, InHand, Carried, OneAdd, EnteredPaid, WithinCredited

LEMMA PaidSound == PaidInv => NeverMoreThanPaid
<1> SUFFICES ASSUME PaidInv PROVE NeverMoreThanPaid
  OBVIOUS
<1> DEFINE T == {p \in Payments : paid[p] # "none"}
<1>1. Credited \subseteq T /\ T \subseteq Payments
  BY DEF Credited, Entered, PaidInv, EnteredPaid
<1> HIDE DEF T
<1>2. /\ Amount * Cardinality(Credited) <= Amount * Cardinality(T)
      /\ Amount * Cardinality(Credited) \in Nat /\ Amount * Cardinality(T) \in Nat
  BY <1>1, WorthGrows
<1>3. balance \in Nat /\ balance <= Amount * Cardinality(Credited)
  BY DEF PaidInv, Typed, WithinCredited, Worth
<1>4. 0 <= balance /\ balance <= Amount * Cardinality(T)
  BY <1>2, <1>3
<1> QED
  BY <1>4 DEF NeverMoreThanPaid, T

\* However webhooks are repeated, runs and expiries write over each other's balance and
\* processes die half-way, no payment is credited twice and the balance is not negative.
THEOREM NoCreditUnpaid == Spec => []NeverMoreThanPaid
BY InitPaid, NextPaid, PaidSound, PTL DEF Spec

-----------------------------------------------------------------------------
(* The balance and the ledger agree.                                       *)

LeftOf(t, S) == Sum([p \in Payments |-> t[p].remaining], S)

ChangePlaces == {"balance", "commit", "insert", "add"}

\* What a process relates of the balance b and the ledger t.
Agrees(q, b, t) ==
  /\ q.at = "add" => b + Amount = LeftOf(t, Payments)
  /\ q.at = "balance" => q.forfeit = LeftOf(t, q.stale)
  /\ q.at = "commit" => q.current = b - LeftOf(t, q.stale)

\* One change at a time; between the ledger row and the balance they differ by the
\* top-up, at any other moment by nothing.
Alone ==
  /\ \A c, d \in Changing : c = d
  /\ (\A c \in Procs : proc[c].at # "add") => balance = LeftOf(topUp, Payments)
  /\ \A c \in Procs : Agrees(proc[c], balance, topUp)

LedgerInv == ~mixed /\ faults = 0 => Alone

\* A step of a process that is the only one to change balance and ledger.
LEMMA AloneTurn ==
  ASSUME Typed, Alone, NEW c \in Procs, NEW q, Continue(c, q),
         c \in Changing \/ Changing = {},
         q.at # "add" => balance' = LeftOf(topUp', Payments),
         Agrees(q, balance', topUp')
  PROVE  Alone'
<1>1. /\ proc'[c] = q
      /\ \A d \in Procs : d # c => proc'[d] = proc[d]
  BY DEF Typed, Continue
<1>2. \A d \in Procs : d # c => proc'[d].at \notin ChangePlaces
  <2> SUFFICES ASSUME NEW d \in Procs, d # c PROVE proc'[d].at \notin ChangePlaces
    OBVIOUS
  <2>1. d \notin Changing
    BY DEF Alone
  <2> QED
    BY <1>1, <2>1 DEF Changing, ChangePlaces
<1>3. \A d, e \in Changing' : d = e
  BY <1>2 DEF Changing, ChangePlaces
<1>4. (\A d \in Procs : proc'[d].at # "add") => balance' = LeftOf(topUp', Payments)
  BY <1>1
<1>5. \A d \in Procs : Agrees(proc'[d], balance', topUp')
  <2> SUFFICES ASSUME NEW d \in Procs, d # c PROVE Agrees(proc'[d], balance', topUp')
    BY <1>1
  <2> QED
    BY <1>2 DEF Agrees, ChangePlaces
<1> QED
  BY <1>3, <1>4, <1>5 DEF Alone

\* A step of a process that does not change them.
LEMMA AloneAway ==
  ASSUME Typed, Alone, NEW c \in Procs, NEW q, Continue(c, q),
         proc[c].at \notin ChangePlaces, q.at \notin ChangePlaces,
         balance' = balance, topUp' = topUp
  PROVE  Alone'
<1>1. /\ proc'[c] = q
      /\ \A d \in Procs : d # c => proc'[d] = proc[d]
  BY DEF Typed, Continue
<1>2. Changing' = Changing
  BY <1>1 DEF Changing, ChangePlaces
<1>3. (\A d \in Procs : proc'[d].at # "add") => balance' = LeftOf(topUp', Payments)
  BY <1>1 DEF Alone, ChangePlaces
<1>4. \A d \in Procs : Agrees(proc'[d], balance', topUp')
  <2> SUFFICES ASSUME NEW d \in Procs PROVE Agrees(proc'[d], balance', topUp')
    OBVIOUS
  <2>1. CASE d = c
    BY <1>1, <2>1 DEF Agrees, ChangePlaces
  <2>2. CASE d # c
    BY <1>1, <2>2 DEF Alone
  <2> QED
    BY <2>1, <2>2
<1> QED
  BY <1>2, <1>3, <1>4 DEF Alone

\* A step that changes no process, no balance and nothing that is left.
LEMMA AloneNoTurn ==
  ASSUME Alone, proc' = proc, balance' = balance,
         \A p \in Payments : topUp'[p].remaining = topUp[p].remaining
  PROVE  Alone'
<1>1. [p \in Payments |-> topUp'[p].remaining] = [p \in Payments |-> topUp[p].remaining]
  OBVIOUS
<1>2. \A S : LeftOf(topUp', S) = LeftOf(topUp, S)
  BY <1>1 DEF LeftOf
<1> QED
  BY <1>2 DEF Alone, Agrees, Changing

\* A part of what is left.
LEMMA LeftPart ==
  ASSUME PaidInv, NEW S, S \subseteq Payments
  PROVE  /\ LeftOf(topUp, Payments) \in Nat /\ LeftOf(topUp, S) \in Nat
         /\ LeftOf(topUp, Payments \ S) \in Nat
         /\ LeftOf(topUp, Payments) = LeftOf(topUp, S) + LeftOf(topUp, Payments \ S)
<1> DEFINE f == [p \in Payments |-> topUp[p].remaining]
<1>1. IsFiniteSet(Payments) /\ \A p \in Payments : f[p] \in Int /\ f[p] >= 0
  BY PaymentsFinite, RowType DEF PaidInv, LeftNotNegative
<1> HIDE DEF f
<1>2. /\ Sum(f, Payments) \in Nat /\ Sum(f, S) \in Nat /\ Sum(f, Payments \ S) \in Nat
      /\ Sum(f, Payments) = Sum(f, S) + Sum(f, Payments \ S)
  BY <1>1, SumPart
<1> QED
  BY <1>2 DEF LeftOf, f

\* The ledger row of a payment adds its amount to what is left.
LEMMA LeftInserted ==
  ASSUME PaidInv, NEW p \in Payments, topUp[p].state = "none",
         topUp' = [topUp EXCEPT ![p] = [state |-> "live", remaining |-> Amount]]
  PROVE  LeftOf(topUp', Payments) = LeftOf(topUp, Payments) + Amount
<1> DEFINE f == [o \in Payments |-> topUp[o].remaining]
           g == [o \in Payments |-> topUp'[o].remaining]
           R == Payments \ {p}
<1>1. f[p] = 0 /\ g[p] = Amount /\ \A o \in R : f[o] = g[o]
  BY DEF PaidInv, Typed, LeftNotNegative
<1>2. \A o \in Payments : f[o] \in Int /\ g[o] \in Int
  BY <1>1, RowType, AmountsType DEF PaidInv
<1> HIDE DEF f, g
<1>3. IsFiniteSet(Payments) /\ IsFiniteSet(R)
  BY PaymentsFinite
<1>4. Sum(f, R) = Sum(g, R)
  BY <1>1, <1>3, SumAgrees
<1>5. Sum(f, R) \in Int
  BY <1>2, <1>3, SumType
<1>6. Sum(f, Payments) = f[p] + Sum(f, R)
  BY ONLY p \in Payments, <1>2, <1>3, SumWithout DEF R
<1>7. Sum(g, Payments) = g[p] + Sum(g, R)
  BY ONLY p \in Payments, <1>2, <1>3, SumWithout DEF R
<1>8. Sum(g, Payments) = Sum(f, Payments) + Amount
  BY <1>1, <1>4, <1>5, <1>6, <1>7, AmountsType
<1> QED
  BY <1>8 DEF LeftOf, f, g

\* A sum without what counts for nothing.
LEMMA SumLess ==
  ASSUME NEW e, NEW f, NEW S, IsFiniteSet(S), \A x \in S : f[x] \in Int, NEW F,
         \A x \in S : x \in F => f[x] = 0, \A x \in S : x \notin F => f[x] = e[x]
  PROVE  Sum(f, S) = Sum(e, S \ F)
<1>1. IsFiniteSet(S \cap F) /\ IsFiniteSet(S \ F)
  BY FS_Subset
<1>2. \A x \in S : f[x] \in Int
  OBVIOUS
<1>3. Sum(f, S) = Sum(f, S \cap F) + Sum(f, S \ F)
  BY ONLY IsFiniteSet(S), <1>2, SumSplit
<1>4. Sum(f, S \cap F) = 0
  BY <1>1, SumZero
<1>5. Sum(f, S \ F) = Sum(e, S \ F)
  BY <1>1, SumAgrees
<1>6. Sum(f, S \ F) \in Int
  BY <1>1, SumType
<1> QED
  BY <1>3, <1>4, <1>5, <1>6

\* A debit writes the ledger down by what it took of what was not forfeited.
LEMMA LeftWrittenDown ==
  ASSUME PaidInv, NEW F, F \subseteq Payments, NEW t \in Nat,
         topUp' = [p \in Payments |->
                     [topUp[p] EXCEPT !.remaining = WrittenDown(p, F, t)]]
  PROVE  LeftOf(topUp', Payments) =
           IF t < LeftOf(topUp, Payments \ F) THEN LeftOf(topUp, Payments \ F) - t ELSE 0
<1> DEFINE e == [p \in Payments |-> topUp[p].remaining]
           f == [p \in Payments |-> IF p \in F THEN 0 ELSE topUp[p].remaining]
           w == [p \in Payments |-> WrittenDown(p, F, t)]
<1>1. \A p \in Payments : e[p] \in Nat /\ f[p] \in Nat
  BY RowType DEF PaidInv, LeftNotNegative
<1>2. (\A p \in Payments : p \in F => f[p] = 0) /\ (\A p \in Payments : p \notin F => f[p] = e[p])
  OBVIOUS
<1>3. LeftOf(topUp', Payments) = Sum(w, Payments)
  <2>1. \A p \in Payments : topUp'[p].remaining = WrittenDown(p, F, t)
    BY RowType DEF PaidInv, Row
  <2>2. [p \in Payments |-> topUp'[p].remaining] = w
    BY <2>1
  <2> HIDE DEF w
  <2> QED
    BY <2>2 DEF LeftOf
<1>4. \A S \in SUBSET Payments : Sum(f, S) = Sum(e, S \ F)
  <2> HIDE DEF e, f
  <2> TAKE S \in SUBSET Payments
  <2>1. IsFiniteSet(S) /\ \A p \in S : f[p] \in Int
    BY <1>1, PaymentsFinite
  <2>2. (\A p \in S : p \in F => f[p] = 0) /\ (\A p \in S : p \notin F => f[p] = e[p])
    BY <1>2
  <2> QED
    BY ONLY <2>1, <2>2, SumLess
<1>5. \A p \in Payments : w[p] = Rest(f, t, p)
  <2> TAKE p \in Payments
  <2> DEFINE D == 1..(p - 1)
             a == IF p \in F THEN 0 ELSE topUp[p].remaining
             b == t - Sum(f, D)
  <2>1. D \in SUBSET Payments
    BY PaymentsAssumption DEF Payments
  <2>2. Left(D \ F) = Sum(e, D \ F)
    BY LeftIs
  <2>3. Sum(f, D) = Left(D \ F)
    BY <1>4, <2>1, <2>2
  <2>4. f[p] = a /\ a \in Nat
    BY <1>1
  <2>5. Sum(f, D) \in Int
    <3> HIDE DEF e, f, D
    <3>1. IsFiniteSet(D) /\ \A o \in D : f[o] \in Int
      BY <1>1, <2>1, PaymentsFinite
    <3> QED
      BY <3>1, SumType
  <2>6. w[p] = CASE b <= 0 -> a [] b > 0 /\ b < a -> a - b [] OTHER -> 0
    BY <2>3 DEF WrittenDown
  <2>7. Rest(f, t, p) = IF b <= 0 THEN a ELSE IF b < a THEN a - b ELSE 0
    BY <2>4 DEF Rest
  <2>8. b \in Int
    BY <2>5
  <2> HIDE DEF a, b, w, f
  <2> QED
    BY <2>4, <2>6, <2>7, <2>8
<1>6. Sum(w, Payments) = IF t < Sum(f, Payments) THEN Sum(f, Payments) - t ELSE 0
  <2> HIDE DEF w, f
  <2> QED
    BY <1>1, <1>5, PaymentsAssumption, FifoTakes DEF Payments
<1>7. Sum(f, Payments) = LeftOf(topUp, Payments \ F)
  BY <1>4 DEF LeftOf
<1> HIDE DEF w, f
<1> QED
  BY <1>3, <1>6, <1>7

LEMMA LeftAsSum == \A S : Left(S) = LeftOf(topUp, S)
BY LeftIs DEF LeftOf

\* A process that goes on after a top-up changes no more.
LEMMA AfterTopUpAway == ASSUME NEW c PROVE AfterTopUp(c).at \in {"idle", "release"}
BY DEF AfterTopUp, Free

LEMMA InsertAlone == ASSUME PaidInv, Alone, NEW c \in Procs, Insert(c) PROVE Alone'
<1> DEFINE p == proc[c].payment
<1>0. Typed /\ proc[c].at = "insert" /\ balance' = balance
  BY DEF PaidInv, Insert
<1>1. p \in Payments /\ c \in Changing
  BY <1>0 DEF PaidInv, InHand, Carried, Changing
<1>2. balance = LeftOf(topUp, Payments)
  <2>1. \A d \in Procs : proc[d].at = "add" => d = c
    BY <1>1 DEF Alone, Changing
  <2> QED
    BY <1>0, <2>1 DEF Alone
<1>3. CASE ~FirstTime(p)
  <2>1. Continue(c, AfterTopUp(c)) /\ topUp' = topUp
    BY <1>3 DEF Insert
  <2>2. AfterTopUp(c).at \in {"idle", "release"}
    BY AfterTopUpAway
  <2>3. Agrees(AfterTopUp(c), balance', topUp')
    BY <2>2 DEF Agrees
  <2> QED
    BY <1>0, <1>1, <1>2, <2>1, <2>2, <2>3, AloneTurn
<1>4. CASE FirstTime(p)
  <2>1. /\ Continue(c, [proc[c] EXCEPT !.at = "add"])
        /\ topUp' = [topUp EXCEPT ![p] = [state |-> "live", remaining |-> Amount]]
        /\ topUp[p].state = "none"
    BY <1>4 DEF Insert, FirstTime
  <2>2. PICK q : q = [proc[c] EXCEPT !.at = "add"]
    OBVIOUS
  <2>3. q.at = "add"
    BY <1>0, <2>2, ProcessType DEF Process
  <2>4. LeftOf(topUp', Payments) = LeftOf(topUp, Payments) + Amount
    BY <1>1, <2>1, LeftInserted
  <2>5. Agrees(q, balance', topUp')
    BY <1>0, <1>2, <2>3, <2>4 DEF Agrees
  <2> QED
    BY <1>0, <1>1, <2>1, <2>2, <2>3, <2>5, AloneTurn
<1> QED
  BY <1>3, <1>4

LEMMA AddAlone == ASSUME PaidInv, Alone, NEW c \in Procs, Add(c) PROVE Alone'
<1>1. /\ Typed /\ proc[c].at = "add" /\ balance' = balance + Amount /\ topUp' = topUp
      /\ Continue(c, AfterTopUp(c))
  BY DEF PaidInv, Add
<1>2. c \in Changing /\ balance' = LeftOf(topUp', Payments)
  BY <1>1 DEF Alone, Agrees, Changing
<1>3. AfterTopUp(c).at \in {"idle", "release"}
  BY AfterTopUpAway
<1>4. Agrees(AfterTopUp(c), balance', topUp')
  BY <1>3 DEF Agrees
<1> QED
  BY <1>1, <1>2, <1>3, <1>4, AloneTurn

\* What the ledger and the balance are while one process changes them, and it is not
\* between the two statements of a top-up.
LEMMA BalanceIsLeft ==
  ASSUME Alone, NEW c \in Changing, proc[c].at # "add"
  PROVE  balance = LeftOf(topUp, Payments)
BY DEF Alone, Changing

LEMMA ReadAlone == ASSUME PaidInv, Alone, NEW c \in Procs, ReadBalance(c) PROVE Alone'
<1> DEFINE F == proc[c].stale
<1>0. /\ Typed /\ proc[c].at = "balance" /\ topUp' = topUp /\ balance' = balance
      /\ Continue(c, [proc[c] EXCEPT !.at = "commit", !.current = AfterForfeit(c),
                        !.forfeit = 0, !.enabled = reload.enabled])
  BY DEF PaidInv, ReadBalance
<1>1. c \in Changing /\ F \subseteq Payments
  BY <1>0, ProcessType DEF Changing
<1>2. balance = LeftOf(topUp, Payments)
  BY <1>0, <1>1, BalanceIsLeft
<1>3. proc[c].forfeit = LeftOf(topUp, F)
  BY <1>0 DEF Alone, Agrees
<1>4. /\ LeftOf(topUp, Payments) \in Nat /\ LeftOf(topUp, F) \in Nat
      /\ LeftOf(topUp, Payments \ F) \in Nat
      /\ LeftOf(topUp, Payments) = LeftOf(topUp, F) + LeftOf(topUp, Payments \ F)
  BY <1>1, LeftPart
<1>5. AfterForfeit(c) = balance - LeftOf(topUp, F)
  BY <1>2, <1>3, <1>4 DEF AfterForfeit
<1>6. PICK q : q = [proc[c] EXCEPT !.at = "commit", !.current = AfterForfeit(c),
                      !.forfeit = 0, !.enabled = reload.enabled]
  OBVIOUS
<1>7. q.at = "commit" /\ q.current = AfterForfeit(c) /\ q.stale = F
  BY <1>0, <1>6, ProcessType DEF Process
<1>8. Agrees(q, balance', topUp')
  BY <1>0, <1>5, <1>7 DEF Agrees
<1> QED
  BY <1>0, <1>1, <1>2, <1>6, <1>8, AloneTurn

LEMMA CommitAlone == ASSUME PaidInv, Alone, NEW c \in Procs, Commit(c) PROVE Alone'
<1> DEFINE F == proc[c].stale
           m == proc[c].current
           D == Debited(proc[c])
           t == m - D
<1>0. /\ Typed /\ proc[c].at = "commit" /\ balance' = D
      /\ topUp' = [p \in Payments |-> [topUp[p] EXCEPT !.remaining = WrittenDown(p, F, t)]]
  BY DEF PaidInv, Commit
<1>1. c \in Changing /\ F \subseteq Payments
  BY <1>0, ProcessType DEF Changing
<1>2. D \in Nat /\ D <= m /\ m \in Nat
  BY <1>0, ProcessType DEF Debited
<1>3. balance = LeftOf(topUp, Payments) /\ m = balance - LeftOf(topUp, F)
  BY <1>0, <1>1, BalanceIsLeft DEF Alone, Agrees
<1>4. /\ LeftOf(topUp, Payments) \in Nat /\ LeftOf(topUp, F) \in Nat
      /\ LeftOf(topUp, Payments \ F) \in Nat
      /\ LeftOf(topUp, Payments) = LeftOf(topUp, F) + LeftOf(topUp, Payments \ F)
  BY <1>1, LeftPart
<1> HIDE DEF D, m
<1>5. LeftOf(topUp, Payments \ F) = m
  BY <1>3, <1>4
<1>6. t \in Nat
  BY <1>2
<1> HIDE DEF t
<1>7. LeftOf(topUp', Payments) =
        IF t < LeftOf(topUp, Payments \ F) THEN LeftOf(topUp, Payments \ F) - t ELSE 0
  <2>1. PICK G, u : G = F /\ u = t
    OBVIOUS
  <2>2. G \subseteq Payments /\ u \in Nat
    BY <1>1, <1>6, <2>1
  <2>3. topUp' = [p \in Payments |-> [topUp[p] EXCEPT !.remaining = WrittenDown(p, G, u)]]
    BY <1>0, <2>1
  <2>4. LeftOf(topUp', Payments) =
          IF u < LeftOf(topUp, Payments \ G) THEN LeftOf(topUp, Payments \ G) - u ELSE 0
    BY <2>2, <2>3, LeftWrittenDown
  <2> QED
    BY <2>1, <2>4
<1>8. balance' = LeftOf(topUp', Payments)
  BY <1>0, <1>2, <1>5, <1>7 DEF t
<1>9. PICK q : Continue(c, q) /\ q.at \in {"claim", "idle"}
  BY DEF Commit, Free
<1>10. Agrees(q, balance', topUp')
  BY <1>9 DEF Agrees
<1> QED
  BY <1>0, <1>1, <1>8, <1>9, <1>10, AloneTurn

LEMMA StepAlone == ASSUME PaidInv, Alone, NEW c \in Procs, Step(c), ~mixed' PROVE Alone'
<1>0. Typed /\ proc[c] \in Process
  BY ProcessType DEF PaidInv
<1>1. CASE Insert(c)
  BY <1>1, InsertAlone
<1>2. CASE Add(c)
  BY <1>2, AddAlone
<1>3. CASE ReadBalance(c)
  BY <1>3, ReadAlone
<1>4. CASE Commit(c)
  BY <1>4, CommitAlone
<1>5. CASE ChargeCard(c)
  <2>1. /\ balance' = balance /\ topUp' = topUp /\ Changing = {} /\ proc[c].at = "charge"
        /\ Continue(c, [proc[c] EXCEPT !.at = "insert", !.payment = NewPayment])
    BY <1>5 DEF ChargeCard
  <2>2. PICK q : q = [proc[c] EXCEPT !.at = "insert", !.payment = NewPayment]
    OBVIOUS
  <2>3. q.at = "insert"
    BY <1>0, <2>2 DEF Process
  <2>4. Agrees(q, balance', topUp')
    BY <2>3 DEF Agrees
  <2>5. balance' = LeftOf(topUp', Payments)
    BY <2>1 DEF Alone, Changing
  <2> QED
    BY <1>0, <2>1, <2>2, <2>4, <2>5, AloneTurn
<1>6. CASE Claim(c) \/ Declined(c) \/ Release(c) \/ Fail(c)
  <2>1. /\ balance' = balance /\ topUp' = topUp
        /\ proc[c].at \in {"claim", "charge", "release", "failed"}
    BY <1>6 DEF Claim, Declined, Release, Fail
  <2>2. [Free EXCEPT !.at = "charge", !.auto = TRUE, !.failures = reload.failures].at = "charge"
        /\ Free.at = "idle"
    BY DEF Free
  <2>3. [proc[c] EXCEPT !.at = "failed"].at = "failed"
    BY <1>0 DEF Process
  <2>4. PICK q : Continue(c, q) /\ q.at \in {"charge", "idle", "failed"}
    BY <1>6, <2>2, <2>3 DEF Claim, Declined, Release, Fail
  <2>5. proc[c].at \notin ChangePlaces /\ q.at \notin ChangePlaces
    BY <2>1, <2>4 DEF ChangePlaces
  <2> QED
    BY <1>0, <2>1, <2>4, <2>5, AloneAway
<1> QED
  BY <1>1, <1>2, <1>3, <1>4, <1>5, <1>6 DEF Step

LEMMA BeginAlone ==
  ASSUME PaidInv, Alone, NEW c \in Procs, NEW cost, Begin(c, cost), ~mixed' PROVE Alone'
<1>1. /\ balance' = balance /\ topUp' = topUp /\ Changing = {} /\ proc[c].at = "idle"
      /\ Continue(c, [Free EXCEPT !.at = "balance", !.cost = cost, !.stale = Stale,
                        !.forfeit = Left(Stale)])
  BY DEF Begin
<1>2. PICK q : q = [Free EXCEPT !.at = "balance", !.cost = cost, !.stale = Stale,
                      !.forfeit = Left(Stale)]
  OBVIOUS
<1>3. q.at = "balance" /\ q.stale = Stale /\ q.forfeit = Left(Stale)
  BY <1>2 DEF Free
<1>4. Agrees(q, balance', topUp')
  BY <1>1, <1>3, LeftAsSum DEF Agrees
<1>5. balance' = LeftOf(topUp', Payments)
  BY <1>1 DEF Alone, Changing
<1> QED
  BY <1>1, <1>2, <1>4, <1>5, AloneTurn DEF PaidInv

LEMMA NextLedger == PaidInv /\ LedgerInv /\ [Next]_vars => LedgerInv'
<1> SUFFICES ASSUME PaidInv, LedgerInv, [Next]_vars, ~mixed', faults' = 0 PROVE Alone'
  BY DEF LedgerInv
<1>0. Typed /\ faults \in Nat /\ mixed \in BOOLEAN
  BY DEF PaidInv, Typed
<1>1. ~mixed /\ faults = 0
  <2>1. ~mixed
    BY DEF Next, Step, Checkout, Deliver, Lapse, RecordUsage, GetBalance, Begin, Sweep, Insert, Add,
           ReadBalance, Commit, Claim, ChargeCard, Declined, Release, Fail, TopUpThrows, Crash,
           BackoffPasses, SetAutoReload, vars
  <2>2. faults' = faults \/ faults' = faults + 1
    BY DEF Next, Step, Checkout, Deliver, Lapse, RecordUsage, GetBalance, Begin, Sweep, Insert, Add,
           ReadBalance, Commit, Claim, ChargeCard, Declined, Release, Fail, TopUpThrows, Crash,
           BackoffPasses, SetAutoReload, vars
  <2> QED
    BY <1>0, <2>1, <2>2
<1>2. Alone
  BY <1>1 DEF LedgerInv
<1>3. CASE Checkout \/ BackoffPasses \/ UNCHANGED vars
  BY <1>2, <1>3, AloneNoTurn DEF Checkout, BackoffPasses, vars
<1>4. ASSUME NEW c \in Procs, NEW p \in Payments, Deliver(c, p) PROVE Alone'
  <2>1. /\ balance' = balance /\ topUp' = topUp /\ Changing = {} /\ proc[c].at = "idle"
        /\ Continue(c, [Free EXCEPT !.at = "insert", !.payment = p])
    BY <1>4 DEF Deliver
  <2>2. PICK q : q = [Free EXCEPT !.at = "insert", !.payment = p]
    OBVIOUS
  <2>3. q.at = "insert"
    BY <2>2 DEF Free
  <2>4. Agrees(q, balance', topUp')
    BY <2>3 DEF Agrees
  <2>5. balance' = LeftOf(topUp', Payments)
    BY <1>2, <2>1 DEF Alone, Changing
  <2> QED
    BY <1>0, <1>2, <2>1, <2>2, <2>4, <2>5, AloneTurn
<1>5. ASSUME NEW p \in Payments, Lapse(p) PROVE Alone'
  <2>1. /\ proc' = proc /\ balance' = balance
        /\ topUp' = [topUp EXCEPT ![p].state = "lapsed"]
    BY <1>5 DEF Lapse
  <2>2. \A o \in Payments : topUp'[o].remaining = topUp[o].remaining
    BY <1>0, <2>1, RowType DEF Row, Typed
  <2> QED
    BY <1>2, <2>1, <2>2, AloneNoTurn
<1>6. ASSUME NEW c \in Procs, RecordUsage(c) \/ GetBalance(c) PROVE Alone'
  BY <1>2, <1>6, BeginAlone DEF RecordUsage, GetBalance
<1>7. ASSUME NEW c \in Procs, Sweep(c) PROVE Alone'
  <2>1. /\ balance' = balance /\ topUp' = topUp /\ proc[c].at = "idle"
        /\ Continue(c, [Free EXCEPT !.at = "claim"])
    BY <1>7 DEF Sweep
  <2>2. PICK q : q = [Free EXCEPT !.at = "claim"]
    OBVIOUS
  <2>3. q.at = "claim"
    BY <2>2 DEF Free
  <2>4. proc[c].at \notin ChangePlaces /\ q.at \notin ChangePlaces
    BY <2>1, <2>3 DEF ChangePlaces
  <2> QED
    BY <1>0, <1>2, <2>1, <2>2, <2>4, AloneAway
<1>8. ASSUME NEW c \in Procs, TopUpThrows(c) \/ Crash(c) PROVE Alone'
  BY <1>0, <1>1, <1>8 DEF TopUpThrows, Crash
<1>9. ASSUME NEW enabled \in BOOLEAN, SetAutoReload(enabled) PROVE Alone'
  BY <1>2, <1>9, AloneNoTurn DEF SetAutoReload
<1> QED
  BY <1>2, <1>3, <1>4, <1>5, <1>6, <1>7, <1>8, <1>9, StepAlone DEF Next

LEMMA InitLedger == Init => LedgerInv
<1> SUFFICES ASSUME Init PROVE Alone
  BY DEF LedgerInv
<1> DEFINE f == [p \in Payments |-> topUp[p].remaining]
<1>1. /\ balance = 0 /\ \A c \in Procs : proc[c].at = "idle"
      /\ \A p \in Payments : f[p] = 0
  BY DEF Init, Free
<1>2. LeftOf(topUp, Payments) = 0
  <2> HIDE DEF f
  <2>1. Sum(f, Payments) = 0
    BY <1>1, PaymentsFinite, SumZero
  <2> QED
    BY <2>1 DEF LeftOf, f
<1> QED
  BY <1>1, <1>2 DEF Alone, Changing, Agrees

LEMMA LedgerSound == LedgerInv => LedgerMatches
BY LeftAsSum DEF LedgerInv, Alone, LedgerMatches, Changing

\* As long as no two changes overlap and nothing fails half-way, what top-ups add, runs
\* debit from the oldest on, and expiries forfeit, is the same in the balance as in the
\* ledger.
THEOREM LedgerIsBalance == Spec => []LedgerMatches
<1>1. Init => PaidInv /\ LedgerInv
  BY InitPaid, InitLedger
<1>2. PaidInv /\ LedgerInv /\ [Next]_vars => PaidInv' /\ LedgerInv'
  BY NextPaid, NextLedger
<1> QED
  BY <1>1, <1>2, LedgerSound, PTL DEF Spec
=============================================================================
