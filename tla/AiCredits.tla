------------------------------ MODULE AiCredits ------------------------------
(***************************************************************************)
(* The prepaid AI credits of one workspace and their automatic reload      *)
(* (src/apps/api/src/billing/ai-credits.service.ts, the retry sweep of     *)
(* auto-reload-retry.service.ts, and the webhook that credits a checkout,  *)
(* applyEvent of billing.service.ts).                                      *)
(*                                                                         *)
(* The balance is a column.  Beside it the ledger keeps, for each top-up,  *)
(* what is left of it, for the day it expires.  A run debits the balance   *)
(* in a transaction that reads it without a lock and writes back an        *)
(* absolute value; a top-up is inserted in the ledger and added to the     *)
(* balance in two statements.  A run that leaves the balance at or below   *)
(* the threshold then tries to reload: a claim on the row, a charge at     *)
(* Stripe, a top-up, and the release of the claim.                         *)
(*                                                                         *)
(* Every top-up is of the same amount, and is named by its Stripe payment. *)
(***************************************************************************)
EXTENDS Integers, FiniteSets, Functions

CONSTANTS
  Procs,        \* requests, runs and sweeps in flight at once
  MaxPayments,  \* bound on the payments
  Amount,       \* credit that a payment buys
  Threshold,    \* auto_reload_threshold_cents
  Charge,       \* what a run costs
  MaxAttempts,  \* AI_CREDIT_AUTO_RELOAD_MAX_ATTEMPTS
  MaxRuns,      \* bound on the runs that are charged
  MaxChanges,   \* bound on how often a person sets the reload
  MaxFaults     \* bound on how many processes die or fail half-way

Payments == 1..MaxPayments

ASSUME PaymentsAssumption == MaxPayments \in Nat
ASSUME AmountsAssumption == {Amount, Threshold, Charge} \subseteq Nat
ASSUME AttemptsAssumption == MaxAttempts \in Nat \ {0}
ASSUME ProcsAssumption == IsFiniteSet(Procs)

VARIABLES
  balance,  \* balance_cents
  reload,   \* the auto-reload columns: enabled, claimed, failures, backing off
  topUp,    \* the ledger row of each payment: what is left, and whether it has expired
  paid,     \* what Stripe has charged: "none", "checkout", "auto"
  seen,     \* ids of the webhook events claimed in billing_events
  proc,     \* what each process has in hand
  runs,     \* how many runs were charged
  changes,  \* how often the reload was set
  mixed,    \* did a change of balance and ledger ever overlap another?
  faults    \* how many processes died

vars == <<balance, reload, topUp, paid, seen, proc, runs, changes, mixed, faults>>

Free == [at |-> "idle", payment |-> 0, auto |-> FALSE, cost |-> 0, stale |-> {},
         forfeit |-> 0, current |-> 0, enabled |-> FALSE, failures |-> 0]

\* The processes in the middle of a change of balance and ledger.
Changing == {c \in Procs : proc[c].at \in {"balance", "commit", "insert", "add"}}

Continue(c, next) == proc' = [proc EXCEPT ![c] = next]

(***************************************************************************)
(* Top-ups.                                                                *)
(***************************************************************************)

\* A payment that Stripe has not made yet.
NewPayment == CHOOSE p \in Payments : paid[p] = "none"

CanPay == \E p \in Payments : paid[p] = "none"

\* A person pays at the Checkout page.
Checkout ==
  /\ CanPay
  /\ paid' = [paid EXCEPT ![NewPayment] = "checkout"]
  /\ UNCHANGED <<balance, reload, topUp, seen, proc, runs, changes, mixed, faults>>

\* Stripe delivers the event of a checkout.  applyEvent() claims its id: a delivery
\* that finds it claimed changes nothing.
Deliver(c, p) ==
  /\ proc[c].at = "idle"
  /\ paid[p] = "checkout" /\ p \notin seen
  /\ seen' = seen \cup {p}
  /\ Continue(c, [Free EXCEPT !.at = "insert", !.payment = p])
  /\ mixed' = (mixed \/ Changing # {})
  /\ UNCHANGED <<balance, reload, topUp, paid, runs, changes, faults>>

\* What comes after a top-up: a reload releases its claim.
AfterTopUp(c) ==
  IF proc[c].auto THEN [Free EXCEPT !.at = "release", !.auto = TRUE] ELSE Free

\* Mutant: the insert meets any top-up of the workspace.
FirstTimeOnce(p) == \A q \in Payments : topUp[q].state = "none"

\* The insert does not meet the unique payment_intent id.
FirstTime(p) == topUp[p].state = "none"

\* applyTopUp(), the ledger row.
Insert(c) ==
  LET p == proc[c].payment
  IN /\ proc[c].at = "insert"
     /\ topUp' = IF FirstTime(p)
                   THEN [topUp EXCEPT ![p] = [state |-> "live", remaining |-> Amount]]
                   ELSE topUp
     /\ Continue(c, IF FirstTime(p) THEN [proc[c] EXCEPT !.at = "add"] ELSE AfterTopUp(c))
     /\ UNCHANGED <<balance, reload, paid, seen, runs, changes, mixed, faults>>

\* applyTopUp(), the balance: added to whatever it is.
Add(c) ==
  /\ proc[c].at = "add"
  /\ balance' = balance + Amount
  /\ Continue(c, AfterTopUp(c))
  /\ UNCHANGED <<reload, topUp, paid, seen, runs, changes, mixed, faults>>

(***************************************************************************)
(* Debits and expiry.                                                      *)
(***************************************************************************)

\* Twelve months have passed.
Lapse(p) ==
  /\ topUp[p].state = "live"
  /\ topUp' = [topUp EXCEPT ![p].state = "lapsed"]
  /\ UNCHANGED <<balance, reload, paid, seen, proc, runs, changes, mixed, faults>>

Left(S) == FoldFunctionOnSet(+, 0, [p \in Payments |-> topUp[p].remaining], S)

Stale == {p \in Payments : topUp[p].state = "lapsed" /\ topUp[p].remaining > 0}

\* A transaction begins with expireStaleCredits(), which reads what has expired.
Begin(c, cost) ==
  /\ proc[c].at = "idle"
  /\ Continue(c, [Free EXCEPT !.at = "balance", !.cost = cost, !.stale = Stale,
                    !.forfeit = Left(Stale)])
  /\ mixed' = (mixed \/ Changing # {})
  /\ UNCHANGED <<balance, reload, topUp, paid, seen, changes, faults>>

\* recordUsage(): a run has used credits.
RecordUsage(c) ==
  /\ runs < MaxRuns
  /\ runs' = runs + 1
  /\ Begin(c, Charge)

\* getBalance(): it writes only when it finds something expired.
GetBalance(c) ==
  /\ Stale # {}
  /\ Begin(c, 0)
  /\ UNCHANGED runs

\* Mutant: what has expired stays in the balance.
AfterForfeitKept(c) == balance

\* The balance without what has expired.
AfterForfeit(c) == IF proc[c].forfeit < balance THEN balance - proc[c].forfeit ELSE 0

\* The balance is read, without a lock.  When something has expired, its rows are
\* zeroed before, and another transaction that zeroes one of them waits for the end
\* of this one.
ReadBalance(c) ==
  /\ proc[c].at = "balance"
  /\ \A d \in Procs : proc[d].at = "commit" => proc[c].stale \cap proc[d].stale = {}
  /\ Continue(c, [proc[c] EXCEPT !.at = "commit", !.current = AfterForfeit(c),
                    !.forfeit = 0, !.enabled = reload.enabled])
  /\ UNCHANGED <<balance, reload, topUp, paid, seen, runs, changes, mixed, faults>>

\* consumeTopUpsFifo(): what the debit took is written down from the oldest top-up
\* on; those that the transaction forfeited have nothing left.
WrittenDown(p, forfeited, taken) ==
  LET available == IF p \in forfeited THEN 0 ELSE topUp[p].remaining
      before == taken - Left((1..(p - 1)) \ forfeited)
  IN CASE before <= 0 -> available
       [] before > 0 /\ before < available -> available - before
       [] OTHER -> 0

\* Mutant: nothing holds the balance at zero.
DebitedPlain(q) == q.current - q.cost

\* The balance that was read less the cost, never less than nothing.
Debited(q) == IF q.cost < q.current THEN q.current - q.cost ELSE 0

\* The transaction commits: balance and ledger.  A run that leaves the balance at or
\* below the threshold tries to reload.
Commit(c) ==
  LET q == proc[c]
  IN /\ q.at = "commit"
     /\ balance' = Debited(q)
     /\ topUp' = [p \in Payments |->
          [topUp[p] EXCEPT !.remaining = WrittenDown(p, q.stale, q.current - Debited(q))]]
     /\ Continue(c, IF q.cost > 0 /\ q.enabled /\ Debited(q) <= Threshold
                      THEN [Free EXCEPT !.at = "claim"] ELSE Free)
     /\ UNCHANGED <<reload, paid, seen, runs, changes, mixed, faults>>

(***************************************************************************)
(* Automatic reload.                                                       *)
(***************************************************************************)

\* sweep(): a reload that failed, and whose back-off has passed.
Sweep(c) ==
  /\ proc[c].at = "idle"
  /\ reload.enabled /\ ~reload.claimed /\ reload.retry = "due"
  /\ Continue(c, [Free EXCEPT !.at = "claim"])
  /\ UNCHANGED <<balance, reload, topUp, paid, seen, runs, changes, mixed, faults>>

\* auto_reload_next_retry_at passes.
BackoffPasses ==
  /\ reload.retry = "waiting"
  /\ reload' = [reload EXCEPT !.retry = "due"]
  /\ UNCHANGED <<balance, topUp, paid, seen, proc, runs, changes, mixed, faults>>

\* Mutant: the claim does not look for another.
ClaimableAlways == reload.enabled /\ reload.retry # "waiting"

\* The claim: enabled, not claimed, not backing off.  The balance is not looked at.
Claimable == reload.enabled /\ ~reload.claimed /\ reload.retry # "waiting"

\* tryAutoReload(), its UPDATE.
Claim(c) ==
  /\ proc[c].at = "claim"
  /\ IF Claimable
       THEN /\ reload' = [reload EXCEPT !.claimed = TRUE]
            /\ Continue(c, [Free EXCEPT !.at = "charge", !.auto = TRUE,
                              !.failures = reload.failures])
       ELSE /\ Continue(c, Free)
            /\ UNCHANGED reload
  /\ UNCHANGED <<balance, topUp, paid, seen, runs, changes, mixed, faults>>

\* chargeReload(): Stripe charges the card; the top-up follows.
ChargeCard(c) ==
  /\ proc[c].at = "charge" /\ CanPay
  /\ paid' = [paid EXCEPT ![NewPayment] = "auto"]
  /\ Continue(c, [proc[c] EXCEPT !.at = "insert", !.payment = NewPayment])
  /\ mixed' = (mixed \/ Changing # {})
  /\ UNCHANGED <<balance, reload, topUp, seen, runs, changes, faults>>

\* The charge throws: no card, declined, an answer is wanted from its holder.
Declined(c) ==
  /\ proc[c].at = "charge"
  /\ Continue(c, [proc[c] EXCEPT !.at = "failed"])
  /\ UNCHANGED <<balance, reload, topUp, paid, seen, runs, changes, mixed, faults>>

\* The card was charged and the top-up throws: the reload has failed all the same.
TopUpThrows(c) ==
  /\ proc[c].auto /\ proc[c].at \in {"insert", "add"}
  /\ faults < MaxFaults
  /\ faults' = faults + 1
  /\ Continue(c, [proc[c] EXCEPT !.at = "failed", !.payment = 0])
  /\ UNCHANGED <<balance, reload, topUp, paid, seen, runs, changes, mixed>>

\* onReloadSuccess().
Release(c) ==
  /\ proc[c].at = "release"
  /\ reload' = [reload EXCEPT !.claimed = FALSE, !.failures = 0, !.retry = "none"]
  /\ Continue(c, Free)
  /\ UNCHANGED <<balance, topUp, paid, seen, runs, changes, mixed, faults>>

\* Mutant: the claim is held while the retry waits.
FailedReloadHeld(failures) ==
  IF failures >= MaxAttempts
    THEN [enabled |-> FALSE, claimed |-> FALSE, failures |-> failures, retry |-> "none"]
    ELSE [reload EXCEPT !.failures = failures, !.retry = "waiting"]

\* onReloadFailure(): counted from what the claim returned; at the limit the reload
\* is disabled, before it the retry waits.
FailedReload(failures) ==
  IF failures >= MaxAttempts
    THEN [enabled |-> FALSE, claimed |-> FALSE, failures |-> failures, retry |-> "none"]
    ELSE [reload EXCEPT !.claimed = FALSE, !.failures = failures, !.retry = "waiting"]

Fail(c) ==
  /\ proc[c].at = "failed"
  /\ reload' = FailedReload(proc[c].failures + 1)
  /\ Continue(c, Free)
  /\ UNCHANGED <<balance, topUp, paid, seen, runs, changes, mixed, faults>>

\* setAutoReload(): the count and the back-off start clean, the claim stays.
SetAutoReload(enabled) ==
  /\ changes < MaxChanges
  /\ reload' = [reload EXCEPT !.enabled = enabled, !.failures = 0, !.retry = "none"]
  /\ changes' = changes + 1
  /\ UNCHANGED <<balance, topUp, paid, seen, proc, runs, mixed, faults>>

\* The process dies: its transaction is rolled back, what it committed stays.
Crash(c) ==
  /\ proc[c].at # "idle"
  /\ faults < MaxFaults
  /\ faults' = faults + 1
  /\ Continue(c, Free)
  /\ UNCHANGED <<balance, reload, topUp, paid, seen, runs, changes, mixed>>

(***************************************************************************)
(* The specification: the reload of a new workspace has just been set.     *)
(***************************************************************************)
Init ==
  /\ balance = 0
  /\ reload = [enabled |-> TRUE, claimed |-> FALSE, failures |-> 0, retry |-> "none"]
  /\ topUp = [p \in Payments |-> [state |-> "none", remaining |-> 0]]
  /\ paid = [p \in Payments |-> "none"]
  /\ seen = {}
  /\ proc = [c \in Procs |-> Free]
  /\ runs = 0 /\ changes = 0 /\ mixed = FALSE /\ faults = 0

Step(c) ==
  \/ Insert(c) \/ Add(c)
  \/ ReadBalance(c) \/ Commit(c)
  \/ Claim(c) \/ ChargeCard(c) \/ Declined(c) \/ Release(c) \/ Fail(c)

Next ==
  \/ Checkout
  \/ \E c \in Procs, p \in Payments : Deliver(c, p)
  \/ \E p \in Payments : Lapse(p)
  \/ \E c \in Procs : RecordUsage(c) \/ GetBalance(c) \/ Sweep(c)
  \/ \E c \in Procs : Step(c) \/ TopUpThrows(c) \/ Crash(c)
  \/ BackoffPasses
  \/ \E enabled \in BOOLEAN : SetAutoReload(enabled)

Spec == Init /\ [][Next]_vars

\* What a process began goes on until it dies, the sweep and the clock keep going,
\* and Stripe delivers the event of a checkout.
Fairness ==
  /\ \A c \in Procs : WF_vars(Step(c))
  /\ WF_vars(\E c \in Procs : Sweep(c)) /\ WF_vars(BackoffPasses)
  /\ \A p \in Payments : WF_vars(\E c \in Procs : Deliver(c, p))

FairSpec == Spec /\ Fairness

(***************************************************************************)
(* Properties.                                                             *)
(***************************************************************************)

\* Every variable has the shape of its column or of its local variables.
TypeOK ==
  /\ balance \in Nat
  /\ reload \in [enabled : BOOLEAN, claimed : BOOLEAN, failures : Nat,
                 retry : {"none", "waiting", "due"}]
  /\ topUp \in [Payments -> [state : {"none", "live", "lapsed"}, remaining : Int]]
  /\ paid \in [Payments -> {"none", "checkout", "auto"}]
  /\ seen \subseteq Payments
  /\ proc \in [Procs -> [at : {"idle", "balance", "commit", "insert", "add", "claim", "charge",
                               "release", "failed"},
                         payment : 0..MaxPayments, auto : BOOLEAN, cost : Nat,
                         stale : SUBSET Payments, forfeit : Int, current : Nat,
                         enabled : BOOLEAN, failures : Nat]]
  /\ runs \in Nat /\ changes \in Nat /\ mixed \in BOOLEAN /\ faults \in Nat

\* The balance is never less than nothing and never more than what was paid:
\* however webhooks are repeated, runs and expiries write over each other and
\* processes die, no payment is credited twice.
NeverMoreThanPaid ==
  0 <= balance /\ balance <= Amount * Cardinality({p \in Payments : paid[p] # "none"})

\* As long as no two changes overlapped and nothing failed, the balance is what the
\* ledger has left of the top-ups: debits, write-downs and expiries agree.
LedgerMatches == ~mixed /\ faults = 0 /\ Changing = {} => balance = Left(Payments)

\* The processes that hold the claim of the reload.
Reloading == {c \in Procs : proc[c].auto}

\* The card is charged under a claim, and the claim is one process's: runs that cross
\* the threshold together, the sweep, and people who set the reload while it is under
\* way, never have two charges in flight.
OneReload ==
  /\ Reloading # {} => reload.claimed
  /\ \A c, d \in Reloading : c = d

\* A payment is credited, unless a process died with it: the event of a checkout
\* credits it, a reload credits what it charged.
PaidIsCredited ==
  \A p \in Payments : paid[p] # "none" ~> (topUp[p].state # "none" \/ faults > 0)

\* A reload is over in the end: its claim released, and no retry outstanding, because
\* it succeeded, or because its last attempt or a person disabled it.
ReloadEnds ==
  (reload.claimed \/ reload.retry # "none")
    ~> (~reload.claimed /\ (reload.retry = "none" \/ ~reload.enabled)) \/ faults > 0

\* Two runs that cross the threshold in the same moment do not charge twice: after an
\* automatic charge, the next is made only while the balance is at or below the
\* threshold again.
NoDoubleCharge ==
  [][\A p, q \in Payments :
       paid[q] = "auto" /\ paid[p] = "none" /\ paid'[p] = "auto" => balance <= Threshold]_vars
=============================================================================
