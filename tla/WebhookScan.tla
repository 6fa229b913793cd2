----------------------------- MODULE WebhookScan -----------------------------
(***************************************************************************)
(* How activity events become deliveries of one webhook subscription       *)
(* (scan() and the loss audit of                                           *)
(* src/apps/api/src/webhooks/webhooks.service.ts).                         *)
(*                                                                         *)
(* An event is written in the transaction that causes it, and carries the  *)
(* START time of that transaction: it becomes visible later, behind events *)
(* that are visible already.  A scan therefore reads again a window behind *)
(* its cursor, Lookback long, and leaves out what is queued.  It reads,    *)
(* inserts and moves the cursor in three statements, and passes of several *)
(* replicas, and of one replica whose last pass is not over, overlap.  An  *)
(* event whose transaction was open for longer than the window may never   *)
(* be read: the audit reports it.                                          *)
(*                                                                         *)
(* The subscription is made at time 0; only events that it asks for are    *)
(* modelled.                                                               *)
(***************************************************************************)
EXTENDS Naturals, FiniteSets

CONSTANTS
  Events,      \* activity events, numbers in the order of their ids
  Scans,       \* scan passes in flight at once
  Batch,       \* LIMIT of a scan
  Lookback,    \* WEBHOOK_SCAN_LOOKBACK_SECONDS
  AuditBatch,  \* LIMIT of an audit
  AuditSpan,   \* AUDIT_HOURS, in the unit of the clock
  MaxTime      \* bound on the clock

ASSUME EventsAssumption == Events \subseteq Nat /\ IsFiniteSet(Events)
ASSUME LimitsAssumption == {Batch, AuditBatch} \subseteq Nat \ {0} /\ {Lookback, AuditSpan} \subseteq Nat

VARIABLES
  now,       \* the clock of the database
  event,     \* each event: its transaction, its created_at, how long that was open
  cursor,    \* cursor_at of the subscription
  state,     \* "active", "paused" (its owner is no admin) or "disabled"
  queued,    \* the events with a delivery, unique by (subscription, event)
  scan,      \* what each scan pass has in hand
  reported   \* the events an audit has reported lost

vars == <<now, event, cursor, state, queued, scan, reported>>

States == {"active", "paused", "disabled"}

NoScan == [at |-> "idle", rows |-> {}, last |-> 0]

Committed == {e \in Events : event[e].tx = "committed"}

\* Mutant: the cursor itself, as before the window was introduced.
FloorAtCursor == cursor

\* GREATEST(cursor_at - lookback, created_at).
Floor == IF cursor > Lookback THEN cursor - Lookback ELSE 0

(***************************************************************************)
(* The transactions that write events, the clock, the people.              *)
(***************************************************************************)
TimePasses ==
  /\ now < MaxTime
  /\ now' = now + 1
  /\ UNCHANGED <<event, cursor, state, queued, scan, reported>>

\* A transaction begins: its start is what created_at defaults to.
Begin(e) ==
  /\ event[e].tx = "none"
  /\ event' = [event EXCEPT ![e] = [tx |-> "open", at |-> now, open |-> 0]]
  /\ UNCHANGED <<now, cursor, state, queued, scan, reported>>

\* It commits, and its event is visible.
CommitEvent(e) ==
  /\ event[e].tx = "open"
  /\ event' = [event EXCEPT ![e].tx = "committed", ![e].open = now - event[e].at]
  /\ UNCHANGED <<now, cursor, state, queued, scan, reported>>

\* The owner is demoted, an admin takes over, someone disables the webhook or
\* enables it again (update()).  The cursor stays.
SetState(s) ==
  /\ state # s
  /\ state' = s
  /\ UNCHANGED <<now, event, cursor, queued, scan, reported>>

(***************************************************************************)
(* A scan pass.                                                            *)
(***************************************************************************)

\* allSubscriptions() returns the subscription when it is enabled and its owner is
\* an admin.
StartScan(s) ==
  /\ scan[s].at = "idle"
  /\ state = "active"
  /\ scan' = [scan EXCEPT ![s].at = "read"]
  /\ UNCHANGED <<now, event, cursor, state, queued, reported>>

Earlier(d, e) ==
  \/ event[d].at < event[e].at
  \/ event[d].at = event[e].at /\ d < e

\* Mutant: what is queued is read again.
VisibleAgain == {e \in Committed : event[e].at > Floor}

\* Committed, past the floor, and not queued for this subscription.
Visible == {e \in Committed : event[e].at > Floor /\ e \notin queued}

\* ORDER BY created_at, id LIMIT n.
Oldest(S, n) == {e \in S : Cardinality({d \in S : Earlier(d, e)}) < n}

\* The first statement; with nothing to queue the pass is over.
ReadEvents(s) ==
  LET rows == Oldest(Visible, Batch)
  IN /\ scan[s].at = "read"
     /\ \/ /\ rows = {}
           /\ scan' = [scan EXCEPT ![s] = NoScan]
        \/ \E r \in rows :
             /\ \A e \in rows : event[e].at <= event[r].at
             /\ scan' = [scan EXCEPT ![s] =
                           [at |-> "insert", rows |-> rows, last |-> event[r].at]]
     /\ UNCHANGED <<now, event, cursor, state, queued, reported>>

\* The second: INSERT ... ON CONFLICT DO NOTHING.
InsertDeliveries(s) ==
  /\ scan[s].at = "insert"
  /\ queued' = queued \cup scan[s].rows
  /\ scan' = [scan EXCEPT ![s].at = "cursor"]
  /\ UNCHANGED <<now, event, cursor, state, reported>>

\* The third: the cursor moves on to the created_at of the last row, never back.
MoveCursor(s) ==
  /\ scan[s].at = "cursor"
  /\ cursor' = IF scan[s].last > cursor THEN scan[s].last ELSE cursor
  /\ scan' = [scan EXCEPT ![s] = NoScan]
  /\ UNCHANGED <<now, event, state, queued, reported>>

\* The process dies or a statement throws: what was inserted stays.
ScanDies(s) ==
  /\ scan[s].at # "idle"
  /\ scan' = [scan EXCEPT ![s] = NoScan]
  /\ UNCHANGED <<now, event, cursor, state, queued, reported>>

(***************************************************************************)
(* The audit.                                                              *)
(***************************************************************************)

\* It is too far behind the floor for the audit to look at.
Overrun(e) == event[e].at + Lookback + AuditSpan <= cursor

\* Mutant: an event exactly at the floor is neither read nor reported.
BehindBelow ==
  {e \in Committed : event[e].at + Lookback < cursor /\ ~Overrun(e) /\ e \notin queued}

\* Committed, behind the floor, but not too far, and never queued.
Behind ==
  {e \in Committed : event[e].at + Lookback <= cursor /\ ~Overrun(e) /\ e \notin queued}

\* ORDER BY created_at LIMIT n, ties in any order.
Lost(rows) ==
  /\ \A e \in rows, d \in Behind \ rows : event[e].at <= event[d].at
  /\ Cardinality(rows) <= AuditBatch
  /\ rows = Behind \/ Cardinality(rows) = AuditBatch

\* auditBehindFloor(), reportLost(): of every enabled subscription, also of a paused
\* one.  The limit comes before those that were reported are left out.
Audit ==
  /\ state # "disabled"
  /\ \E rows \in SUBSET Behind : Lost(rows) /\ reported' = reported \cup rows
  /\ UNCHANGED <<now, event, cursor, state, queued, scan>>

(***************************************************************************)
(* The specification.                                                      *)
(***************************************************************************)
Init ==
  /\ now = 1
  /\ event = [e \in Events |-> [tx |-> "none", at |-> 0, open |-> 0]]
  /\ cursor = 0
  /\ state = "active"
  /\ queued = {}
  /\ scan = [s \in Scans |-> NoScan]
  /\ reported = {}

Step(s) == ReadEvents(s) \/ InsertDeliveries(s) \/ MoveCursor(s)

Next ==
  \/ TimePasses
  \/ \E e \in Events : Begin(e) \/ CommitEvent(e)
  \/ \E s \in States : SetState(s)
  \/ \E s \in Scans : StartScan(s) \/ Step(s) \/ ScanDies(s)
  \/ Audit

Spec == Init /\ [][Next]_vars

\* The timer keeps starting scans, and audits follow; a pass that is under way goes
\* on, and not every pass dies before its next statement.
Fairness ==
  /\ \A s \in Scans : WF_vars(StartScan(s))
  /\ \A s \in Scans : SF_vars(ReadEvents(s)) /\ SF_vars(InsertDeliveries(s))
                      /\ SF_vars(MoveCursor(s))
  /\ WF_vars(Audit)

FairSpec == Spec /\ Fairness

(***************************************************************************)
(* Properties.                                                             *)
(***************************************************************************)

\* Every variable has the shape of its column or of its local variables.
TypeOK ==
  /\ now \in Nat
  /\ event \in [Events -> [tx : {"none", "open", "committed"}, at : Nat, open : Nat]]
  /\ cursor \in Nat
  /\ state \in States
  /\ queued \subseteq Events
  /\ scan \in [Scans -> [at : {"idle", "read", "insert", "cursor"},
                         rows : SUBSET Events, last : Nat]]
  /\ reported \subseteq Events

\* The transaction of the event was open for less than the window.
Timely(e) == event[e].tx = "committed" /\ event[e].open < Lookback

\* The cursor never leaves behind an event that became visible within the window,
\* whatever ties the limit cuts through, and however scans that read before it was
\* visible move the cursor after.
NothingFallsBehind == \A e \in Events : Timely(e) /\ e \notin queued => event[e].at > Floor

\* Such an event is queued in the end, unless the webhook stays paused or disabled.
TimelyIsQueued == <>[](state = "active") => \A e \in Events : Timely(e) ~> e \in queued

\* The audit always has AuditBatch other events to report that are as old.
Hidden(e) == Cardinality({d \in Behind \ {e} : event[d].at <= event[e].at}) >= AuditBatch

\* And every event is: one whose transaction outlived the window is queued late, or an
\* audit reports it, unless older losses fill the audit's limit for ever.  Only one that
\* the cursor passed by more than the audit's span may be neither: lost when the webhook
\* was disabled for longer than that, or when its transaction was open for as long.
QueuedOrReported ==
  \A e \in Events :
    <>[](state = "active" /\ ~Hidden(e))
      => e \in Committed ~> e \in queued \cup reported \/ Overrun(e)
=============================================================================
