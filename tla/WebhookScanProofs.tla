--------------------------- MODULE WebhookScanProofs ---------------------------
(***************************************************************************)
(* The cursor of a webhook never leaves a timely event behind, for every   *)
(* number of events and of overlapping scans, every limit and every        *)
(* window.                                                                 *)
(***************************************************************************)
EXTENDS WebhookScan, FiniteSetTheorems, TLAPS

\* created_at is not in the future, and after the subscription was made.
TimesInv ==
  /\ cursor <= now /\ now > 0
  /\ \A e \in Events : event[e].at <= now /\ (event[e].tx # "none" => event[e].at > 0)

\* A pass that is about to move the cursor to `last` leaves nothing timely behind
\* that it does not queue: what it did not read was beyond the limit, and so not
\* before `last`, or became visible since, and so within the window of it.
LeavesNothing(s) ==
  \A e \in Events :
    Timely(e) /\ e \notin queued /\ e \notin scan[s].rows => event[e].at + Lookback > scan[s].last

PassInv(s) ==
  /\ scan[s].at \in {"insert", "cursor"} => scan[s].last <= now /\ LeavesNothing(s)
  /\ scan[s].at = "cursor" => scan[s].rows \subseteq queued

ScanInv == TypeOK /\ TimesInv /\ (\A s \in Scans : PassInv(s)) /\ NothingFallsBehind

\* The floor is the window behind the cursor.
LEMMA FloorFacts ==
  ASSUME cursor \in Nat
  PROVE  /\ Floor \in Nat
         /\ \A n \in Nat : n > 0 => (n > Floor <=> n + Lookback > cursor)
BY LimitsAssumption DEF Floor

LEMMA InitScan == Init => ScanInv
BY DEF Init, ScanInv, TypeOK, States, NoScan, TimesInv, PassInv, NothingFallsBehind, Timely

LEMMA TimePassesScan == ASSUME ScanInv, TimePasses PROVE ScanInv'
<1>1. TypeOK' /\ now' = now + 1
  BY DEF ScanInv, TypeOK, TimePasses
<1>2. TimesInv'
  BY <1>1 DEF ScanInv, TypeOK, TimePasses, TimesInv
<1>3. ASSUME NEW s \in Scans PROVE PassInv(s)'
  BY <1>1 DEF ScanInv, TypeOK, TimePasses, PassInv, LeavesNothing, Timely
<1>4. NothingFallsBehind'
  BY DEF ScanInv, TimePasses, NothingFallsBehind, Timely, Floor
<1> QED
  BY <1>1, <1>2, <1>3, <1>4 DEF ScanInv

\* A transaction that begins commits nothing: no event becomes timely.
LEMMA BeginScan == ASSUME NEW e \in Events, ScanInv, Begin(e) PROVE ScanInv'
<1>1. TypeOK'
  BY DEF ScanInv, TypeOK, TimesInv, Begin
<1>2. /\ event' = [event EXCEPT ![e] = [tx |-> "open", at |-> now, open |-> 0]]
      /\ event \in [Events -> [tx : {"none", "open", "committed"}, at : Nat, open : Nat]]
      /\ now \in Nat
  BY DEF ScanInv, TypeOK, Begin
<1>3. \A d \in Events : Timely(d)' => Timely(d) /\ event'[d] = event[d]
  BY <1>2 DEF Timely
<1>4. TimesInv'
  BY <1>2 DEF ScanInv, Begin, TimesInv
<1>5. ASSUME NEW s \in Scans PROVE PassInv(s)'
  BY <1>3 DEF ScanInv, Begin, PassInv, LeavesNothing
<1>6. NothingFallsBehind'
  BY <1>3 DEF ScanInv, Begin, NothingFallsBehind, Floor
<1> QED
  BY <1>1, <1>4, <1>5, <1>6 DEF ScanInv

\* An event that becomes visible in time is within the window of now, and no cursor,
\* and no pass, is ahead of now.
LEMMA CommitScan == ASSUME NEW e \in Events, ScanInv, CommitEvent(e) PROVE ScanInv'
<1>1. /\ event' = [event EXCEPT ![e].tx = "committed", ![e].open = now - event[e].at]
      /\ event \in [Events -> [tx : {"none", "open", "committed"}, at : Nat, open : Nat]]
      /\ event[e].tx = "open" /\ now \in Nat /\ event[e].at <= now /\ cursor \in Nat
      /\ UNCHANGED <<now, cursor, queued, scan>>
  BY DEF ScanInv, TypeOK, TimesInv, CommitEvent
<1>2. now - event[e].at \in Nat
  BY <1>1
<1>3. TypeOK'
  <2>1. event' \in [Events -> [tx : {"none", "open", "committed"}, at : Nat, open : Nat]]
    BY <1>1, <1>2
  <2> QED
    BY <2>1 DEF ScanInv, TypeOK, CommitEvent
<1>4. /\ \A d \in Events : event'[d].at = event[d].at /\ event[d].at \in Nat
      /\ \A d \in Events : d # e => event'[d] = event[d]
      /\ event'[e].open = now - event[e].at
  BY <1>1
<1>5. TimesInv'
  BY <1>1, <1>4 DEF ScanInv, TimesInv
<1>6. Timely(e)' => event'[e].at + Lookback > now
  BY <1>1, <1>2, <1>4, LimitsAssumption DEF Timely
<1>7. ASSUME NEW s \in Scans PROVE PassInv(s)'
  <2>1. scan[s].last \in Nat
    BY DEF ScanInv, TypeOK
  <2>2. ASSUME scan[s].at \in {"insert", "cursor"}, NEW d \in Events, Timely(d)',
               d \notin queued, d \notin scan[s].rows
        PROVE  event'[d].at + Lookback > scan[s].last
    <3>1. CASE d = e
      BY <1>1, <1>4, <1>6, <2>1, <2>2, <3>1, LimitsAssumption DEF ScanInv, PassInv
    <3>2. CASE d # e
      BY <1>4, <2>2, <3>2 DEF ScanInv, PassInv, LeavesNothing, Timely
    <3> QED
      BY <3>1, <3>2
  <2> QED
    BY <1>1, <2>2 DEF ScanInv, PassInv, LeavesNothing
<1>8. NothingFallsBehind'
  <2>1. ASSUME NEW d \in Events, Timely(d)', d \notin queued PROVE event'[d].at > Floor
    <3>1. CASE d = e
      <4>1. event[e].at > 0 /\ cursor <= now
        BY <1>1 DEF ScanInv, TimesInv
      <4>2. event[e].at + Lookback > cursor
        BY <1>1, <1>4, <1>6, <2>1, <3>1, <4>1, LimitsAssumption
      <4> QED
        BY <1>1, <1>4, <3>1, <4>1, <4>2, FloorFacts
    <3>2. CASE d # e
      BY <1>4, <2>1, <3>2 DEF ScanInv, NothingFallsBehind, Timely
    <3> QED
      BY <3>1, <3>2
  <2>2. Floor' = Floor
    BY <1>1 DEF Floor
  <2> QED
    BY <1>1, <2>1, <2>2 DEF NothingFallsBehind
<1> QED
  BY <1>3, <1>5, <1>7, <1>8 DEF ScanInv

\* Of the oldest of a set, none is left out for a later one.
LEMMA OldestFirst ==
  ASSUME event \in [Events -> [tx : {"none", "open", "committed"}, at : Nat, open : Nat]],
         NEW S \in SUBSET Events, NEW n \in Nat,
         NEW r \in Oldest(S, n), NEW e \in S \ Oldest(S, n)
  PROVE  event[r].at <= event[e].at
<1> DEFINE Before(x) == {d \in S : Earlier(d, x)}
<1> SUFFICES ASSUME event[e].at < event[r].at PROVE FALSE
  BY DEF Oldest
<1>1. Before(e) \subseteq Before(r)
  <2>1. \A d \in S : event[d].at \in Nat
    OBVIOUS
  <2>2. r \in S /\ e \in S
    BY DEF Oldest
  <2>3. ASSUME NEW d \in S, Earlier(d, e) PROVE event[d].at < event[r].at
    BY <2>1, <2>2, <2>3 DEF Earlier
  <2> QED
    BY <2>3 DEF Earlier
<1>2. IsFiniteSet(S)
  BY FS_Subset, EventsAssumption
<1>3. IsFiniteSet(Before(r)) /\ IsFiniteSet(Before(e))
  BY <1>2, FS_Subset
<1>4. Cardinality(Before(e)) <= Cardinality(Before(r))
  BY <1>1, <1>3, FS_Subset
<1>5. Cardinality(Before(e)) \in Nat /\ Cardinality(Before(r)) \in Nat
  BY <1>3, FS_CardinalityType
<1>6. Cardinality(Before(r)) < n /\ ~(Cardinality(Before(e)) < n)
  BY DEF Oldest
<1> QED
  BY <1>4, <1>5, <1>6

\* What a pass reads is not ahead of now, and what it does not read it leaves for
\* reasons that stay good.
LEMMA ReadScan == ASSUME NEW s \in Scans, ScanInv, ReadEvents(s) PROVE ScanInv'
<1> DEFINE rows == Oldest(Visible, Batch)
<1>1. Batch \in Nat /\ Lookback \in Nat
  BY LimitsAssumption
<1>2. rows \subseteq Visible /\ Visible \subseteq Events
  BY DEF Oldest, Visible, Committed
<1>3. UNCHANGED <<now, event, cursor, state, queued, reported>>
  BY DEF ReadEvents
<1>4. PassInv(s)' /\ TypeOK' /\ \A u \in Scans : u # s => scan'[u] = scan[u]
  <2>1. CASE scan' = [scan EXCEPT ![s] = NoScan]
    BY <1>3, <2>1 DEF ScanInv, TypeOK, NoScan, PassInv
  <2>2. ASSUME NEW r \in rows, \A e \in rows : event[e].at <= event[r].at,
               scan' = [scan EXCEPT ![s] =
                         [at |-> "insert", rows |-> rows, last |-> event[r].at]]
        PROVE  PassInv(s)' /\ TypeOK' /\ \A u \in Scans : u # s => scan'[u] = scan[u]
    <3>1. r \in Events /\ event[r].at \in Nat /\ event[r].at <= now
      BY <1>2, <2>2 DEF ScanInv, TypeOK, TimesInv
    <3>2. /\ scan \in [Scans -> [at : {"idle", "read", "insert", "cursor"},
                                 rows : SUBSET Events, last : Nat]]
          /\ scan'[s] = [at |-> "insert", rows |-> rows, last |-> event[r].at]
      BY <2>2 DEF ScanInv, TypeOK
    <3>3. ASSUME NEW e \in Events, Timely(e), e \notin queued, e \notin rows
          PROVE  event[e].at + Lookback > event[r].at
      <4>1. event[e].at > Floor /\ e \in Committed
        BY <3>3 DEF ScanInv, NothingFallsBehind, Timely, Committed
      <4>2. e \in Visible \ rows
        BY <3>3, <4>1 DEF Visible
      <4>3. event[r].at <= event[e].at
        BY <1>1, <1>2, <2>2, <4>2, OldestFirst DEF ScanInv, TypeOK
      <4>4. Lookback > 0 /\ event[e].at \in Nat
        BY <1>1, <3>3 DEF Timely, ScanInv, TypeOK
      <4> QED
        BY <1>1, <3>1, <4>3, <4>4
    <3>4. scan' \in [Scans -> [at : {"idle", "read", "insert", "cursor"},
                              rows : SUBSET Events, last : Nat]]
      BY <1>2, <2>2, <3>1, <3>2
    <3>5. TypeOK'
      BY <1>3, <3>4 DEF ScanInv, TypeOK
    <3>6. PassInv(s)'
      BY <1>3, <3>1, <3>2, <3>3 DEF PassInv, LeavesNothing, Timely
    <3> QED
      BY <2>2, <3>2, <3>5, <3>6
  <2> QED
    BY <2>1, <2>2 DEF ReadEvents
<1>5. ASSUME NEW u \in Scans PROVE PassInv(u)'
  BY <1>3, <1>4 DEF ScanInv, PassInv, LeavesNothing, Timely
<1>6. TimesInv' /\ NothingFallsBehind'
  BY <1>3 DEF ScanInv, TimesInv, NothingFallsBehind, Timely, Floor
<1> QED
  BY <1>4, <1>5, <1>6 DEF ScanInv

LEMMA InsertScan == ASSUME NEW s \in Scans, ScanInv, InsertDeliveries(s) PROVE ScanInv'
<1>1. /\ UNCHANGED <<now, event, cursor, state, reported>>
      /\ queued \subseteq queued' /\ scan[s].rows \subseteq queued'
      /\ scan[s].at = "insert" /\ scan' = [scan EXCEPT ![s].at = "cursor"]
  BY DEF InsertDeliveries
<1>2. TypeOK'
  <2>1. /\ scan' \in [Scans -> [at : {"idle", "read", "insert", "cursor"},
                                rows : SUBSET Events, last : Nat]]
        /\ scan[s].rows \subseteq Events
    BY <1>1 DEF ScanInv, TypeOK
  <2> QED
    BY <2>1 DEF ScanInv, TypeOK, InsertDeliveries
<1>3. \A u \in Scans : /\ scan'[u].rows = scan[u].rows /\ scan'[u].last = scan[u].last
                       /\ u # s => scan'[u] = scan[u]
  BY <1>1 DEF ScanInv, TypeOK
<1>4. ASSUME NEW u \in Scans PROVE PassInv(u)'
  <2>1. LeavesNothing(u) => LeavesNothing(u)'
    BY <1>1, <1>3 DEF LeavesNothing, Timely
  <2> QED
    BY <1>1, <1>3, <2>1 DEF ScanInv, PassInv
<1>5. TimesInv' /\ NothingFallsBehind'
  BY <1>1 DEF ScanInv, TimesInv, NothingFallsBehind, Timely, Floor
<1> QED
  BY <1>2, <1>4, <1>5 DEF ScanInv

\* The cursor moves: what the pass queued is behind it, and of the rest the pass left
\* nothing behind.
LEMMA MoveScan == ASSUME NEW s \in Scans, ScanInv, MoveCursor(s) PROVE ScanInv'
<1>1. /\ UNCHANGED <<now, event, state, queued, reported>>
      /\ scan[s].at = "cursor" /\ scan' = [scan EXCEPT ![s] = NoScan]
      /\ cursor' = scan[s].last \/ cursor' = cursor
  BY DEF MoveCursor
<1>2. /\ scan[s].last \in Nat /\ scan[s].last <= now /\ LeavesNothing(s)
      /\ scan[s].rows \subseteq queued
  BY <1>1 DEF ScanInv, TypeOK, PassInv
<1>3. TypeOK'
  BY <1>1, <1>2 DEF ScanInv, TypeOK, NoScan
<1>4. TimesInv'
  BY <1>1, <1>2 DEF ScanInv, TimesInv
<1>5. ASSUME NEW u \in Scans PROVE PassInv(u)'
  BY <1>1 DEF ScanInv, TypeOK, NoScan, PassInv, LeavesNothing, Timely
<1>6. ASSUME NEW e \in Events, Timely(e), e \notin queued PROVE event[e].at > Floor'
  <2>1. event[e].at \in Nat /\ event[e].at > 0
    BY <1>6 DEF ScanInv, TypeOK, TimesInv, Timely
  <2>2. CASE cursor' = cursor
    BY <1>6, <2>2 DEF ScanInv, NothingFallsBehind, Floor
  <2>3. CASE cursor' = scan[s].last
    <3>1. event[e].at + Lookback > cursor'
      BY <1>2, <1>6, <2>3 DEF LeavesNothing
    <3> QED
      BY <1>2, <2>1, <2>3, <3>1, LimitsAssumption DEF Floor
  <2> QED
    BY <1>1, <2>2, <2>3
<1>7. NothingFallsBehind'
  BY <1>1, <1>6 DEF NothingFallsBehind, Timely
<1> QED
  BY <1>3, <1>4, <1>5, <1>7 DEF ScanInv

\* A pass that begins, or dies, has read nothing yet.
LEMMA IdleScan ==
  ASSUME NEW s \in Scans, ScanInv, StartScan(s) \/ ScanDies(s) PROVE ScanInv'
<1>1. /\ UNCHANGED <<now, event, cursor, state, queued, reported>>
      /\ scan' = [scan EXCEPT ![s].at = "read"] \/ scan' = [scan EXCEPT ![s] = NoScan]
  BY DEF StartScan, ScanDies
<1>2. /\ scan' \in [Scans -> [at : {"idle", "read", "insert", "cursor"},
                              rows : SUBSET Events, last : Nat]]
      /\ scan'[s].at \in {"idle", "read"}
      /\ \A u \in Scans : u # s => scan'[u] = scan[u]
  BY <1>1 DEF ScanInv, TypeOK, NoScan
<1>3. TypeOK'
  BY <1>1, <1>2 DEF ScanInv, TypeOK
<1>4. ASSUME NEW u \in Scans PROVE PassInv(u)'
  BY <1>1, <1>2 DEF ScanInv, PassInv, LeavesNothing, Timely
<1>5. TimesInv' /\ NothingFallsBehind'
  BY <1>1 DEF ScanInv, TimesInv, NothingFallsBehind, Timely, Floor
<1> QED
  BY <1>3, <1>4, <1>5 DEF ScanInv

\* People, the audit, and nothing at all, do not touch what the invariant is about.
LEMMA OthersScan ==
  ASSUME ScanInv, (\E s \in States : SetState(s)) \/ Audit \/ UNCHANGED vars PROVE ScanInv'
<1>1. UNCHANGED <<now, event, cursor, queued, scan>>
  BY DEF SetState, Audit, vars
<1>2. state' \in States /\ reported' \subseteq Events
  BY DEF ScanInv, TypeOK, SetState, Audit, vars, Behind, Committed
<1>3. TypeOK'
  BY <1>1, <1>2 DEF ScanInv, TypeOK
<1> QED
  BY <1>1, <1>3 DEF ScanInv, TimesInv, PassInv, LeavesNothing, NothingFallsBehind, Timely, Floor

LEMMA NextScan == ScanInv /\ [Next]_vars => ScanInv'
<1> SUFFICES ASSUME ScanInv, [Next]_vars PROVE ScanInv'
  OBVIOUS
<1>1. CASE TimePasses
  BY <1>1, TimePassesScan
<1>2. CASE \E e \in Events : Begin(e) \/ CommitEvent(e)
  BY <1>2, BeginScan, CommitScan
<1>3. CASE \E s \in Scans : StartScan(s) \/ Step(s) \/ ScanDies(s)
  BY <1>3, IdleScan, ReadScan, InsertScan, MoveScan DEF Step
<1>4. CASE (\E s \in States : SetState(s)) \/ Audit \/ UNCHANGED vars
  BY <1>4, OthersScan
<1> QED
  BY <1>1, <1>2, <1>3, <1>4 DEF Next

LEMMA ScanInvariant == Spec => []ScanInv
  BY InitScan, NextScan, PTL DEF Spec

\* Every statement of a scan, the audit and people leave rows, cursor and passes of
\* the kind they hold.
THEOREM ScanTypeCorrect == Spec => []TypeOK
<1>1. ScanInv => TypeOK
  BY DEF ScanInv
<1> QED
  BY <1>1, ScanInvariant, PTL

\* An event whose transaction was open for less than the window is queued or ahead of
\* the floor of the next read, however many scans overlap and however small the limit.
THEOREM NothingTimelyFallsBehind == Spec => []NothingFallsBehind
<1>1. ScanInv => NothingFallsBehind
  BY DEF ScanInv
<1> QED
  BY <1>1, ScanInvariant, PTL
=============================================================================
