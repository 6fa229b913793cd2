--------------------------- MODULE WebhookFlushProofs ---------------------------
(***************************************************************************)
(* Deliveries are not given up early, are never taken back once settled,   *)
(* and are acknowledged again only for ticks that overlapped or died, for  *)
(* every number of deliveries, presses, ticks, attempts and overlaps.      *)
(***************************************************************************)
EXTENDS WebhookFlush, FiniteSetTheorems, TLAPS

\* A delivery that waits has an attempt left; one that is not there was never sent.
RowInv(d) ==
  /\ row[d].status = "pending" => row[d].attempts < MaxAttempts
  /\ row[d].status = "none" => row[d].attempts = 0 /\ sends[d] = 0 /\ acks[d] = 0
  /\ row[d].attempts <= sends[d]
  /\ row[d].status = "failed" => sends[d] >= MaxAttempts

\* The rows a tick has in hand are of the subscription, were inserted, and had no more
\* attempts than were made; each is in hand once.
PassInv(p) ==
  /\ \A r \in p.todo : r.id \in Events /\ row[r.id].status # "none" /\ r.attempts <= sends[r.id]
  /\ \A q, r \in p.todo : q.id = r.id => q = r
  /\ p.at \in {"send", "save", "unlock"} =>
       /\ p.id \in Events /\ row[p.id].status # "none"
       /\ p.attempts <= sends[p.id]
       /\ \A r \in p.todo : r.id # p.id
  /\ p.at = "save" => p.attempts + 1 <= sends[p.id]

\* A press writes the row of its delivery alone, and sends it once.
PressInv(p) ==
  /\ press[p] = "none" => row[p].status = "none"
  /\ press[p] \in {"send", "sentOk", "sentFailed"} => row[p].status = "pending"
  /\ press[p] = "send" => acks[p] = 0
  /\ press[p] \in {"sentOk", "sentFailed"} => row[p].attempts + 1 <= sends[p]
  /\ acks[p] <= 1

FlushInv ==
  /\ TypeOK
  /\ \A d \in Deliveries : RowInv(d)
  /\ \A t \in Ticks : PassInv(tick[t])
  /\ \A p \in Presses : PressInv(p)

LEMMA TickFacts ==
  /\ NoTick \in Pass /\ NoTick.at = "idle" /\ NoTick.todo = {}
  /\ \A todo \in SUBSET Read : Turning(todo) \in Pass
  /\ \A r \in Read, todo \in SUBSET Read : Sending(r, todo) \in Pass
<1>1. 0 \in 0..(MaxAttempts - 1) /\ NoDelivery \in Deliveries
  BY LimitsAssumption, DeliveriesAssumption DEF NoDelivery
<1> QED
  BY <1>1 DEF NoTick, Turning, Sending, Pass, Read

LEMMA InitFlush == Init => FlushInv
<1> SUFFICES ASSUME Init PROVE FlushInv
  OBVIOUS
<1>1. \A d \in Deliveries : row[d] \in Row
  BY LimitsAssumption DEF Init, Row
<1>2. TypeOK
  BY <1>1, TickFacts DEF Init, TypeOK
<1>3. \A d \in Deliveries : RowInv(d)
  BY LimitsAssumption DEF Init, RowInv
<1>4. \A t \in Ticks : PassInv(tick[t])
  BY TickFacts DEF Init, PassInv
<1>5. \A p \in Presses : PressInv(p)
  BY DEF Init, PressInv, Deliveries
<1> QED
  BY <1>2, <1>3, <1>4, <1>5 DEF FlushInv

\* Of a row that is written for an attempt that was made, what the invariant asks.
LEMMA OutcomeFacts ==
  ASSUME FlushInv, NEW d \in Deliveries, NEW n \in 1..MaxAttempts, n <= sends[d],
         NEW ok \in BOOLEAN, row[d].status # "none"
  PROVE  LET new == Outcome(d, n, ok)
         IN /\ new \in Row
            /\ new.attempts = n
            /\ new.status # "none"
            /\ new.status = "pending" => n < MaxAttempts /\ row[d].status = "pending"
            /\ new.status = "failed" => sends[d] >= MaxAttempts
            /\ ok => new.status = "ok"
            /\ row[d].status \in Settled => new.status \in Settled
<1>1. /\ row[d].status \in Settled \cup {"none", "pending"}
      /\ row[d].status = "failed" => sends[d] >= MaxAttempts
      /\ sends[d] \in Nat /\ MaxAttempts \in Nat \ {0}
  BY LimitsAssumption DEF FlushInv, TypeOK, RowInv, Row
<1> QED
  BY <1>1 DEF Outcome, RetryLeft, Settled, Row

\* What a tick has in hand stays right as long as rows stay and sends grow.
LEMMA PassStays ==
  ASSUME FlushInv, NEW p \in Pass, PassInv(p),
         \A d \in Deliveries : /\ row[d].status # "none" => row'[d].status # "none"
                               /\ sends'[d] \in Nat /\ sends[d] <= sends'[d]
  PROVE  PassInv(p)'
<1>1. \A d \in Deliveries : sends[d] \in Nat
  BY DEF FlushInv, TypeOK
<1>2. /\ p.id \in Deliveries /\ p.attempts \in Nat
      /\ \A r \in p.todo : r.id \in Deliveries /\ r.attempts \in Nat
  BY LimitsAssumption DEF Pass, Read
<1> QED
  BY <1>1, <1>2 DEF PassInv

\* The same of the ticks that take no part in a step.
LEMMA OthersStay ==
  ASSUME FlushInv, NEW t \in Ticks, \A u \in Ticks : u # t => tick'[u] = tick[u],
         \A d \in Deliveries : /\ row[d].status # "none" => row'[d].status # "none"
                               /\ sends'[d] \in Nat /\ sends[d] <= sends'[d]
  PROVE  \A u \in Ticks \ {t} : PassInv(tick[u])'
<1>1. SUFFICES ASSUME NEW u \in Ticks, u # t PROVE PassInv(tick[u])'
  OBVIOUS
<1>2. PICK p \in Pass : p = tick[u] /\ PassInv(p)
  BY DEF FlushInv, TypeOK
<1>3. PassInv(p)'
  BY <1>2, PassStays
<1>4. p = tick'[u]
  BY <1>1, <1>2
<1> QED
  BY <1>3, <1>4 DEF PassInv

\* A step of a tick that writes nothing but locks and its own variables.
LEMMA TickStep ==
  ASSUME FlushInv, NEW t \in Ticks, NEW q \in Pass, PassInv(q),
         tick' = [tick EXCEPT ![t] = q], UNCHANGED <<row, active, press, sends, acks>>,
         locked' \subseteq Deliveries, overlaps' \in Nat, crashes' \in Nat
  PROVE  FlushInv'
<1>1. TypeOK'
  BY DEF FlushInv, TypeOK
<1>2. \A d \in Deliveries : RowInv(d)'
  BY DEF FlushInv, RowInv
<1>3. \A u \in Ticks : PassInv(tick[u])'
  BY DEF FlushInv, TypeOK, PassInv
<1>4. \A p \in Presses : PressInv(p)'
  BY DEF FlushInv, PressInv
<1> QED
  BY <1>1, <1>2, <1>3, <1>4 DEF FlushInv

LEMMA TickType ==
  ASSUME FlushInv, NEW t \in Ticks
  PROVE  /\ tick[t] \in Pass /\ PassInv(tick[t])
         /\ tick[t].todo \subseteq Read
         /\ \A r \in tick[t].todo : r.id \in Deliveries /\ r.attempts \in 0..(MaxAttempts - 1)
         /\ tick[t].id \in Deliveries /\ tick[t].attempts \in 0..(MaxAttempts - 1)
         /\ tick[t].ok \in BOOLEAN
<1>1. tick[t] \in Pass /\ PassInv(tick[t])
  BY DEF FlushInv, TypeOK
<1> QED
  BY <1>1 DEF Pass, Read

LEMMA ReadDueFlush == ASSUME FlushInv, NEW t \in Ticks, ReadDue(t) PROVE FlushInv'
<1> DEFINE todo == {[id |-> e, attempts |-> row[e].attempts] : e \in Due}
<1>1. /\ tick' = [tick EXCEPT ![t] = Turning(todo)]
      /\ UNCHANGED <<row, active, locked, press, sends, acks, crashes>>
      /\ overlaps' \in {overlaps, overlaps + 1}
  BY DEF ReadDue
<1>2. ASSUME NEW e \in Due
      PROVE  /\ e \in Events /\ e \in Deliveries /\ row[e].status # "none"
             /\ row[e].attempts \in 0..(MaxAttempts - 1)
             /\ row[e].attempts <= sends[e]
  <2>1. e \in Deliveries /\ row[e].status = "pending" /\ row[e] \in Row /\ RowInv(e)
    BY DEF Due, Deliveries, FlushInv, TypeOK
  <2> QED
    BY <2>1, LimitsAssumption DEF Due, Row, RowInv
<1>3. \A r \in todo : /\ r \in Read
                      /\ r.id \in Events /\ row[r.id].status # "none" /\ r.attempts <= sends[r.id]
  BY <1>2 DEF Read
<1>4. \A r, s \in todo : r.id = s.id => r = s
  OBVIOUS
<1> HIDE DEF todo
<1>5. Turning(todo) \in Pass
  BY <1>3, TickFacts
<1>6. PassInv(Turning(todo))
  BY <1>3, <1>4 DEF PassInv, Turning
<1>7. locked' \subseteq Deliveries /\ overlaps' \in Nat /\ crashes' \in Nat
  BY <1>1 DEF FlushInv, TypeOK
<1> QED
  BY <1>1, <1>5, <1>6, <1>7, TickStep

LEMMA TryLockFlush ==
  ASSUME FlushInv, NEW t \in Ticks, NEW r \in tick[t].todo, NEW got \in BOOLEAN,
         TryLock(t, r, got)
  PROVE  FlushInv'
<1> DEFINE rest == tick[t].todo \ {r}
           q == IF got THEN Sending(r, rest) ELSE Turning(rest)
<1>1. /\ tick' = [tick EXCEPT ![t] = q]
      /\ UNCHANGED <<row, active, press, sends, acks, overlaps, crashes>>
      /\ locked' \in {locked, locked \cup {r.id}}
  BY DEF TryLock
<1>2. q \in Pass
  BY TickType, TickFacts
<1>3. PassInv(q)
  BY TickType DEF PassInv, Sending, Turning
<1>4. locked' \subseteq Deliveries
  BY <1>1, TickType DEF FlushInv, TypeOK
<1> HIDE DEF q
<1> QED
  BY <1>1, <1>2, <1>3, <1>4, TickStep DEF FlushInv, TypeOK

\* A tick ends, dies, or turns to its next delivery.
LEMMA TurnFlush ==
  ASSUME FlushInv, NEW t \in Ticks,
         TickEnds(t) \/ TickDies(t) \/ \E lands \in BOOLEAN : Unlock(t, lands)
  PROVE  FlushInv'
<1>1. CASE TickEnds(t) \/ TickDies(t)
  <2>1. PassInv(NoTick)
    BY TickFacts DEF PassInv
  <2>2. /\ tick' = [tick EXCEPT ![t] = NoTick]
        /\ UNCHANGED <<row, active, locked, press, sends, acks, overlaps>>
        /\ crashes' \in {crashes, crashes + 1}
    BY <1>1 DEF TickEnds, TickDies
  <2>3. locked' \subseteq Deliveries /\ overlaps' \in Nat /\ crashes' \in Nat
    BY <2>2 DEF FlushInv, TypeOK
  <2> QED
    BY <2>1, <2>2, <2>3, TickFacts, TickStep
<1>2. ASSUME NEW lands \in BOOLEAN, Unlock(t, lands) PROVE FlushInv'
  <2>1. /\ tick' = [tick EXCEPT ![t] = Turning(tick[t].todo)]
        /\ UNCHANGED <<row, active, press, sends, acks, overlaps, crashes>>
        /\ locked' \subseteq locked
    BY <1>2 DEF Unlock
  <2>2. Turning(tick[t].todo) \in Pass
    BY TickType, TickFacts
  <2>3. PassInv(Turning(tick[t].todo))
    BY TickType DEF PassInv, Turning
  <2>4. locked' \subseteq Deliveries
    BY <2>1 DEF FlushInv, TypeOK
  <2> QED
    BY <2>1, <2>2, <2>3, <2>4, TickStep DEF FlushInv, TypeOK
<1> QED
  BY <1>1, <1>2

\* An attempt: another send than was written of.
LEMMA SendFlush ==
  ASSUME FlushInv, NEW t \in Ticks, NEW ok \in BOOLEAN, Send(t, ok) PROVE FlushInv'
<1> DEFINE d == tick[t].id
<1>1. /\ tick[t].at = "send" /\ d \in Events /\ d \in Deliveries /\ d \notin Presses
      /\ row[d].status # "none"
      /\ tick' = [tick EXCEPT ![t].at = "save", ![t].ok = ok]
      /\ sends' = [sends EXCEPT ![d] = @ + 1]
      /\ acks' = [acks EXCEPT ![d] = @ + 1] \/ acks' = acks
      /\ UNCHANGED <<row, active, locked, press, overlaps, crashes>>
  BY TickType, DeliveriesAssumption DEF Send, Sent, PassInv
<1>2. /\ sends \in [Deliveries -> Nat] /\ acks \in [Deliveries -> Nat]
      /\ tick \in [Ticks -> Pass]
  BY DEF FlushInv, TypeOK
<1>3. /\ sends' \in [Deliveries -> Nat] /\ acks' \in [Deliveries -> Nat]
      /\ sends'[d] = sends[d] + 1
      /\ \A e \in Deliveries : /\ sends[e] <= sends'[e]
                               /\ e # d => sends'[e] = sends[e] /\ acks'[e] = acks[e]
  BY <1>1, <1>2
<1>4. /\ tick'[t] = [at |-> "save", todo |-> tick[t].todo, id |-> d,
                    attempts |-> tick[t].attempts, ok |-> ok]
      /\ tick' \in [Ticks -> Pass] /\ \A u \in Ticks : u # t => tick'[u] = tick[u]
  BY <1>1, <1>2 DEF Pass
<1>5. TypeOK'
  BY <1>1, <1>3, <1>4 DEF FlushInv, TypeOK
<1>6. ASSUME NEW e \in Deliveries PROVE RowInv(e)'
  <2>1. row[e].attempts \in Nat /\ sends[e] \in Nat /\ sends'[e] \in Nat /\ MaxAttempts \in Nat
    BY <1>2, <1>3, LimitsAssumption DEF FlushInv, TypeOK, Row
  <2> QED
    BY <1>1, <1>3, <2>1 DEF FlushInv, RowInv
<1>7. PassInv(tick[t])'
  <2>1. tick[t].attempts \in Nat /\ sends[d] \in Nat /\ tick[t].attempts <= sends[d]
    BY <1>1, <1>2, TickType, LimitsAssumption DEF PassInv
  <2>2. \A r \in tick[t].todo : /\ r.id \in Events /\ row[r.id].status # "none" /\ r.id # d
                                /\ r.attempts <= sends[r.id] /\ sends'[r.id] = sends[r.id]
    BY <1>1, <1>3, TickType DEF PassInv
  <2>3. \A q, r \in tick[t].todo : q.id = r.id => q = r
    BY TickType DEF PassInv
  <2> QED
    BY <1>1, <1>3, <1>4, <2>1, <2>2, <2>3 DEF PassInv
<1>8. \A u \in Ticks : PassInv(tick[u])'
  <2>1. \A u \in Ticks \ {t} : PassInv(tick[u])'
    <3>1. \A e \in Deliveries : /\ row[e].status # "none" => row'[e].status # "none"
                                /\ sends'[e] \in Nat /\ sends[e] <= sends'[e]
      <4>1. row' = row
        BY <1>1
      <4> QED
        BY <1>3, <4>1
    <3> HIDE DEF d
    <3> QED
      BY <1>4, <3>1, OthersStay
  <2> QED
    BY <1>7, <2>1
<1>9. \A p \in Presses : PressInv(p)'
  BY <1>1, <1>3 DEF FlushInv, PressInv, Deliveries
<1> QED
  BY <1>5, <1>6, <1>8, <1>9 DEF FlushInv

\* The row of an attempt that was made is written, by a tick or by a press.
LEMMA SaveFlush == ASSUME FlushInv, NEW t \in Ticks, Save(t) PROVE FlushInv'
<1> DEFINE d == tick[t].id
           new == Outcome(d, tick[t].attempts + 1, tick[t].ok)
<1>1. /\ tick[t].at = "save" /\ d \in Events /\ d \in Deliveries /\ d \notin Presses
      /\ row' = [row EXCEPT ![d] = new]
      /\ tick' = [tick EXCEPT ![t].at = "unlock"]
      /\ UNCHANGED <<active, locked, press, sends, acks, overlaps, crashes>>
      /\ row[d].status # "none" /\ tick[t].attempts + 1 <= sends[d]
  BY TickType, DeliveriesAssumption DEF Save, PassInv
<1>2. tick[t].attempts + 1 \in 1..MaxAttempts
  BY TickType, LimitsAssumption
<1>3. /\ new \in Row /\ new.attempts = tick[t].attempts + 1 /\ new.status # "none"
      /\ new.status = "pending" => new.attempts < MaxAttempts
      /\ new.status = "failed" => sends[d] >= MaxAttempts
  BY <1>1, <1>2, OutcomeFacts, TickType
<1> HIDE DEF new
<1>4. /\ row \in [Deliveries -> Row] /\ tick \in [Ticks -> Pass] /\ sends \in [Deliveries -> Nat]
  BY DEF FlushInv, TypeOK
<1>5. /\ row' \in [Deliveries -> Row] /\ row'[d] = new
      /\ \A e \in Deliveries : /\ e # d => row'[e] = row[e]
                               /\ row[e].status # "none" => row'[e].status # "none"
  BY <1>1, <1>3, <1>4
<1>6. /\ tick'[t] = [tick[t] EXCEPT !.at = "unlock"] /\ tick'[t] \in Pass
      /\ tick' \in [Ticks -> Pass] /\ \A u \in Ticks : u # t => tick'[u] = tick[u]
      /\ tick'[t].at = "unlock" /\ tick'[t].id = d /\ tick'[t].todo = tick[t].todo
      /\ tick'[t].attempts = tick[t].attempts
  BY <1>1, <1>4 DEF Pass
<1>7. TypeOK'
  BY <1>1, <1>5, <1>6 DEF FlushInv, TypeOK
<1>8. ASSUME NEW e \in Deliveries PROVE RowInv(e)'
  BY <1>1, <1>3, <1>5 DEF FlushInv, RowInv
<1>9. PassInv(tick[t])'
  <2>1. \A r \in tick[t].todo : /\ r.id \in Events /\ row[r.id].status # "none" /\ r.id # d
                                /\ r.attempts <= sends[r.id] /\ row'[r.id] = row[r.id]
    BY <1>1, <1>5, TickType DEF PassInv
  <2>2. /\ \A q, r \in tick[t].todo : q.id = r.id => q = r
        /\ tick[t].attempts <= sends[d] /\ row'[d].status # "none"
    BY <1>1, <1>5, TickType DEF PassInv
  <2> QED
    BY <1>1, <1>6, <2>1, <2>2 DEF PassInv
<1>10. \A u \in Ticks : PassInv(tick[u])'
  BY <1>1, <1>4, <1>5, <1>6, <1>9, OthersStay
<1>11. \A p \in Presses : PressInv(p)'
  BY <1>1, <1>5 DEF FlushInv, PressInv, Deliveries
<1> QED
  BY <1>7, <1>8, <1>10, <1>11 DEF FlushInv

\* A delivery that is not there yet is inserted: no tick has it in hand.
LEMMA InsertedFlush ==
  ASSUME FlushInv, NEW d \in Deliveries, row[d].status = "none", row' = Inserted(d),
         UNCHANGED <<active, locked, tick, sends, acks, overlaps, crashes>>
  PROVE  /\ row' \in [Deliveries -> Row]
         /\ row'[d] = [status |-> "pending", attempts |-> 0, due |-> TRUE]
         /\ \A e \in Deliveries : e # d => row'[e] = row[e]
         /\ \A e \in Deliveries : RowInv(e)'
         /\ \A t \in Ticks : PassInv(tick[t])'
<1>1. /\ row \in [Deliveries -> Row] /\ sends \in [Deliveries -> Nat] /\ acks \in [Deliveries -> Nat]
      /\ 0 \in 0..MaxAttempts /\ 0 < MaxAttempts
  BY LimitsAssumption DEF FlushInv, TypeOK
<1>2. [status |-> "pending", attempts |-> 0, due |-> TRUE] \in Row
  BY <1>1 DEF Row
<1>3. /\ row' \in [Deliveries -> Row]
      /\ row'[d] = [status |-> "pending", attempts |-> 0, due |-> TRUE]
      /\ \A e \in Deliveries : e # d => row'[e] = row[e]
  BY <1>1, <1>2 DEF Inserted
<1>4. \A e \in Deliveries : RowInv(e)'
  BY <1>1, <1>3 DEF FlushInv, RowInv
<1>5. ASSUME NEW t \in Ticks PROVE PassInv(tick[t])'
  <2>1. \A e \in Deliveries : row[e].status # "none" => row'[e].status # "none"
    BY <1>3
  <2>2. \A r \in tick[t].todo : r.id \in Deliveries
    BY TickType
  <2>3. tick[t].id \in Deliveries /\ PassInv(tick[t])
    BY TickType
  <2> QED
    BY <2>1, <2>2, <2>3 DEF PassInv
<1> QED
  BY <1>3, <1>4, <1>5

LEMMA QueueFlush == ASSUME FlushInv, NEW e \in Events, Queue(e) PROVE FlushInv'
<1>1. e \in Deliveries /\ e \notin Presses
  BY DeliveriesAssumption DEF Deliveries
<1>2. /\ row' \in [Deliveries -> Row]
      /\ \A d \in Deliveries : d # e => row'[d] = row[d]
      /\ \A d \in Deliveries : RowInv(d)'
      /\ \A t \in Ticks : PassInv(tick[t])'
  BY <1>1, InsertedFlush DEF Queue
<1>3. TypeOK'
  BY <1>2 DEF FlushInv, TypeOK, Queue
<1>4. \A p \in Presses : PressInv(p)'
  BY <1>1, <1>2 DEF FlushInv, PressInv, Queue, Deliveries
<1> QED
  BY <1>2, <1>3, <1>4 DEF FlushInv

LEMMA PressFlush == ASSUME FlushInv, NEW p \in Presses, Press(p) PROVE FlushInv'
<1>1. p \in Deliveries /\ row[p].status = "none" /\ acks[p] = 0 /\ press[p] = "none"
  BY DEF Deliveries, Press, FlushInv, PressInv, RowInv
<1>2. /\ row' \in [Deliveries -> Row]
      /\ row'[p] = [status |-> "pending", attempts |-> 0, due |-> TRUE]
      /\ \A d \in Deliveries : d # p => row'[d] = row[d]
      /\ \A d \in Deliveries : RowInv(d)'
      /\ \A t \in Ticks : PassInv(tick[t])'
  BY <1>1, InsertedFlush DEF Press
<1>3. TypeOK'
  BY <1>2 DEF FlushInv, TypeOK, Press
<1>4. press'[p] = "send" /\ \A q \in Presses : q # p => press'[q] = press[q]
  BY DEF FlushInv, TypeOK, Press
<1>5. ASSUME NEW q \in Presses PROVE PressInv(q)'
  <2>1. CASE q = p
    BY <1>1, <1>2, <1>4, <2>1 DEF PressInv, Press
  <2>2. CASE q # p
    BY <1>2, <1>4, <2>2 DEF PressInv, Press, FlushInv, Deliveries
  <2> QED
    BY <2>1, <2>2
<1> QED
  BY <1>2, <1>3, <1>5 DEF FlushInv

\* A back-off passes, the webhook is paused or resumed, a lock is dropped.
LEMMA OutsideFlush ==
  ASSUME FlushInv,
         \/ \E d \in Deliveries : FallsDue(d) \/ ConnectionCloses(d)
         \/ \E value \in BOOLEAN : SetActive(value)
  PROVE  FlushInv'
<1>1. /\ UNCHANGED <<tick, press, sends, acks, overlaps, crashes>>
      /\ active' \in BOOLEAN /\ locked' \subseteq Deliveries
  BY DEF FlushInv, TypeOK, FallsDue, ConnectionCloses, SetActive
<1>2. /\ row' \in [Deliveries -> Row]
      /\ \A d \in Deliveries : row'[d].status = row[d].status /\ row'[d].attempts = row[d].attempts
  <2>1. CASE row' = row
    BY <2>1 DEF FlushInv, TypeOK
  <2>2. ASSUME NEW d \in Deliveries, row' = [row EXCEPT ![d].due = TRUE]
        PROVE  /\ row' \in [Deliveries -> Row]
               /\ \A e \in Deliveries :
                    row'[e].status = row[e].status /\ row'[e].attempts = row[e].attempts
    BY <2>2 DEF FlushInv, TypeOK, Row
  <2> QED
    BY <2>1, <2>2 DEF FallsDue, ConnectionCloses, SetActive
<1>3. TypeOK'
  BY <1>1, <1>2 DEF FlushInv, TypeOK
<1>4. \A d \in Deliveries : RowInv(d)'
  BY <1>1, <1>2 DEF FlushInv, RowInv
<1>5. ASSUME NEW t \in Ticks PROVE PassInv(tick[t])'
  BY <1>1, <1>2, TickType DEF PassInv
<1>6. \A p \in Presses : PressInv(p)'
  BY <1>1, <1>2 DEF FlushInv, PressInv, Deliveries
<1> QED
  BY <1>3, <1>4, <1>5, <1>6 DEF FlushInv

LEMMA PressSendFlush ==
  ASSUME FlushInv, NEW p \in Presses, NEW ok \in BOOLEAN, PressSend(p, ok) PROVE FlushInv'
<1>1. /\ p \in Deliveries /\ press[p] = "send" /\ acks[p] = 0 /\ row[p].status = "pending"
      /\ sends' = [sends EXCEPT ![p] = @ + 1]
      /\ acks' = [acks EXCEPT ![p] = @ + 1] \/ acks' = acks
      /\ press' = [press EXCEPT ![p] = IF ok THEN "sentOk" ELSE "sentFailed"]
      /\ UNCHANGED <<row, active, locked, tick, overlaps, crashes>>
      /\ row[p].attempts <= sends[p] /\ row[p].attempts \in Nat
  BY LimitsAssumption DEF PressSend, Sent, FlushInv, PressInv, RowInv, TypeOK, Row, Deliveries
<1>2. /\ sends \in [Deliveries -> Nat] /\ acks \in [Deliveries -> Nat]
      /\ \A e \in Deliveries : row[e] \in Row
  BY DEF FlushInv, TypeOK
<1>3. /\ sends' \in [Deliveries -> Nat] /\ acks' \in [Deliveries -> Nat]
      /\ sends'[p] = sends[p] + 1 /\ acks'[p] <= 1
      /\ press'[p] \in {"sentOk", "sentFailed"}
      /\ \A q \in Presses : q # p => press'[q] = press[q]
      /\ \A e \in Deliveries : /\ sends[e] <= sends'[e]
                               /\ e # p => sends'[e] = sends[e] /\ acks'[e] = acks[e]
  BY <1>1, <1>2 DEF FlushInv, TypeOK
<1>4. TypeOK'
  BY <1>1, <1>3 DEF FlushInv, TypeOK
<1>5. ASSUME NEW e \in Deliveries PROVE RowInv(e)'
  <2>1. row[e].attempts \in Nat /\ sends[e] \in Nat /\ sends'[e] \in Nat /\ MaxAttempts \in Nat
    BY <1>2, <1>3, LimitsAssumption DEF Row
  <2> QED
    BY <1>1, <1>3, <2>1 DEF FlushInv, RowInv
<1>6. ASSUME NEW t \in Ticks PROVE PassInv(tick[t])'
  <2>1. PICK q \in Pass : q = tick[t] /\ PassInv(q)
    BY TickType
  <2>2. PassInv(q)'
    <3>1. \A e \in Deliveries : /\ row[e].status # "none" => row'[e].status # "none"
                                /\ sends'[e] \in Nat /\ sends[e] <= sends'[e]
      <4>1. row' = row
        BY <1>1
      <4> QED
        BY <1>3, <4>1
    <3> QED
      BY <2>1, <3>1, PassStays
  <2>3. q = tick'[t]
    BY <1>1, <2>1
  <2> QED
    BY <2>2, <2>3 DEF PassInv
<1>7. ASSUME NEW q \in Presses PROVE PressInv(q)'
  <2>1. CASE q = p
    BY <1>1, <1>2, <1>3, <2>1 DEF PressInv
  <2>2. CASE q # p
    BY <1>1, <1>3, <2>2 DEF PressInv, FlushInv, Deliveries
  <2> QED
    BY <2>1, <2>2
<1> QED
  BY <1>4, <1>5, <1>6, <1>7 DEF FlushInv

\* A press writes its outcome, or dies before it does.
LEMMA PressEndsFlush ==
  ASSUME FlushInv, NEW p \in Presses, PressSave(p) \/ PressDies(p) PROVE FlushInv'
<1>1. /\ p \in Deliveries /\ press[p] \in {"send", "sentOk", "sentFailed"}
      /\ row[p].status = "pending" /\ row[p] \in Row /\ row[p].attempts < MaxAttempts
      /\ row[p].attempts + 1 \in 1..MaxAttempts
  BY LimitsAssumption
     DEF PressSave, PressDies, FlushInv, PressInv, RowInv, TypeOK, Row, Deliveries
<1>2. /\ press' = [press EXCEPT ![p] = "done"] /\ crashes' \in Nat
      /\ UNCHANGED <<active, locked, tick, sends, acks, overlaps>>
  BY DEF PressSave, PressDies, FlushInv, TypeOK
<1>3. /\ row' \in [Deliveries -> Row]
      /\ \A e \in Deliveries : e # p => row'[e] = row[e]
      /\ RowInv(p)' /\ row'[p].status # "none"
  <2>1. CASE row' = row
    BY <1>1, <1>2, <2>1 DEF FlushInv, TypeOK, RowInv
  <2>2. CASE PressSave(p)
    <3> DEFINE new == Outcome(p, row[p].attempts + 1, press[p] = "sentOk")
    <3>1. row' = [row EXCEPT ![p] = new] /\ row[p].attempts + 1 <= sends[p]
      BY <2>2 DEF PressSave, FlushInv, PressInv
    <3>2. /\ new \in Row /\ new.attempts = row[p].attempts + 1 /\ new.status # "none"
          /\ new.status = "pending" => new.attempts < MaxAttempts
          /\ new.status = "failed" => sends[p] >= MaxAttempts
      BY <1>1, <3>1, OutcomeFacts
    <3> HIDE DEF new
    <3> QED
      BY <1>1, <1>2, <3>1, <3>2 DEF FlushInv, TypeOK, RowInv
  <2> QED
    BY <2>1, <2>2 DEF PressDies
<1>4. TypeOK'
  BY <1>2, <1>3 DEF FlushInv, TypeOK
<1>5. \A e \in Deliveries : RowInv(e)'
  BY <1>2, <1>3 DEF FlushInv, RowInv
<1>6. ASSUME NEW t \in Ticks PROVE PassInv(tick[t])'
  BY <1>1, <1>2, <1>3, TickType DEF PassInv
<1>7. press'[p] = "done" /\ \A q \in Presses : q # p => press'[q] = press[q]
  BY <1>2 DEF FlushInv, TypeOK
<1>8. ASSUME NEW q \in Presses PROVE PressInv(q)'
  <2>1. CASE q = p
    BY <1>2, <1>3, <1>7, <2>1 DEF PressInv, FlushInv
  <2>2. CASE q # p
    BY <1>2, <1>3, <1>7, <2>2 DEF PressInv, FlushInv, Deliveries
  <2> QED
    BY <2>1, <2>2
<1> QED
  BY <1>4, <1>5, <1>6, <1>8 DEF FlushInv

LEMMA NextFlush == FlushInv /\ [Next]_vars => FlushInv'
<1> SUFFICES ASSUME FlushInv, [Next]_vars PROVE FlushInv'
  OBVIOUS
<1>1. CASE UNCHANGED vars
  <2>1. TypeOK'
    BY <1>1 DEF vars, FlushInv, TypeOK
  <2>2. /\ \A d \in Deliveries : RowInv(d)'
        /\ \A t \in Ticks : PassInv(tick[t])'
        /\ \A p \in Presses : PressInv(p)'
    BY <1>1 DEF vars, FlushInv, RowInv, PassInv, PressInv
  <2> QED
    BY <2>1, <2>2 DEF FlushInv
<1>2. ASSUME NEW e \in Events, Queue(e) PROVE FlushInv'
  BY <1>2, QueueFlush
<1>3. CASE \/ \E d \in Deliveries : FallsDue(d) \/ ConnectionCloses(d)
           \/ \E value \in BOOLEAN : SetActive(value)
  BY <1>3, OutsideFlush
<1>4. ASSUME NEW t \in Ticks, ReadDue(t) \/ Turn(t) \/ TickDies(t) PROVE FlushInv'
  BY <1>4, ReadDueFlush, TryLockFlush, SendFlush, SaveFlush, TurnFlush DEF Turn
<1>5. ASSUME NEW p \in Presses, Press(p) \/ PressStep(p) \/ PressDies(p) PROVE FlushInv'
  BY <1>5, PressFlush, PressSendFlush, PressEndsFlush DEF PressStep
<1> QED
  BY <1>1, <1>2, <1>3, <1>4, <1>5 DEF Next

\* Every variable keeps its type.
THEOREM FlushTypeCorrect == Spec => []TypeOK
<1>1. FlushInv => TypeOK
  BY DEF FlushInv
<1> QED
  BY <1>1, InitFlush, NextFlush, PTL DEF Spec

\* Whatever ticks overlap, stall or die, a delivery that was given up had all its
\* attempts.
THEOREM GivenUpOnlyAfterAll == Spec => []GivenUpAfterAll
<1>1. FlushInv => GivenUpAfterAll
  BY DEF FlushInv, RowInv, GivenUpAfterAll
<1> QED
  BY <1>1, InitFlush, NextFlush, PTL DEF Spec

LEMMA SettledStep ==
  FlushInv /\ [Next]_vars =>
    \A d \in Deliveries : row[d].status \in Settled => row'[d].status \in Settled
<1> DEFINE Stays == \A d \in Deliveries : row[d].status \in Settled => row'[d].status \in Settled
<1> SUFFICES ASSUME FlushInv, [Next]_vars PROVE Stays
  OBVIOUS
<1>1. row \in [Deliveries -> Row]
  BY DEF FlushInv, TypeOK
<1>2. CASE row' = row
  BY <1>2
<1>3. ASSUME NEW d \in Deliveries, FallsDue(d) PROVE Stays
  BY <1>1, <1>3 DEF FallsDue, Row
<1>4. ASSUME NEW d \in Deliveries, row[d].status = "none", row' = Inserted(d) PROVE Stays
  BY <1>1, <1>4 DEF Inserted, Settled
<1>5. ASSUME NEW t \in Ticks, Save(t) PROVE Stays
  <2> DEFINE d == tick[t].id
             new == Outcome(d, tick[t].attempts + 1, tick[t].ok)
  <2>1. /\ d \in Deliveries /\ row' = [row EXCEPT ![d] = new] /\ row[d].status # "none"
        /\ tick[t].attempts + 1 <= sends[d]
    BY <1>5, TickType DEF Save, PassInv
  <2>2. tick[t].attempts + 1 \in 1..MaxAttempts
    BY TickType, LimitsAssumption
  <2>3. row[d].status \in Settled => new.status \in Settled
    BY <2>1, <2>2, OutcomeFacts, TickType
  <2> HIDE DEF new, d
  <2> QED
    BY <1>1, <2>1, <2>3
<1>6. ASSUME NEW p \in Presses, PressSave(p) PROVE Stays
  <2>1. p \in Deliveries /\ row[p].status = "pending"
    BY <1>6 DEF PressSave, FlushInv, PressInv, Deliveries
  <2> QED
    BY <1>1, <1>6, <2>1 DEF PressSave, Settled
<1>7. ASSUME NEW p \in Presses, Press(p) PROVE Stays
  <2>1. p \in Deliveries /\ row[p].status = "none" /\ row' = Inserted(p)
    BY <1>7 DEF Press, FlushInv, PressInv, Deliveries
  <2> QED
    BY <1>4, <2>1
<1> QED
  BY <1>2, <1>3, <1>4, <1>5, <1>6, <1>7
     DEF Next, Queue, ConnectionCloses, SetActive, ReadDue, Turn, TryLock, Send, Unlock,
         TickEnds, TickDies, PressStep, PressSend, PressDies, Deliveries, vars

\* A tick that writes late, with the row it read before another settled it, leaves it
\* settled.
THEOREM SettledDeliveriesStay == Spec => SettledStays
<1> DEFINE Stays == \A d \in Deliveries : row[d].status \in Settled => row'[d].status \in Settled
<1>1. FlushInv /\ [Next]_vars => [Stays]_vars
  BY SettledStep
<1> QED
  BY <1>1, InitFlush, NextFlush, PTL DEF Spec, SettledStays

(***************************************************************************)
(* How often a delivery of the subscription may still be answered.         *)
(***************************************************************************)

\* The tick has the delivery in hand; it may still have it answered, or put it back.
Holds(p, e) == (\E r \in p.todo : r.id = e) \/ (p.at \in {"send", "save"} /\ p.id = e)
Owes(p, e) ==
  (\E r \in p.todo : r.id = e) \/ (p.id = e /\ (p.at = "send" \/ (p.at = "save" /\ ~p.ok)))

\* The ticks that may, and whether the row may still be read by one that nobody disturbs.
Debt(e) == Cardinality({u \in Ticks : Owes(tick[u], e)})
Spare(e) ==
  IF row[e].status \notin Settled /\ \A u \in Ticks : ~Holds(tick[u], e) THEN 1 ELSE 0

DebtInv == \A e \in Events : acks[e] + Debt(e) + Spare(e) <= 1 + overlaps + crashes

IdleInv == \A t \in Ticks : tick[t].at = "idle" => tick[t].todo = {}

LEMMA OwesHolds ==
  ASSUME NEW p \in Pass, NEW e, Owes(p, e) PROVE Holds(p, e)
BY DEF Owes, Holds

\* A step of one tick moves the debt by at most one.
LEMMA DebtMoves ==
  ASSUME NEW t \in Ticks, NEW e \in Events, \A u \in Ticks : u # t => tick'[u] = tick[u]
  PROVE  /\ Debt(e) \in Nat /\ Debt(e)' \in Nat
         /\ (Owes(tick[t], e) <=> Owes(tick'[t], e)) => Debt(e)' = Debt(e)
         /\ Owes(tick[t], e) /\ ~Owes(tick'[t], e) => Debt(e)' = Debt(e) - 1
         /\ ~Owes(tick[t], e) /\ Owes(tick'[t], e) => Debt(e)' = Debt(e) + 1
<1> DEFINE S == {u \in Ticks : Owes(tick[u], e)}
           T == {u \in Ticks : Owes(tick'[u], e)}
<1>1. /\ (Owes(tick[t], e) <=> Owes(tick'[t], e)) => T = S
      /\ Owes(tick[t], e) /\ ~Owes(tick'[t], e) => T = S \ {t} /\ t \in S
      /\ ~Owes(tick[t], e) /\ Owes(tick'[t], e) => T = S \cup {t} /\ t \notin S
  OBVIOUS
<1>2. IsFiniteSet(S) /\ IsFiniteSet(T)
  BY TicksAssumption, FS_Subset
<1>3. Debt(e) = Cardinality(S) /\ Debt(e)' = Cardinality(T)
  BY DEF Debt, Owes
<1> HIDE DEF S, T
<1>4. Cardinality(S) \in Nat /\ Cardinality(T) \in Nat
  BY <1>2, FS_CardinalityType
<1>5. /\ t \in S => Cardinality(S \ {t}) = Cardinality(S) - 1
      /\ t \notin S => Cardinality(S \cup {t}) = Cardinality(S) + 1
  BY <1>2, FS_AddElement, FS_RemoveElement
<1> QED
  BY <1>1, <1>3, <1>4, <1>5

\* A tick that takes nothing new in hand, and drops what it had answered only when the
\* row is settled, leaves no more to be answered than there was.
LEMMA DebtFalls ==
  ASSUME NEW t \in Ticks, NEW e \in Events, \A u \in Ticks : u # t => tick'[u] = tick[u],
         tick[t] \in Pass, tick'[t] \in Pass,
         row[e].status \in Settled => row'[e].status \in Settled,
         Owes(tick'[t], e) => Owes(tick[t], e),
         Holds(tick[t], e) => \/ Owes(tick[t], e) /\ ~Owes(tick'[t], e)
                              \/ Holds(tick'[t], e)
                              \/ row'[e].status \in Settled
  PROVE  /\ Debt(e) \in Nat /\ Debt(e)' \in Nat
         /\ Debt(e)' + Spare(e)' <= Debt(e) + Spare(e)
         /\ Owes(tick[t], e) /\ ~Owes(tick'[t], e) /\ Holds(tick'[t], e) =>
              Debt(e)' + Spare(e)' + 1 <= Debt(e) + Spare(e)
<1>1. /\ Debt(e) \in Nat /\ Debt(e)' \in Nat
      /\ (Owes(tick[t], e) <=> Owes(tick'[t], e)) => Debt(e)' = Debt(e)
      /\ Owes(tick[t], e) /\ ~Owes(tick'[t], e) => Debt(e)' = Debt(e) - 1
  BY DebtMoves
<1>2. Spare(e) \in {0, 1} /\ Spare(e)' \in {0, 1}
  BY DEF Spare
<1>3. Spare(e)' = 1 => /\ row'[e].status \notin Settled
                       /\ \A u \in Ticks : ~Holds(tick'[u], e)
  BY DEF Spare, Holds
<1>4. /\ row[e].status \notin Settled /\ (\A u \in Ticks : ~Holds(tick[u], e)) => Spare(e) = 1
      /\ Holds(tick[t], e) => Spare(e) = 0
  BY DEF Spare
<1>5. CASE Owes(tick[t], e) /\ ~Owes(tick'[t], e)
  BY <1>1, <1>2, <1>3, <1>4, <1>5, OwesHolds
<1>6. CASE Owes(tick[t], e) <=> Owes(tick'[t], e)
  <2>1. Spare(e)' = 1 => ~Holds(tick[t], e)
    BY <1>3, <1>6
  <2>2. Spare(e)' = 1 => Spare(e) = 1
    BY <1>3, <1>4, <2>1
  <2> QED
    BY <1>1, <1>2, <1>6, <2>2
<1> QED
  BY <1>5, <1>6

RepeatInv == FlushInv /\ IdleInv /\ DebtInv

LEMMA InitRepeat == Init => RepeatInv
<1> SUFFICES ASSUME Init PROVE RepeatInv
  OBVIOUS
<1>1. IdleInv
  BY TickFacts DEF Init, IdleInv
<1>2. ASSUME NEW e \in Events PROVE acks[e] + Debt(e) + Spare(e) <= 1 + overlaps + crashes
  <2>1. {u \in Ticks : Owes(tick[u], e)} = {}
    BY TickFacts DEF Init, Owes
  <2>2. Debt(e) = 0
    BY <2>1, FS_EmptySet DEF Debt
  <2>3. acks[e] = 0 /\ overlaps = 0 /\ crashes = 0 /\ Spare(e) \in {0, 1}
    BY DEF Init, Spare, Deliveries
  <2> QED
    BY <2>2, <2>3
<1> QED
  BY <1>1, <1>2, InitFlush DEF RepeatInv, DebtInv

\* A step of a tick after which it owes nothing new, and that counts what it drops.
LEMMA TickDebt ==
  ASSUME RepeatInv, FlushInv', NEW t \in Ticks, NEW e \in Events,
         \A u \in Ticks : u # t => tick'[u] = tick[u],
         row[e].status \in Settled => row'[e].status \in Settled,
         Owes(tick'[t], e) => Owes(tick[t], e),
         Holds(tick[t], e) => \/ Owes(tick[t], e) /\ ~Owes(tick'[t], e)
                              \/ Holds(tick'[t], e)
                              \/ row'[e].status \in Settled,
         overlaps' >= overlaps, crashes' >= crashes,
         \/ acks'[e] = acks[e]
         \/ /\ Owes(tick[t], e) /\ ~Owes(tick'[t], e) /\ Holds(tick'[t], e)
            /\ acks'[e] = acks[e] + 1
  PROVE  acks'[e] + Debt(e)' + Spare(e)' <= 1 + overlaps' + crashes'
<1>1. /\ Debt(e) \in Nat /\ Debt(e)' \in Nat
      /\ Debt(e)' + Spare(e)' <= Debt(e) + Spare(e)
      /\ Owes(tick[t], e) /\ ~Owes(tick'[t], e) /\ Holds(tick'[t], e) =>
           Debt(e)' + Spare(e)' + 1 <= Debt(e) + Spare(e)
  BY DebtFalls DEF RepeatInv, FlushInv, TypeOK
<1>2. /\ acks[e] \in Nat /\ overlaps \in Nat /\ crashes \in Nat
      /\ acks'[e] \in Nat /\ overlaps' \in Nat /\ crashes' \in Nat
      /\ acks[e] + Debt(e) + Spare(e) <= 1 + overlaps + crashes
  BY DEF RepeatInv, FlushInv, TypeOK, DebtInv, Deliveries
<1>3. Spare(e) \in {0, 1} /\ Spare(e)' \in {0, 1}
  BY DEF Spare
<1> QED
  BY <1>1, <1>2, <1>3

\* A tick reads what is due: a row that nobody has in hand was spare, and one that
\* somebody has in hand is counted as an overlap.
LEMMA ReadDueDebt ==
  ASSUME RepeatInv, FlushInv', NEW t \in Ticks, ReadDue(t), NEW e \in Events
  PROVE  acks'[e] + Debt(e)' + Spare(e)' <= 1 + overlaps' + crashes'
<1> DEFINE todo == {[id |-> d, attempts |-> row[d].attempts] : d \in Due}
           shared == \E u \in Ticks : u # t /\ InHand(u) \cap Due # {}
<1>1. /\ tick[t].at = "idle" /\ tick[t].todo = {}
      /\ tick' = [tick EXCEPT ![t] = Turning(todo)]
      /\ overlaps' = IF shared THEN overlaps + 1 ELSE overlaps
      /\ UNCHANGED <<row, active, locked, press, sends, acks, crashes>>
  BY DEF ReadDue, RepeatInv, IdleInv
<1>2. /\ tick'[t] = Turning(todo)
      /\ \A u \in Ticks : u # t => tick'[u] = tick[u]
  BY <1>1 DEF RepeatInv, FlushInv, TypeOK
<1>3. ~Owes(tick[t], e) /\ ~Holds(tick[t], e)
  BY <1>1 DEF Owes, Holds
<1>4. /\ acks[e] \in Nat /\ overlaps \in Nat /\ crashes \in Nat
      /\ acks[e] + Debt(e) + Spare(e) <= 1 + overlaps + crashes
      /\ overlaps' \in Nat /\ overlaps' >= overlaps
  BY <1>1 DEF RepeatInv, FlushInv, TypeOK, DebtInv, Deliveries
<1>5. Spare(e) \in {0, 1} /\ Spare(e)' \in {0, 1}
  BY DEF Spare
<1>6. CASE e \in Due
  <2> DEFINE r == [id |-> e, attempts |-> row[e].attempts]
  <2>1. r \in todo /\ r.id = e
    BY <1>6
  <2>2. Owes(tick'[t], e) /\ Holds(tick'[t], e)
    <3>1. tick'[t].todo = todo
      BY <1>2 DEF Turning
    <3> HIDE DEF todo, r
    <3> QED
      BY <2>1, <3>1 DEF Owes, Holds
  <2>3. Debt(e) \in Nat /\ Debt(e)' = Debt(e) + 1
    BY <1>2, <1>3, <2>2, DebtMoves
  <2>4. Spare(e)' = 0
    BY <2>2 DEF Spare, Holds
  <2>5. CASE shared
    BY <1>1, <1>4, <1>5, <2>3, <2>4, <2>5
  <2>6. CASE ~shared
    <3>1. ASSUME NEW u \in Ticks, Holds(tick[u], e) PROVE FALSE
      <4>1. u # t
        BY <1>3, <3>1
      <4>2. e \in InHand(u)
        BY <3>1 DEF Holds, InHand
      <4> QED
        BY <1>6, <2>6, <4>1, <4>2
    <3>2. Spare(e) = 1
      BY <1>6, <3>1 DEF Spare, Due, Settled
    <3> QED
      BY <1>1, <1>4, <2>3, <2>4, <3>2
  <2> QED
    BY <2>5, <2>6
<1>7. CASE e \notin Due
  <2>1. ~Owes(tick'[t], e)
    BY <1>2, <1>7 DEF Owes, Turning
  <2> QED
    BY <1>1, <1>2, <1>3, <1>4, <2>1, TickDebt
<1> QED
  BY <1>6, <1>7

LEMMA TryLockDebt ==
  ASSUME RepeatInv, FlushInv', NEW t \in Ticks, NEW r \in tick[t].todo, NEW got \in BOOLEAN,
         TryLock(t, r, got), NEW e \in Events
  PROVE  acks'[e] + Debt(e)' + Spare(e)' <= 1 + overlaps' + crashes'
<1> DEFINE rest == tick[t].todo \ {r}
<1>1. /\ tick[t].at = "next"
      /\ tick' = [tick EXCEPT ![t] = IF got THEN Sending(r, rest) ELSE Turning(rest)]
      /\ UNCHANGED <<row, active, press, sends, acks, overlaps, crashes>>
  BY DEF TryLock
<1>2. /\ tick'[t] = IF got THEN Sending(r, rest) ELSE Turning(rest)
      /\ \A u \in Ticks : u # t => tick'[u] = tick[u]
  BY <1>1 DEF RepeatInv, FlushInv, TypeOK
<1>3. \A q \in tick[t].todo : q.id = r.id => q = r
  BY TickType DEF RepeatInv, PassInv
<1>4. Owes(tick'[t], e) => Owes(tick[t], e)
  BY <1>2 DEF Owes, Sending, Turning
<1>5. Holds(tick[t], e) => \/ Owes(tick[t], e) /\ ~Owes(tick'[t], e)
                           \/ Holds(tick'[t], e)
  <2>1. CASE r.id = e
    BY <1>1, <1>2, <1>3, <2>1 DEF Owes, Holds, Sending, Turning
  <2>2. CASE r.id # e
    BY <1>1, <1>2, <2>2 DEF Owes, Holds, Sending, Turning
  <2> QED
    BY <2>1, <2>2
<1>6. overlaps' >= overlaps /\ crashes' >= crashes
  BY <1>1 DEF RepeatInv, FlushInv, TypeOK
<1> QED
  BY <1>1, <1>2, <1>4, <1>5, <1>6, TickDebt

LEMMA SendDebt ==
  ASSUME RepeatInv, FlushInv', NEW t \in Ticks, NEW ok \in BOOLEAN, Send(t, ok), NEW e \in Events
  PROVE  acks'[e] + Debt(e)' + Spare(e)' <= 1 + overlaps' + crashes'
<1> DEFINE d == tick[t].id
<1>1. /\ tick[t].at = "send" /\ \A r \in tick[t].todo : r.id # d
      /\ tick[t] \in Pass /\ d \in Deliveries
  BY TickType DEF Send, RepeatInv, PassInv
<1>2. /\ tick' = [tick EXCEPT ![t].at = "save", ![t].ok = ok]
      /\ acks' = IF ok THEN [acks EXCEPT ![d] = @ + 1] ELSE acks
      /\ UNCHANGED <<row, active, locked, press, overlaps, crashes>>
  BY DEF Send, Sent
<1>3. /\ tick'[t].at = "save" /\ tick'[t].ok = ok /\ tick'[t].id = d
      /\ tick'[t].todo = tick[t].todo
      /\ \A u \in Ticks : u # t => tick'[u] = tick[u]
  BY <1>1, <1>2 DEF RepeatInv, FlushInv, TypeOK, Pass
<1>4. acks \in [Deliveries -> Nat] /\ e \in Deliveries /\ overlaps \in Nat /\ crashes \in Nat
  BY DEF RepeatInv, FlushInv, TypeOK, Deliveries
<1>5. acks'[e] = IF ok /\ e = d THEN acks[e] + 1 ELSE acks[e]
  BY <1>2, <1>4
<1>6. overlaps' >= overlaps /\ crashes' >= crashes /\ row' = row
  BY <1>2, <1>4
<1>7. (Owes(tick'[t], e) => Owes(tick[t], e)) /\ (Holds(tick[t], e) => Holds(tick'[t], e))
  BY <1>1, <1>3 DEF Owes, Holds
<1>8. ok /\ e = d => Owes(tick[t], e) /\ ~Owes(tick'[t], e) /\ Holds(tick'[t], e)
  BY <1>1, <1>3 DEF Owes, Holds
<1> HIDE DEF d
<1> QED
  BY <1>3, <1>5, <1>6, <1>7, <1>8, TickDebt

LEMMA SaveDebt ==
  ASSUME RepeatInv, FlushInv', NEW t \in Ticks, Save(t), NEW e \in Events
  PROVE  acks'[e] + Debt(e)' + Spare(e)' <= 1 + overlaps' + crashes'
<1> DEFINE d == tick[t].id
<1>1. /\ tick[t].at = "save" /\ \A r \in tick[t].todo : r.id # d
      /\ tick[t] \in Pass /\ d \in Deliveries
  BY TickType DEF Save, RepeatInv, PassInv
<1>2. /\ tick' = [tick EXCEPT ![t].at = "unlock"]
      /\ row' = [row EXCEPT ![d] = Outcome(d, tick[t].attempts + 1, tick[t].ok)]
      /\ UNCHANGED <<active, locked, press, sends, acks, overlaps, crashes>>
  BY DEF Save
<1>3. /\ tick'[t].at = "unlock" /\ tick'[t].id = d /\ tick'[t].todo = tick[t].todo
      /\ \A u \in Ticks : u # t => tick'[u] = tick[u]
  BY <1>1, <1>2 DEF RepeatInv, FlushInv, TypeOK, Pass
<1>4. tick[t].ok => row'[d].status \in Settled
  BY <1>1, <1>2 DEF RepeatInv, FlushInv, TypeOK, Outcome, Settled
<1>5. row[e].status \in Settled => row'[e].status \in Settled
  <2>1. FlushInv /\ Next
    BY DEF RepeatInv, Next, Turn
  <2> QED
    BY <2>1, SettledStep DEF Deliveries
<1>6. overlaps' >= overlaps /\ crashes' >= crashes /\ acks' = acks
  BY <1>2 DEF RepeatInv, FlushInv, TypeOK
<1>7. Owes(tick'[t], e) => Owes(tick[t], e)
  BY <1>3 DEF Owes
<1>8. Holds(tick[t], e) => \/ Owes(tick[t], e) /\ ~Owes(tick'[t], e)
                           \/ Holds(tick'[t], e)
                           \/ row'[e].status \in Settled
  <2>1. CASE e = d
    BY <1>1, <1>3, <1>4, <2>1 DEF Owes, Holds
  <2>2. CASE e # d
    BY <1>1, <1>3, <2>2 DEF Owes, Holds
  <2> QED
    BY <2>1, <2>2
<1> HIDE DEF d
<1> QED
  BY <1>3, <1>5, <1>6, <1>7, <1>8, TickDebt

\* A tick ends or turns to its next delivery, having nothing in hand of the last one; or
\* dies, which leaves what it had in hand to others.
LEMMA TurnDebt ==
  ASSUME RepeatInv, FlushInv', NEW t \in Ticks, NEW e \in Events,
         TickEnds(t) \/ TickDies(t) \/ \E lands \in BOOLEAN : Unlock(t, lands)
  PROVE  acks'[e] + Debt(e)' + Spare(e)' <= 1 + overlaps' + crashes'
<1>1. UNCHANGED <<row, acks, overlaps>> /\ crashes' >= crashes
  BY DEF TickEnds, TickDies, Unlock, RepeatInv, FlushInv, TypeOK
<1>2. \A u \in Ticks : u # t => tick'[u] = tick[u]
  BY DEF TickEnds, TickDies, Unlock, RepeatInv, FlushInv, TypeOK
<1>3. CASE TickEnds(t) \/ \E lands \in BOOLEAN : Unlock(t, lands)
  <2>1. /\ tick[t].at \notin {"send", "save"}
        /\ tick'[t] = Turning(tick[t].todo) \/ (tick'[t] = NoTick /\ tick[t].todo = {})
    BY <1>3 DEF TickEnds, Unlock, RepeatInv, FlushInv, TypeOK
  <2>2. /\ Owes(tick'[t], e) => Owes(tick[t], e)
        /\ Holds(tick[t], e) => Holds(tick'[t], e)
    BY <2>1, TickFacts DEF Owes, Holds, Turning
  <2>3. overlaps' >= overlaps
    BY <1>1 DEF RepeatInv, FlushInv, TypeOK
  <2> QED
    BY <1>1, <1>2, <2>2, <2>3, TickDebt
<1>4. CASE TickDies(t)
  <2>1. crashes' = crashes + 1 /\ tick'[t] = NoTick
    BY <1>4 DEF TickDies, RepeatInv, FlushInv, TypeOK
  <2>2. ~Owes(tick'[t], e)
    BY <2>1, TickFacts DEF Owes
  <2>3. Debt(e) \in Nat /\ Debt(e)' \in Nat /\ Debt(e)' <= Debt(e)
        /\ (Owes(tick[t], e) => Debt(e)' = Debt(e) - 1)
    BY <1>2, <2>2, DebtMoves
  <2>4. Spare(e) \in {0, 1} /\ Spare(e)' \in {0, 1}
    BY DEF Spare
  <2>5. /\ acks[e] \in Nat /\ overlaps \in Nat /\ crashes \in Nat
        /\ acks[e] + Debt(e) + Spare(e) <= 1 + overlaps + crashes
    BY DEF RepeatInv, FlushInv, TypeOK, DebtInv, Deliveries
  <2> QED
    BY <1>1, <2>1, <2>3, <2>4, <2>5
<1> QED
  BY <1>3, <1>4

\* What neither touches a tick nor takes a row of the subscription out of Settled.
LEMMA OutsideDebt ==
  ASSUME RepeatInv, FlushInv', NEW e \in Events, tick' = tick, acks'[e] = acks[e],
         row[e].status \in Settled => row'[e].status \in Settled,
         overlaps' = overlaps, crashes' >= crashes
  PROVE  acks'[e] + Debt(e)' + Spare(e)' <= 1 + overlaps' + crashes'
<1>1. Debt(e)' = Debt(e) /\ Debt(e) \in Nat
  <2>1. {u \in Ticks : Owes(tick[u], e)} \subseteq Ticks
    OBVIOUS
  <2>2. Debt(e) \in Nat
    BY <2>1, TicksAssumption, FS_Subset, FS_CardinalityType DEF Debt
  <2> QED
    BY <2>2 DEF Debt, Owes
<1>2. Spare(e) \in {0, 1} /\ Spare(e)' \in {0, 1} /\ Spare(e)' <= Spare(e)
  BY DEF Spare, Holds
<1> QED
  BY <1>1, <1>2 DEF RepeatInv, FlushInv, TypeOK, DebtInv, Deliveries

LEMMA NextIdle == FlushInv /\ IdleInv /\ [Next]_vars => IdleInv'
<1> SUFFICES ASSUME FlushInv, IdleInv, [Next]_vars, NEW u \in Ticks, tick'[u].at = "idle"
             PROVE  tick'[u].todo = {}
  BY DEF IdleInv
<1>1. CASE tick' = tick
  BY <1>1 DEF IdleInv
<1>2. ASSUME NEW t \in Ticks, NEW q, tick' = [tick EXCEPT ![t] = q], q.at = "idle" => q.todo = {}
      PROVE  tick'[u].todo = {}
  BY <1>2 DEF IdleInv, FlushInv, TypeOK
<1>3. ASSUME NEW t \in Ticks, ReadDue(t) PROVE tick'[u].todo = {}
  <2> DEFINE q == Turning({[id |-> e, attempts |-> row[e].attempts] : e \in Due})
  <2>1. tick' = [tick EXCEPT ![t] = q]
    BY <1>3 DEF ReadDue
  <2>2. q.at = "next"
    BY DEF Turning
  <2> HIDE DEF q
  <2> QED
    BY <1>2, <2>1, <2>2
<1>4. ASSUME NEW t \in Ticks, TickEnds(t) \/ TickDies(t) PROVE tick'[u].todo = {}
  BY <1>2, <1>4, TickFacts DEF TickEnds, TickDies
<1>5. ASSUME NEW t \in Ticks, NEW lands \in BOOLEAN, Unlock(t, lands) PROVE tick'[u].todo = {}
  <2>1. Turning(tick[t].todo).at = "next"
    BY DEF Turning
  <2>2. tick' = [tick EXCEPT ![t] = Turning(tick[t].todo)]
    BY <1>5 DEF Unlock
  <2> QED
    BY <1>2, <2>1, <2>2
<1>6. ASSUME NEW t \in Ticks, NEW r \in tick[t].todo, NEW got \in BOOLEAN, TryLock(t, r, got)
      PROVE  tick'[u].todo = {}
  <2> DEFINE rest == tick[t].todo \ {r}
             q == IF got THEN Sending(r, rest) ELSE Turning(rest)
  <2>1. tick' = [tick EXCEPT ![t] = q]
    BY <1>6 DEF TryLock
  <2>2. q.at # "idle"
    BY DEF Turning, Sending
  <2> HIDE DEF q
  <2> QED
    BY <1>2, <2>1, <2>2
<1>7. ASSUME NEW t \in Ticks, Save(t) \/ \E ok \in BOOLEAN : Send(t, ok)
      PROVE  tick'[u].todo = {}
  <2>1. tick'[t].at # "idle" /\ (u # t => tick'[u] = tick[u])
    BY <1>7 DEF Save, Send, FlushInv, TypeOK, Pass
  <2> QED
    BY <2>1 DEF IdleInv
<1> QED
  BY <1>1, <1>3, <1>4, <1>5, <1>6, <1>7
     DEF Next, vars, Queue, FallsDue, ConnectionCloses, SetActive, Turn, Press, PressStep,
         PressSend, PressSave, PressDies

LEMMA NextRepeat == RepeatInv /\ [Next]_vars => RepeatInv'
<1> SUFFICES ASSUME RepeatInv, [Next]_vars PROVE RepeatInv'
  OBVIOUS
<1>1. FlushInv' /\ IdleInv'
  BY NextFlush, NextIdle DEF RepeatInv
<1>2. ASSUME NEW e \in Events
      PROVE  acks'[e] + Debt(e)' + Spare(e)' <= 1 + overlaps' + crashes'
  <2>1. /\ e \in Deliveries /\ e \notin Presses
        /\ row[e].status \in Settled => row'[e].status \in Settled
        /\ overlaps \in Nat /\ crashes \in Nat
    BY SettledStep, DeliveriesAssumption DEF RepeatInv, FlushInv, TypeOK, Deliveries
  <2>2. CASE \E t \in Ticks : ReadDue(t) \/ Turn(t) \/ TickDies(t)
    BY <1>1, <2>2, ReadDueDebt, TryLockDebt, SendDebt, SaveDebt, TurnDebt DEF Turn
  <2>3. CASE UNCHANGED <<tick, acks, overlaps, crashes>>
    BY <1>1, <2>1, <2>3, OutsideDebt
  <2>4. ASSUME NEW p \in Presses, PressSend(p, TRUE) \/ PressSend(p, FALSE) \/ PressDies(p)
        PROVE  acks'[e] + Debt(e)' + Spare(e)' <= 1 + overlaps' + crashes'
    <3>1. tick' = tick /\ overlaps' = overlaps /\ crashes' \in {crashes, crashes + 1}
      BY <2>4 DEF PressSend, PressDies
    <3>2. acks'[e] = acks[e]
      BY <2>1, <2>4 DEF PressSend, PressDies, Sent, RepeatInv, FlushInv, TypeOK
    <3>3. crashes' >= crashes
      BY <2>1, <3>1
    <3> QED
      BY <1>1, <2>1, <3>1, <3>2, <3>3, OutsideDebt
  <2> QED
    BY <2>2, <2>3, <2>4
       DEF Next, vars, Queue, FallsDue, ConnectionCloses, SetActive, Press, PressStep, PressSave
<1> QED
  BY <1>1, <1>2 DEF RepeatInv, DebtInv

\* A delivery is answered again only for a tick that read what another had in hand, or
\* that died, however ticks are interleaved and whichever locks are lost or got twice.
THEOREM AnsweredOncePerDisturbance == Spec => []RepeatsBounded
<1>1. RepeatInv => RepeatsBounded
  <2> SUFFICES ASSUME RepeatInv, NEW d \in Deliveries PROVE acks[d] <= 1 + overlaps + crashes
    BY DEF RepeatsBounded
  <2>1. acks[d] \in Nat /\ overlaps \in Nat /\ crashes \in Nat
    BY DEF RepeatInv, FlushInv, TypeOK
  <2>2. CASE d \in Presses
    BY <2>1, <2>2 DEF RepeatInv, FlushInv, PressInv
  <2>3. CASE d \in Events
    <3>1. Spare(d) \in {0, 1}
      BY DEF Spare
    <3>2. Debt(d) \in Nat
      <4>1. {u \in Ticks : Owes(tick[u], d)} \subseteq Ticks
        OBVIOUS
      <4> QED
        BY <4>1, TicksAssumption, FS_Subset, FS_CardinalityType DEF Debt
    <3>3. acks[d] + Debt(d) + Spare(d) <= 1 + overlaps + crashes
      BY <2>3 DEF RepeatInv, DebtInv
    <3> QED
      BY <2>1, <3>1, <3>2, <3>3
  <2> QED
    BY <2>2, <2>3 DEF Deliveries
<1> QED
  BY <1>1, InitRepeat, NextRepeat, PTL DEF Spec
=============================================================================
