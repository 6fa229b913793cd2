----------------------------- MODULE WebhookFlush -----------------------------
(***************************************************************************)
(* How the deliveries of webhooks are sent (flush(), settle() and          *)
(* sendNow() of src/apps/api/src/webhooks/webhooks.service.ts, and the     *)
(* schedule of webhook-sender.ts).                                         *)
(*                                                                         *)
(* A tick reads the deliveries that are due, and then, one after another,  *)
(* tries the advisory lock of a delivery, sends it, and writes the outcome *)
(* by id, from the row it read at first: the row is not read again under   *)
(* the lock.  The lock belongs to whichever connection of the pool the     *)
(* statement ran on, so that the unlock may miss it, and another tick of   *)
(* the process may get it a second time.  Ticks of several replicas, and   *)
(* of one whose last tick is not over, overlap.                            *)
(*                                                                         *)
(* A button press queues a delivery without a subscription, and sends it   *)
(* at once by itself.                                                      *)
(***************************************************************************)
EXTENDS Naturals, FiniteSets

CONSTANTS
  Events,       \* deliveries of the subscription
  Presses,      \* deliveries of button presses
  Ticks,        \* passes in flight at once
  MaxAttempts,  \* MAX_ATTEMPTS
  MaxOverlaps,  \* bound on how often a tick reads what another has in hand
  MaxCrashes    \* bound on how many ticks and presses die

Deliveries == Events \cup Presses

ASSUME DeliveriesAssumption == Events \cap Presses = {} /\ Deliveries # {}
ASSUME LimitsAssumption == MaxAttempts \in Nat \ {0} /\ {MaxOverlaps, MaxCrashes} \subseteq Nat
ASSUME TicksAssumption == IsFiniteSet(Ticks)

VARIABLES
  row,       \* the row of each delivery
  active,    \* is the owner of the subscription an admin?
  locked,    \* the deliveries whose advisory lock some connection holds
  tick,      \* what each tick has in hand
  press,     \* what the request of each button press is about to do
  sends,     \* how often each delivery was sent
  acks,      \* how often a send of it was answered 2xx
  overlaps,  \* how often a tick read what another had in hand
  crashes    \* how many ticks and presses died

vars == <<row, active, locked, tick, press, sends, acks, overlaps, crashes>>

Settled == {"ok", "failed"}

NoDelivery == CHOOSE d \in Deliveries : TRUE

\* A tick that does nothing, one that turns to its next delivery, one that sends.
NoTick == [at |-> "idle", todo |-> {}, id |-> NoDelivery, attempts |-> 0, ok |-> FALSE]
Turning(todo) == [at |-> "next", todo |-> todo, id |-> NoDelivery, attempts |-> 0, ok |-> FALSE]
Sending(r, todo) ==
  [at |-> "send", todo |-> todo, id |-> r.id, attempts |-> r.attempts, ok |-> FALSE]

(***************************************************************************)
(* The queue.                                                              *)
(***************************************************************************)

\* A scan, or enqueueDirect(), inserts the delivery: pending, due at once.
Inserted(d) == [row EXCEPT ![d] = [status |-> "pending", attempts |-> 0, due |-> TRUE]]

Queue(e) ==
  /\ row[e].status = "none"
  /\ row' = Inserted(e)
  /\ UNCHANGED <<active, locked, tick, press, sends, acks, overlaps, crashes>>

\* next_attempt_at passes.
FallsDue(d) ==
  /\ row[d].status = "pending" /\ ~row[d].due
  /\ row' = [row EXCEPT ![d].due = TRUE]
  /\ UNCHANGED <<active, locked, tick, press, sends, acks, overlaps, crashes>>

\* The owner stops being an admin, or an admin takes the webhook over.
SetActive(value) ==
  /\ active # value
  /\ active' = value
  /\ UNCHANGED <<row, locked, tick, press, sends, acks, overlaps, crashes>>

\* A connection that holds the lock is closed: the pool found it idle, or its
\* process died.
ConnectionCloses(d) ==
  /\ d \in locked
  /\ locked' = locked \ {d}
  /\ UNCHANGED <<row, active, tick, press, sends, acks, overlaps, crashes>>

(***************************************************************************)
(* The schedule.                                                           *)
(***************************************************************************)

\* nextAttemptDelayMs(attempts) is not null.
RetryLeft(attempts) == attempts < MaxAttempts

\* Mutant: a delivery that is to be tried again is marked pending.
OutcomePending(d, attempts, ok) ==
  [status |-> IF ok THEN "ok" ELSE IF RetryLeft(attempts) THEN "pending" ELSE "failed",
   attempts |-> attempts, due |-> FALSE]

\* The row after an attempt: settled when it was answered 2xx or was the last, and
\* otherwise to be tried again, its status whatever it has become.
Outcome(d, attempts, ok) ==
  [status |-> IF ok THEN "ok" ELSE IF RetryLeft(attempts) THEN row[d].status ELSE "failed",
   attempts |-> attempts, due |-> FALSE]

Sent(d, ok) ==
  /\ sends' = [sends EXCEPT ![d] = @ + 1]
  /\ acks' = IF ok THEN [acks EXCEPT ![d] = @ + 1] ELSE acks

(***************************************************************************)
(* A tick.                                                                 *)
(***************************************************************************)

\* The deliveries that a tick has yet to send, and the outcome of which it has yet
\* to write.
InHand(t) == {r.id : r \in tick[t].todo}
             \cup (IF tick[t].at \in {"send", "save"} THEN {tick[t].id} ELSE {})

\* Mutant: whatever has no next attempt is due, settled or not.
DueUnscheduled == {e \in Events : (row[e].due \/ row[e].status \in Settled) /\ active}

\* Mutant: only what was never sent is read.
DueUnsent == {e \in Events : row[e].status = "pending" /\ row[e].attempts = 0 /\ active}

\* Pending, due, and of a subscription whose owner is an admin: a delivery without a
\* subscription is not among them.
Due == {e \in Events : row[e].status = "pending" /\ row[e].due /\ active}

\* flush() reads what is due.
ReadDue(t) ==
  LET shared == \E u \in Ticks : u # t /\ InHand(u) \cap Due # {}
  IN /\ tick[t].at = "idle" /\ Due # {}
     /\ shared => overlaps < MaxOverlaps
     /\ overlaps' = IF shared THEN overlaps + 1 ELSE overlaps
     /\ tick' = [tick EXCEPT ![t] =
                   Turning({[id |-> e, attempts |-> row[e].attempts] : e \in Due})]
     /\ UNCHANGED <<row, active, locked, press, sends, acks, crashes>>

\* Mutant: a tick that does not get the lock counts an attempt.
TryLockCounts(t, r, got) ==
  /\ tick[t].at = "next" /\ r \in tick[t].todo
  /\ r.id \notin locked => got
  /\ locked' = IF got THEN locked \cup {r.id} ELSE locked
  /\ row' = IF got THEN row ELSE [row EXCEPT ![r.id].attempts = r.attempts + 1]
  /\ LET rest == tick[t].todo \ {r}
     IN tick' = [tick EXCEPT ![t] = IF got THEN Sending(r, rest) ELSE Turning(rest)]
  /\ UNCHANGED <<active, press, sends, acks, overlaps, crashes>>

\* pg_try_advisory_lock() of the next delivery.  A lock that is held is got again by
\* a statement that runs on the connection that holds it.
TryLock(t, r, got) ==
  /\ tick[t].at = "next" /\ r \in tick[t].todo
  /\ r.id \notin locked => got
  /\ locked' = IF got THEN locked \cup {r.id} ELSE locked
  /\ LET rest == tick[t].todo \ {r}
     IN tick' = [tick EXCEPT ![t] = IF got THEN Sending(r, rest) ELSE Turning(rest)]
  /\ UNCHANGED <<row, active, press, sends, acks, overlaps, crashes>>

\* deliverWebhook().
Send(t, ok) ==
  /\ tick[t].at = "send"
  /\ Sent(tick[t].id, ok)
  /\ tick' = [tick EXCEPT ![t].at = "save", ![t].ok = ok]
  /\ UNCHANGED <<row, active, locked, press, overlaps, crashes>>

\* settle(), or the update that reschedules.
Save(t) ==
  LET p == tick[t]
  IN /\ p.at = "save"
     /\ row' = [row EXCEPT ![p.id] = Outcome(p.id, p.attempts + 1, p.ok)]
     /\ tick' = [tick EXCEPT ![t].at = "unlock"]
     /\ UNCHANGED <<active, locked, press, sends, acks, overlaps, crashes>>

\* pg_advisory_unlock(): it frees the lock when it runs on the connection that holds
\* it, and does nothing on another.
Unlock(t, lands) ==
  /\ tick[t].at = "unlock"
  /\ locked' = IF lands THEN locked \ {tick[t].id} ELSE locked
  /\ tick' = [tick EXCEPT ![t] = Turning(tick[t].todo)]
  /\ UNCHANGED <<row, active, press, sends, acks, overlaps, crashes>>

TickEnds(t) ==
  /\ tick[t].at = "next" /\ tick[t].todo = {}
  /\ tick' = [tick EXCEPT ![t] = NoTick]
  /\ UNCHANGED <<row, active, locked, press, sends, acks, overlaps, crashes>>

\* A statement throws, or the process dies.
TickDies(t) ==
  /\ tick[t].at # "idle"
  /\ crashes < MaxCrashes
  /\ tick' = [tick EXCEPT ![t] = NoTick]
  /\ crashes' = crashes + 1
  /\ UNCHANGED <<row, active, locked, press, sends, acks, overlaps>>

(***************************************************************************)
(* A button press.                                                         *)
(***************************************************************************)

\* enqueueDirect().
Press(p) ==
  /\ press[p] = "none"
  /\ row' = Inserted(p)
  /\ press' = [press EXCEPT ![p] = "send"]
  /\ UNCHANGED <<active, locked, tick, sends, acks, overlaps, crashes>>

\* sendNow() reads the row and sends it.
PressSend(p, ok) ==
  /\ press[p] = "send"
  /\ Sent(p, ok)
  /\ press' = [press EXCEPT ![p] = IF ok THEN "sentOk" ELSE "sentFailed"]
  /\ UNCHANGED <<row, active, locked, tick, overlaps, crashes>>

\* sendNow() writes the outcome.
PressSave(p) ==
  /\ press[p] \in {"sentOk", "sentFailed"}
  /\ row' = [row EXCEPT ![p] = Outcome(p, row[p].attempts + 1, press[p] = "sentOk")]
  /\ press' = [press EXCEPT ![p] = "done"]
  /\ UNCHANGED <<active, locked, tick, sends, acks, overlaps, crashes>>

PressDies(p) ==
  /\ press[p] \in {"send", "sentOk", "sentFailed"}
  /\ crashes < MaxCrashes
  /\ press' = [press EXCEPT ![p] = "done"]
  /\ crashes' = crashes + 1
  /\ UNCHANGED <<row, active, locked, tick, sends, acks, overlaps>>

(***************************************************************************)
(* The specification.                                                      *)
(***************************************************************************)
Init ==
  /\ row = [d \in Deliveries |-> [status |-> "none", attempts |-> 0, due |-> FALSE]]
  /\ active = TRUE
  /\ locked = {}
  /\ tick = [t \in Ticks |-> NoTick]
  /\ press = [p \in Presses |-> "none"]
  /\ sends = [d \in Deliveries |-> 0]
  /\ acks = [d \in Deliveries |-> 0]
  /\ overlaps = 0 /\ crashes = 0

Turn(t) ==
  \/ \E r \in tick[t].todo, got \in BOOLEAN : TryLock(t, r, got)
  \/ \E ok \in BOOLEAN : Send(t, ok)
  \/ Save(t)
  \/ \E lands \in BOOLEAN : Unlock(t, lands)
  \/ TickEnds(t)

PressStep(p) == (\E ok \in BOOLEAN : PressSend(p, ok)) \/ PressSave(p)

Next ==
  \/ \E e \in Events : Queue(e)
  \/ \E d \in Deliveries : FallsDue(d) \/ ConnectionCloses(d)
  \/ \E value \in BOOLEAN : SetActive(value)
  \/ \E t \in Ticks : ReadDue(t) \/ Turn(t) \/ TickDies(t)
  \/ \E p \in Presses : Press(p) \/ PressStep(p) \/ PressDies(p)

Spec == Init /\ [][Next]_vars

\* The lock of the delivery was left behind.
Leaked(d) == \A t \in Ticks : tick[t].at \in {"send", "save", "unlock"} => tick[t].id # d

\* The timer keeps starting ticks, ticks and presses go on until they die, back-offs
\* pass, and the pool closes connections that hold a lock for nobody.
Fairness ==
  /\ \A t \in Ticks : WF_vars(ReadDue(t)) /\ WF_vars(Turn(t))
  /\ \A p \in Presses : WF_vars(PressStep(p))
  /\ \A d \in Deliveries : WF_vars(FallsDue(d)) /\ WF_vars(Leaked(d) /\ ConnectionCloses(d))

FairSpec == Spec /\ Fairness

(***************************************************************************)
(* Properties.                                                             *)
(***************************************************************************)

Row == [status : Settled \cup {"none", "pending"}, attempts : 0..MaxAttempts, due : BOOLEAN]

Read == [id : Deliveries, attempts : 0..(MaxAttempts - 1)]

Pass == [at : {"idle", "next", "send", "save", "unlock"}, todo : SUBSET Read,
         id : Deliveries, attempts : 0..(MaxAttempts - 1), ok : BOOLEAN]

\* Every variable has the shape of its column or of its local variables.
TypeOK ==
  /\ row \in [Deliveries -> Row]
  /\ active \in BOOLEAN
  /\ locked \subseteq Deliveries
  /\ tick \in [Ticks -> Pass]
  /\ press \in [Presses -> {"none", "send", "sentOk", "sentFailed", "done"}]
  /\ sends \in [Deliveries -> Nat]
  /\ acks \in [Deliveries -> Nat]
  /\ overlaps \in Nat /\ crashes \in Nat

\* A delivery that was answered 2xx is not sent until it is answered again, except
\* for each tick that read it while another had it in hand, and each that died (the
\* code promises more of overlapping ticks: NoDoubleSend).
RepeatsBounded == \A d \in Deliveries : acks[d] <= 1 + overlaps + crashes

\* Two replicas ticking at once do not double-send: a tick that gets the advisory lock
\* of a delivery, when nobody holds it, finds the delivery pending still.
NoDoubleSend ==
  [][\A t \in Ticks, e \in Events :
       e \notin locked /\ e \in locked' /\ tick'[t].at = "send" /\ tick'[t].id = e
         => row[e].status = "pending"]_vars

\* A delivery is given up only when it was sent MAX_ATTEMPTS times: ticks that write
\* the attempts they read over each other's lose attempts and never invent one.
GivenUpAfterAll ==
  \A d \in Deliveries :
    /\ row[d].attempts <= sends[d]
    /\ row[d].status = "failed" => sends[d] >= MaxAttempts

\* A tick that writes late never takes a delivery that was settled back into the
\* queue, whatever it settles it as.
SettledStays ==
  [][\A d \in Deliveries : row[d].status \in Settled => row'[d].status \in Settled]_vars

\* A delivery of a webhook that is not paused for ever is settled in the end,
\* whatever locks were left behind.
EveryDeliverySettles ==
  <>[]active => \A e \in Events : row[e].status # "none" ~> row[e].status \in Settled

\* What a button press has queued is settled in the end.
EveryPressSettles ==
  \A p \in Presses : row[p].status # "none" ~> row[p].status \in Settled \/ crashes > 0
=============================================================================
