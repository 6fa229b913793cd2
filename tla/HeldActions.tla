----------------------------- MODULE HeldActions -----------------------------
(***************************************************************************)
(* What approvals promise the people who hold a rule's action: it is       *)
(* decided once and for all, it is queued at most once and only when the   *)
(* decision lets it, and it takes effect only from the queue, which may    *)
(* repeat it or lose it.                                                   *)
(* AutomationJobs implements it.                                           *)
(***************************************************************************)
EXTENDS Naturals

CONSTANT Actions

VARIABLES
  decision, \* open, granted or refused
  queued,   \* the actions that have been queued
  effects   \* how often each action took effect

vars == <<decision, queued, effects>>

Init ==
  /\ decision = [a \in Actions |-> "open"]
  /\ queued = {}
  /\ effects = [a \in Actions |-> 0]

Decide(a, verdict) ==
  /\ decision[a] = "open"
  /\ decision' = [decision EXCEPT ![a] = verdict]
  /\ UNCHANGED <<queued, effects>>

Queue(a) ==
  /\ decision[a] = "granted"
  /\ a \notin queued
  /\ queued' = queued \cup {a}
  /\ UNCHANGED <<decision, effects>>

TakeEffect(a) ==
  /\ a \in queued
  /\ effects' = [effects EXCEPT ![a] = @ + 1]
  /\ UNCHANGED <<decision, queued>>

Next ==
  \E a \in Actions :
    \/ \E verdict \in {"granted", "refused"} : Decide(a, verdict)
    \/ Queue(a)
    \/ TakeEffect(a)

Spec == Init /\ [][Next]_vars
=============================================================================
