------------------------------ MODULE WakeLease ------------------------------
(***************************************************************************)
(* What the wake queue promises a Runner: a wake is held under one claim   *)
(* at a time, every claim is a new one, the holder's report ends exactly   *)
(* the claim it names, and a wake that is over stays over.                 *)
(* AgentWakes implements it.                                               *)
(***************************************************************************)
EXTENDS Naturals

CONSTANTS Wakes, Records, NoRecord

VARIABLES
  phase,   \* absent, open (waiting), held (a claim is out) or over
  about,   \* the record a wake is about
  claim,   \* the claim a held wake is held under, else 0
  issued,  \* claims are numbered in the order they are handed out
  reported \* the reports taken: <<claim named, claim ended>>

vars == <<phase, about, claim, issued, reported>>

Open(w) == phase[w] \in {"open", "held"}

Init ==
  /\ phase = [w \in Wakes |-> "absent"]
  /\ about = [w \in Wakes |-> NoRecord]
  /\ claim = [w \in Wakes |-> 0]
  /\ issued = 0
  /\ reported = {}

\* A wake is made for a record no open wake is about.
Make(w, rec) ==
  /\ phase[w] = "absent"
  /\ \A v \in Wakes : Open(v) => about[v] # rec
  /\ phase' = [phase EXCEPT ![w] = "open"]
  /\ about' = [about EXCEPT ![w] = rec]
  /\ UNCHANGED <<claim, issued, reported>>

Grant(w) ==
  /\ phase[w] = "open"
  /\ phase' = [phase EXCEPT ![w] = "held"]
  /\ issued' = issued + 1
  /\ claim' = [claim EXCEPT ![w] = issued + 1]
  /\ UNCHANGED <<about, reported>>

\* The report on claim c: the wake is over, or waits for another claim.
Report(w, c, next) ==
  /\ phase[w] = "held"
  /\ claim[w] = c
  /\ phase' = [phase EXCEPT ![w] = next]
  /\ claim' = [claim EXCEPT ![w] = 0]
  /\ <<c, c>> \notin reported
  /\ reported' = reported \cup {<<c, c>>}
  /\ UNCHANGED <<about, issued>>

\* Open wakes are taken back or ended by somebody else than their holder.
Withdraw(S) ==
  /\ \A w \in S : Open(w)
  /\ \E next \in [S -> {"open", "over"}] :
       phase' = [w \in Wakes |-> IF w \in S THEN next[w] ELSE phase[w]]
  /\ claim' = [w \in Wakes |-> IF w \in S THEN 0 ELSE claim[w]]
  /\ UNCHANGED <<about, issued, reported>>

Next ==
  \/ \E w \in Wakes :
       \/ \E rec \in Records : Make(w, rec)
       \/ Grant(w)
       \/ \E next \in {"open", "over"} : Report(w, claim[w], next)
  \/ \E S \in SUBSET Wakes : Withdraw(S)

Spec == Init /\ [][Next]_vars
=============================================================================
