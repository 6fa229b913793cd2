---------------------------- MODULE MCWakeLeases ----------------------------
(***************************************************************************)
(* Instances of AgentWakes for TLC in which leases lapse: in one part of   *)
(* the runs wakes follow wakes on one Runner, in the other one wake passes *)
(* between Runners.                                                        *)
(***************************************************************************)
EXTENDS AgentWakes

CONSTANTS
  First,   \* the wake, and
  Home     \* the Runner, of both parts

VARIABLE part

\* Wakes follow wakes: the agent stays with one Runner.
OneRunner ==
  /\ assigned \in {Home, NoRunner}
  /\ assigning = {}
  /\ \A p \in Polls : poll[p].runner \in {Home, NoRunner}

\* One wake, whose sessions do not end by themselves, on any Runner.
OneWake ==
  /\ \A w \in Wakes \ {First} : wake[w].status = "absent"
  /\ commented = {}
  /\ \A s \in sessions : s.phase = "running"

Within == IF part = "wakes" THEN OneRunner ELSE OneWake

Stays == part = "wakes" => assigned' = assigned

PartsInit == Init /\ part \in {"wakes", "runners"} /\ Within

PartsSpec == PartsInit /\ [][Next /\ part' = part /\ Stays /\ Within']_<<vars, part>>
=============================================================================
