--------------------------- MODULE MCAutomationJobs ---------------------------
(***************************************************************************)
(* Instances of AutomationJobs for TLC.                                    *)
(***************************************************************************)
EXTENDS AutomationJobs

\* A bound: a request that lost the race for an approval answers its person before a
\* worker claims the job of that approval (it changes nothing any more).
LosersAnswer ==
  \A r \in Requests : request[r].pc = "decide" /\ ~Wins(request[r])
                        => job[request[r].id].status \in {"none", "queued"}

PromptSpec == Init /\ [][Next /\ LosersAnswer']_vars /\ Fairness
=============================================================================
