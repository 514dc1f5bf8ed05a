----------------------------- MODULE MCJobQueue ------------------------------
(* Three jobs, two of them of the same priority.                           *)
EXTENDS JobQueue

CONSTANTS low, high, also

MCJobs     == {low, high, also}
MCImpatient == {high}
MCPriority == [j \in MCJobs |-> IF j = low THEN 1 ELSE 2]
==============================================================================
