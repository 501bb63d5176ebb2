------------------------------ MODULE TaskPool ------------------------------
(***************************************************************************)
(* What a pool of threads promises to its user: a job that is run is       *)
(* executed once, and join returns after that.                             *)
(***************************************************************************)
CONSTANT Jobs

VARIABLE job    \* how far each job has come

Init == job = [j \in Jobs |-> "new"]

Run(j) == job[j] = "new" /\ job' = [job EXCEPT ![j] = "accepted"]
Execute(j) == job[j] = "accepted" /\ job' = [job EXCEPT ![j] = "executed"]
Join(j) == job[j] = "executed" /\ job' = [job EXCEPT ![j] = "joined"]

Next == \E j \in Jobs : Run(j) \/ Execute(j) \/ Join(j)

Safety == Init /\ [][Next]_job

\* Every job that was accepted is executed.
Spec == Safety /\ \A j \in Jobs : WF_job(Execute(j))
=============================================================================
