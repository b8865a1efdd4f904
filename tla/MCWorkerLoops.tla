---------------------------- MODULE MCWorkerLoops ----------------------------
\* The loops that execute jobs: the main loops of two processes that compete for a job, or
\* the main loop and the "system" thread of one process with a system job.  The initial
\* state picks which; the other workers stay stopped.
EXTENDS MCDurableWorker

CONSTANT w3

AllWorkers == {w1, w2, w3}
LiveOrSystem == {"live", "system"}

VARIABLE part  \* the loops that run
Loops == IF part = "processes" THEN {w1, w2} ELSE {w1, w3}
Requested == IF part = "processes" THEN "live" ELSE "system"

LoopsInit == WorkerInit /\ part \in {"processes", "threads"}
LoopsNext ==
    /\ WorkerNext /\ UNCHANGED part
    /\ \A w \in Worker \ Loops : pc'[w] = "stopped"
    /\ \A j \in Job : status'[j] # "absent" => trigger'[j] = Requested

\* The fairness of the workers of the part.
LoopsVars == <<part, workerVars>>
LoopsSpec ==
    /\ LoopsInit /\ [][LoopsNext]_LoopsVars
    /\ \A w \in Worker : WF_workerVars(w \in Loops /\ (Start(w) \/ Poll(w) \/ Run(w)))
    /\ \A j \in Job : WF_workerVars(LeaseLapses(j))
=============================================================================
