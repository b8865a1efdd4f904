---------------------------- MODULE JobLifecycle ----------------------------
(***************************************************************************)
(* What the durable queue promises to a caller that only watches one job:  *)
(* it is queued once, runs under one owner at a time, may be taken over by *)
(* another owner or returned to the queue, and once it is finished nothing *)
(* about it changes again.                                                 *)
(***************************************************************************)
CONSTANTS
    Worker,   \* worker identifiers
    NoWorker  \* the owner of a job nobody holds

VARIABLES
    phase,    \* the status of the job, "absent" before it is submitted
    holder    \* the worker executing it

vars == <<phase, holder>>

Terminal == {"succeeded", "failed", "interrupted"}

Init == phase = "absent" /\ holder = NoWorker

Submit ==
    /\ phase = "absent"
    /\ phase' = "queued"
    /\ UNCHANGED holder

\* A worker takes the job from the queue, or from an owner that went silent.
Take(w) ==
    /\ phase \in {"queued", "running"}
    /\ phase' = "running"
    /\ holder' = w

\* The owner hands the job back for another attempt.
Return ==
    /\ phase = "running"
    /\ phase' = "queued"
    /\ holder' = NoWorker

\* The job ends; one that never ran can only be interrupted.
End(outcome) ==
    /\ \/ phase = "running"
       \/ phase = "queued" /\ outcome = "interrupted"
    /\ phase' = outcome
    /\ holder' = NoWorker

Next ==
    \/ Submit
    \/ Return
    \/ \E w \in Worker : Take(w)
    \/ \E outcome \in Terminal : End(outcome)

Spec == Init /\ [][Next]_vars
=============================================================================
