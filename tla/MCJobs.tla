------------------------------- MODULE MCJobs -------------------------------
\* The parts of the program around the jobs table, and the watchlist that its jobs
\* maintain.  They share no variable: the initial state picks the one that runs.
EXTENDS MCJobQueue, MCRefreshAdmission, RefreshAttention, WatchlistFile

CONSTANTS a, w, x, y

Roles == a :> {"add", "remove", "move", "pending", "seed"} @@ w :> {"reconcile", "classify"}

VARIABLE part  \* the component that runs

JobsInit ==
    /\ part \in {"queue", "admission", "attention", "watchlist"}
    /\ Init
    /\ AdmissionInit /\ (part # "admission" => \A c \in Client : call[c].at = "idle")
    /\ AttentionInit
    /\ WatchInit

JobsNext ==
    /\ UNCHANGED part
    /\ \/ part = "queue" /\ Next /\ UNCHANGED <<admissionVars, attentionVars, watchVars>>
       \/ part = "admission" /\ AdmissionNext /\ UNCHANGED <<vars, attentionVars, watchVars>>
       \/ part = "attention" /\ AttentionNext /\ UNCHANGED <<vars, admissionVars, watchVars>>
       \/ part = "watchlist" /\ WatchNext /\ UNCHANGED <<vars, admissionVars, attentionVars>>

JobsVars == <<part, vars, admissionVars, attentionVars, watchVars>>
JobsSpec == JobsInit /\ [][JobsNext]_JobsVars
=============================================================================
