--------------------------- MODULE ServiceRetention ---------------------------
(***************************************************************************)
(* The cleanup of releases that deployments left behind, next to the       *)
(* deployments themselves.  A plan is made, reviewed, and applied later;   *)
(* planning and applying hold the deployment lock.  Each release is moved  *)
(* to a quarantine and removed, the records that name it are marked, and a *)
(* journal tells how far that came; the process can die anywhere.          *)
(*                                                                         *)
(* Age, local changes and running processes only make fewer releases       *)
(* eligible: any set of the others may be planned.                         *)
(***************************************************************************)
EXTENDS ReleaseManager

CONSTANT MaxSweepFaults  \* bound: times the cleanup is killed

ASSUME SweepAssumption == MaxSweepFaults \in Nat

VARIABLES
    plan,        \* the releases of the latest plan, and the context it was made in
    sweep,       \* the run of the cleanup: its step, its releases, the one at hand
    unfinished,  \* a journal of an interrupted removal exists
    sweepFaults  \* times the cleanup was killed

retentionVars == <<releaseVars, plan, sweep, unfinished, sweepFaults>>

Context == <<app, record>>
NoPlan == [items |-> {}, context |-> <<>>]
NoSweep == [at |-> "none", items |-> {}, item |-> 0]

RetentionTypeOK ==
    /\ ReleaseTypeOK
    /\ plan.items \subseteq Release
    /\ sweep \in [at : {"none", "next", "detach", "remove", "mark"},
                  items : SUBSET Release, item : Release]
    /\ unfinished \in BOOLEAN
    /\ sweepFaults \in 0..MaxSweepFaults

RetentionInit ==
    /\ ReleaseInit
    /\ plan = NoPlan /\ sweep = NoSweep /\ unfinished = FALSE /\ sweepFaults = 0

FaultyNames(n, r) == r = n  \* only the record of the deployment that built it

\* The record of deployment n names the directory of release r.
Names(n, r) == n <= begun /\ (r = n \/ (r = record[n].previous /\ PathMade(n)))

Known == {r \in Release : \E n \in Deployment : Names(n, r)}

\* _context(): from a release to the one its healthy deployment replaced.
Hop(r) == IF r \in Deployment /\ record[r].phase = "healthy" THEN {record[r].previous} ELSE {}

FaultyProtected ==  \* unfinished deployments are not protected
    {app} \cup Hop(app) \cup UNION {Hop(r) : r \in Hop(app)}

Protected ==
    {app} \cup Hop(app) \cup UNION {Hop(r) : r \in Hop(app)}
          \cup {r \in Release : \E n \in 1..begun : record[n].phase \notin Terminal /\ Names(n, r)}

Eligible == (releases \cap Known) \ Protected

HasLock == control.at = "rest" /\ app \in releases

\* plan()
MakePlan ==
    /\ HasLock /\ sweep.at = "none"
    /\ \E items \in (SUBSET Eligible) \ {{}} : plan' = [items |-> items, context |-> Context]
    /\ UNCHANGED <<releaseVars, sweep, unfinished, sweepFaults>>

FaultyPlanHolds ==  \* the plan is not compared with the deployments
    plan.items \subseteq releases

PlanHolds == plan.context = Context /\ plan.items \subseteq Eligible

\* _apply_locked(): the whole plan is checked, at most so many items are selected.
Apply ==
    /\ HasLock /\ sweep.at = "none" /\ plan.items # {}
    /\ ~unfinished /\ PlanHolds
    /\ \E items \in (SUBSET plan.items) \ {{}} : sweep' = [NoSweep EXCEPT !.at = "next", !.items = items]
    /\ plan' = NoPlan
    /\ UNCHANGED <<releaseVars, unfinished, sweepFaults>>

\* _cleanup_batches(): a release is a batch of its own. It begins with a journal.
NextItem ==
    /\ sweep.at = "next"
    /\ IF sweep.items = {} THEN sweep' = NoSweep /\ UNCHANGED unfinished
       ELSE /\ \E r \in sweep.items :
                  sweep' = [at |-> "detach", items |-> sweep.items \ {r}, item |-> r]
            /\ unfinished' = TRUE
    /\ UNCHANGED <<releaseVars, plan, sweepFaults>>

Detach ==
    /\ sweep.at = "detach"
    /\ releases' = releases \ {sweep.item}
    /\ sweep' = [sweep EXCEPT !.at = "remove"]
    /\ UNCHANGED <<app, moved, built, host, loaded, record, saved, begun, control, owed, overtaken, mishaps>>
    /\ UNCHANGED <<plan, unfinished, sweepFaults>>

Remove ==
    /\ sweep.at = "remove"
    /\ sweep' = [sweep EXCEPT !.at = "mark"]
    /\ UNCHANGED <<releaseVars, plan, unfinished, sweepFaults>>

\* One record after the other: recovery is refused from then on.
Retire(n) ==
    /\ sweep.at = "mark" /\ Names(n, sweep.item) /\ ~record[n].retired
    /\ record' = [record EXCEPT ![n].retired = TRUE]
    /\ UNCHANGED <<app, releases, moved, built, host, loaded, saved, begun, control, owed, overtaken, mishaps>>
    /\ UNCHANGED <<plan, sweep, unfinished, sweepFaults>>

\* The journal says "removed".
ItemDone ==
    /\ sweep.at = "mark"
    /\ \A n \in Deployment : Names(n, sweep.item) => record[n].retired
    /\ sweep' = [sweep EXCEPT !.at = "next"] /\ unfinished' = FALSE
    /\ UNCHANGED <<releaseVars, plan, sweepFaults>>

SweepDies ==
    /\ sweep.at # "none" /\ sweepFaults < MaxSweepFaults
    /\ sweepFaults' = sweepFaults + 1
    /\ sweep' = NoSweep
    /\ UNCHANGED <<releaseVars, plan, unfinished>>

SweepStep == NextItem \/ Detach \/ Remove \/ ItemDone \/ \E n \in Deployment : Retire(n)

\* The locks: no deployment or recovery while the cleanup runs.
DeploymentStep ==
    sweep.at = "none" /\ ReleaseNext /\ UNCHANGED <<plan, sweep, unfinished, sweepFaults>>

RetentionNext == DeploymentStep \/ MakePlan \/ Apply \/ SweepStep \/ SweepDies

\* launchd and the operator let a controller run on, and the operator comes back to
\* each record that is owed, also while another one cannot be recovered.
Settle(n) ==
    n \in owed /\ sweep.at = "none" /\ Recover(n) /\ UNCHANGED <<plan, sweep, unfinished, sweepFaults>>
Controls == sweep.at = "none" /\ ControllerStep /\ UNCHANGED <<plan, sweep, unfinished, sweepFaults>>

RetentionSpec ==
    /\ RetentionInit /\ [][RetentionNext]_retentionVars
    /\ WF_retentionVars(Controls)
    /\ WF_retentionVars(SweepStep)
    /\ \A n \in Deployment : SF_retentionVars(Settle(n))
-----------------------------------------------------------------------------
\* Deployment n began on the plain directory, was interrupted before it moved it, and
\* another one has moved it since: the path in the record of n will never exist, and
\* the record is accepted by --recover and of no use.
Stranded(n) == record[n].inPlace /\ moved \notin {0, n}

\* "Recovery records whose runtimes were removed are marked retired"
\* (storage-maintenance.md:163): every record that --recover accepts, however old
\* and after whichever rollbacks, still finds the release it goes back to, at the path
\* it names or under "app", unless it is stranded. An interrupted removal is to be
\* inspected first.
RollbackAvailable ==
    sweep.at = "none" /\ ~unfinished =>
        \A n \in Deployment : Recoverable(n) => PreviousExists(n) \/ AtOriginal(n) \/ Stranded(n)

\* A cutover that began is settled in the end, by acceptance or by a rollback, unless
\* it is stranded: no kill of a controller, and no cleanup that ran while the cutover
\* was owed its end, costs it the way back.
CutoversSettle == \A n \in Deployment : n \in owed ~> n \notin owed \/ unfinished \/ Stranded(n)
=============================================================================
