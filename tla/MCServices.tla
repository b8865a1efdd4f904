----------------------------- MODULE MCServices -----------------------------
\* What runs beside the jobs table: the cache of loads, the logins and the alert monitor of
\* the API process, the background backup, and the upgrade of a desktop workspace.  They
\* share no variable: the initial state picks the one that runs.
EXTENDS SingleFlight, OAuthLogin, AlertMonitor, BackgroundBackup, DesktopUpgrade, TLC

CONSTANTS c1, c2, k1, k2, k3, r1, r2, i1, old, new, manifest, database, created

\* An App of the old and one of the new version.
Versions == old :> 1 @@ new :> 2

\* The position of the first snapshot is sold in the second.
Sold == [n \in 1..MonitorSnapshots |-> IF n = 1 THEN {i1} ELSE {}]

VARIABLE part  \* the component that runs

ServicesInit ==
    /\ part \in {"cache", "login", "monitor", "backup", "upgrade"}
    /\ CallInit /\ (part # "cache" => key = [c \in Caller |-> k1])
    /\ OAuthInit
    /\ MonitorInit
    /\ BackupInit
    /\ UpgradeInit /\ (part # "upgrade" => Version = 1)

ServicesNext ==
    /\ UNCHANGED part
    /\ \/ part = "cache" /\ CallNext /\ UNCHANGED <<oauthVars, monitorVars, backupVars, upgradeVars>>
       \/ part = "login" /\ OAuthNext /\ UNCHANGED <<callVars, monitorVars, backupVars, upgradeVars>>
       \/ part = "monitor" /\ MonitorNext /\ UNCHANGED <<callVars, oauthVars, backupVars, upgradeVars>>
       \/ part = "backup" /\ BackupNext /\ UNCHANGED <<callVars, oauthVars, monitorVars, upgradeVars>>
       \/ part = "upgrade" /\ UpgradeNext /\ UNCHANGED <<callVars, oauthVars, monitorVars, backupVars>>

\* The fairness of the specifications.
ServicesVars == <<part, callVars, oauthVars, monitorVars, backupVars, upgradeVars>>
ServicesSpec ==
    /\ ServicesInit /\ [][ServicesNext]_ServicesVars
    /\ \A c \in Caller : WF_callVars(part = "cache" /\ Proceed(c))
    /\ WF_monitorVars(part = "monitor" /\ Visit("thread"))
    /\ SF_monitorVars(part = "monitor" /\ LoadState("thread", TRUE))
    /\ WF_monitorVars(part = "monitor" /\ visit["request"].at # "rest" /\ Visit("request"))
    /\ WF_monitorVars(part = "monitor" /\ IntervalPasses)
    /\ WF_backupVars(part = "backup" /\ StartJob(FALSE))
    /\ WF_backupVars(part = "backup" /\ JobStep)
    /\ WF_backupVars(part = "backup" /\ Capturing)
    /\ WF_backupVars(part = "backup" /\ EndDeployment)
    /\ \A p \in App : WF_upgradeVars(part = "upgrade" /\ shell[p].at # "ready" /\ Supervise(p))
    /\ WF_upgradeVars(part = "upgrade" /\ Unsettled /\ \E p \in App : Open(p))
    /\ WF_upgradeVars(part = "upgrade" /\ OrphansExit)
=============================================================================
