--------------------------- MODULE DesktopUpgrade ---------------------------
(***************************************************************************)
(* The first start of a newer desktop App on a workspace with a database.  *)
(* A supervisor takes the lock of the workspace, captures a baseline,      *)
(* starts services that migrate the data, and commits the new version once *)
(* they answer.  When the start fails, or was interrupted before the       *)
(* commit, what it left is moved aside and the baseline moved back, entry  *)
(* by entry, as a journal says.  A supervisor can be killed anywhere; its  *)
(* services live on for a moment, and hold the lock, which they inherited. *)
(*                                                                         *)
(* An entry is a top level name of the workspace, without those the swap   *)
(* leaves alone (lock, status, logs, secrets).  Of its content the version *)
(* that wrote it and the latest user edit in it are told apart.            *)
(***************************************************************************)
EXTENDS Naturals

CONSTANTS
    App,        \* Apps and commands that open the workspace
    AppVersion, \* AppVersion[p]: the version of p
    NoApp,
    Entry,
    Manifest,   \* the entry with the version of the workspace
    Original,   \* entries there are at first; migrations create the others
    MaxEdits,   \* bound: edits
    MaxLosses   \* bound: supervisors killed, and rollbacks that raise

ASSUME UpgradeAssumption ==
    /\ NoApp \notin App
    /\ AppVersion \in [App -> Nat \ {0}]
    /\ Manifest \in Original /\ Original \subseteq Entry
    /\ MaxEdits \in Nat /\ MaxLosses \in Nat

VARIABLES
    root,      \* the workspace
    baseline,  \* what the backup of the transaction holds
    staging,   \* "restored": the verified copy of it
    aside,     \* "failed-start": what the failed start left
    journal,   \* transaction.json
    shell,     \* shell[p]: where a supervisor is, and whether it has committed
    services,  \* whose services run
    edits,     \* edits the user has made
    kept,      \* what the workspace has to hold once no upgrade is under way
    losses     \* supervisors killed so far

Folders == <<root, baseline, staging, aside>>
Ghosts == <<edits, kept, losses>>
upgradeVars == <<Folders, journal, shell, services, Ghosts>>

Absent == [version |-> 0, edit |-> 0]
Content == [version : Nat \ {0}, edit : Nat]
Folder == [Entry -> Content \cup {Absent}]
Empty == [e \in Entry |-> Absent]
EntriesIn(folder) == {e \in Entry : folder[e] # Absent}

UpgradePhase == {"none", "prepared", "evacuating", "restoring", "committed", "rolled-back"}
FaultyOver == {"none", "rolled-back"}  \* a commit does not end the transaction
Over == {"none", "committed", "rolled-back"}  \* "none": there is no journal
Off == [at |-> "off", committed |-> FALSE]
Recovering == {"prepare", "inspect", "undo"}

UpgradeTypeOK ==
    /\ root \in Folder /\ baseline \in Folder /\ staging \in Folder /\ aside \in Folder
    /\ journal \in [phase : UpgradePhase, entries : SUBSET Entry]
    /\ shell \in [App -> [at : {"off", "capture", "launch", "starting", "committing", "ready", "ending"}
                              \cup Recovering, committed : BOOLEAN]]
    /\ services \in App \cup {NoApp}
    /\ edits \in 0..MaxEdits /\ kept \in Folder /\ losses \in 0..MaxLosses

UpgradeInit ==
    /\ \E p \in App :
          root = [e \in Entry |-> IF e \in Original THEN [version |-> AppVersion[p], edit |-> 0] ELSE Absent]
    /\ baseline = Empty /\ staging = Empty /\ aside = Empty
    /\ journal = [phase |-> "none", entries |-> {}]
    /\ shell = [p \in App |-> Off] /\ services = NoApp
    /\ edits = 0 /\ kept = root /\ losses = 0

Unsettled == journal.phase \notin Over
To(p, at) == shell' = [shell EXCEPT ![p].at = at]
SaveJournal(phase) == journal' = [journal EXCEPT !.phase = phase]
-----------------------------------------------------------------------------
FaultyLockFree == \A p \in App : shell[p].at = "off"  \* services do not inherit the lock
LockFree == services = NoApp /\ \A p \in App : shell[p].at = "off"

\* supervise(); and, before a workspace is inspected, recover_interrupted().
Open(p) ==
    /\ LockFree
    /\ To(p, "prepare")
    /\ UNCHANGED <<Folders, journal, services, Ghosts>>
Inspect(p) ==
    /\ LockFree /\ Unsettled
    /\ To(p, "inspect")
    /\ UNCHANGED <<Folders, journal, services, Ghosts>>

\* prepare() and inspect_workspace(): a workspace of a newer version is refused, one of
\* the same version needs no baseline.  A backup has a name of its own, and counts from
\* the moment the journal names it.
Version == root[Manifest].version
Prepare(p) ==
    /\ shell[p].at = "capture"
    /\ \/ Version > AppVersion[p] /\ To(p, "ending") /\ UNCHANGED <<baseline, staging, aside, journal>>
       \/ Version = AppVersion[p] /\ To(p, "launch") /\ UNCHANGED <<baseline, staging, aside, journal>>
       \/ /\ Version < AppVersion[p] /\ To(p, "launch")
          /\ baseline' = root /\ staging' = Empty /\ aside' = Empty
          /\ SaveJournal("prepared")
    /\ UNCHANGED <<root, services, Ghosts>>

Launch(p) ==
    /\ shell[p].at = "launch"
    /\ services' = p /\ To(p, "starting")
    /\ UNCHANGED <<Folders, journal, Ghosts>>

\* The services of a newer version migrate the data, and create some, one entry after
\* the other, before they answer; the supervisor need not be there any more.
Migrated == \A e \in Entry \ {Manifest} : root[e].version = AppVersion[services]
MigrateEntry(e) ==
    /\ services # NoApp /\ e # Manifest
    /\ Version # AppVersion[services] /\ root[e].version # AppVersion[services]
    /\ root' = [root EXCEPT ![e].version = AppVersion[services]]
    /\ UNCHANGED <<baseline, staging, aside, journal, shell, services, Ghosts>>

\* commit(): nothing to do without a transaction; otherwise the version of the workspace
\* comes first, then the journal, whose save can take effect and raise.
Respond(p) ==
    /\ shell[p].at = "starting" /\ services = p
    /\ \/ ~Unsettled /\ shell' = [shell EXCEPT ![p] = [at |-> "ready", committed |-> TRUE]] /\ UNCHANGED root
       \/ /\ Unsettled /\ Migrated
          /\ root' = [root EXCEPT ![Manifest].version = AppVersion[p]]
          /\ To(p, "committing")
    /\ UNCHANGED <<baseline, staging, aside, journal, services, Ghosts>>
SaveCommitted(p) ==
    /\ shell[p].at = "committing"
    /\ SaveJournal("committed") /\ kept' = root
    /\ \/ shell' = [shell EXCEPT ![p] = [at |-> "ready", committed |-> TRUE]]
       \/ To(p, "ending")
    /\ UNCHANGED <<Folders, services, edits, losses>>

\* The user works with the App.  The services finish what they do when it is killed.
Edit(e) ==
    /\ services # NoApp /\ e # Manifest /\ root[e] # Absent
    /\ shell[services].at = "ready" \/ (shell[services].at = "off" /\ ~Unsettled)
    /\ edits < MaxEdits /\ edits' = edits + 1
    /\ root' = [root EXCEPT ![e].edit = edits + 1]
    /\ kept' = root'
    /\ UNCHANGED <<baseline, staging, aside, journal, shell, services, losses>>
-----------------------------------------------------------------------------
\* A start that fails, times out or is closed, or a ready App that stops: the services
\* are terminated ...
StartFails(p) ==
    /\ shell[p].at \in {"capture", "launch", "starting", "committing", "ready"}
    /\ To(p, "ending")
    /\ UNCHANGED <<Folders, journal, services, Ghosts>>

\* ... and what was not committed is rolled back.
End(p) ==
    /\ shell[p].at = "ending"
    /\ services' = NoApp
    /\ shell' = [shell EXCEPT ![p] = IF shell[p].committed THEN Off ELSE [Off EXCEPT !.at = "undo"]]
    /\ UNCHANGED <<Folders, journal, Ghosts>>

\* rollback().  While the journal says "prepared", the baseline is staged again and
\* verified; then the entries of the failed start are listed ...
Rolling(p, phase) == shell[p].at \in Recovering /\ journal.phase = phase
Stage(p) ==
    /\ Rolling(p, "prepared") /\ staging # baseline
    /\ staging' = baseline
    /\ UNCHANGED <<root, baseline, aside, journal, shell, services, Ghosts>>
SaveEvacuating(p) ==
    /\ Rolling(p, "prepared") /\ staging = baseline
    /\ journal' = [phase |-> "evacuating", entries |-> EntriesIn(root)]
    /\ UNCHANGED <<Folders, shell, services, Ghosts>>

\* ... and moved aside.  An entry that is in both places, or in none, stops the rollback.
Evacuate(p, e) ==
    /\ Rolling(p, "evacuating") /\ e \in journal.entries
    /\ root[e] # Absent /\ aside[e] = Absent
    /\ aside' = [aside EXCEPT ![e] = root[e]]
    /\ root' = [root EXCEPT ![e] = Absent]
    /\ UNCHANGED <<baseline, staging, journal, shell, services, Ghosts>>
SaveRestoring(p) ==
    /\ Rolling(p, "evacuating")
    /\ \A e \in journal.entries : root[e] = Absent /\ aside[e] # Absent
    /\ SaveJournal("restoring")
    /\ UNCHANGED <<Folders, shell, services, Ghosts>>

FaultyRestore(p, e) ==  \* the entry is copied, and stays in the staging folder
    /\ Rolling(p, "restoring") /\ staging[e] # Absent /\ root[e] = Absent
    /\ root' = [root EXCEPT ![e] = staging[e]]
    /\ UNCHANGED <<staging, baseline, aside, journal, shell, services, Ghosts>>

\* Then the staged entries are moved back; one that is there already stops the rollback.
Restore(p, e) ==
    /\ Rolling(p, "restoring") /\ staging[e] # Absent /\ root[e] = Absent
    /\ root' = [root EXCEPT ![e] = staging[e]]
    /\ staging' = [staging EXCEPT ![e] = Absent]
    /\ UNCHANGED <<baseline, aside, journal, shell, services, Ghosts>>
SaveRolledBack(p) ==
    /\ Rolling(p, "restoring") /\ EntriesIn(staging) = {}
    /\ SaveJournal("rolled-back")
    /\ UNCHANGED <<Folders, shell, services, Ghosts>>

\* A supervisor that was asked to open goes on, the others are done.
RecoveryEnds(p) ==
    /\ shell[p].at \in Recovering /\ ~Unsettled
    /\ shell' = [shell EXCEPT ![p] = IF shell[p].at = "prepare" THEN [Off EXCEPT !.at = "capture"] ELSE Off]
    /\ UNCHANGED <<Folders, journal, services, Ghosts>>

\* The process is killed, or its rollback raises; services notice within a second.
Lost(p) ==
    /\ shell[p].at # "off" /\ losses < MaxLosses
    /\ losses' = losses + 1
    /\ shell' = [shell EXCEPT ![p] = Off]
    /\ UNCHANGED <<Folders, journal, services, edits, kept>>
OrphansExit ==
    /\ services # NoApp /\ shell[services].at = "off"
    /\ services' = NoApp
    /\ UNCHANGED <<Folders, journal, shell, Ghosts>>
-----------------------------------------------------------------------------
UndoStep(p) ==
    \/ Stage(p) \/ SaveEvacuating(p) \/ SaveRestoring(p) \/ SaveRolledBack(p) \/ RecoveryEnds(p)
    \/ \E e \in Entry : Evacuate(p, e) \/ Restore(p, e)
Supervise(p) ==
    Prepare(p) \/ Launch(p) \/ Respond(p) \/ SaveCommitted(p) \/ StartFails(p) \/ End(p) \/ UndoStep(p)
UpgradeNext ==
    \/ \E p \in App : Open(p) \/ Inspect(p) \/ Supervise(p) \/ Lost(p)
    \/ \E e \in Entry : MigrateEntry(e) \/ Edit(e)
    \/ OrphansExit

\* A start answers or times out, a rollback goes on, orphans leave, and a user whose
\* workspace was not opened opens it again.
UpgradeFairness ==
    /\ \A p \in App : WF_upgradeVars(shell[p].at # "ready" /\ Supervise(p))
    /\ WF_upgradeVars(Unsettled /\ \E p \in App : Open(p))
    /\ WF_upgradeVars(OrphansExit)
UpgradeSpec == UpgradeInit /\ [][UpgradeNext]_upgradeVars /\ UpgradeFairness
-----------------------------------------------------------------------------
\* "Restoring only SQLite was rejected because snapshot pointers, imports and settings
\* must agree" (desktop-upgrade-recovery.md): however often starts and rollbacks were cut
\* short, services are started on a workspace that is whole, no entry migrated, missing
\* or left from a failed start.
StartsWhole == [][services' # services /\ services' # NoApp => root = kept]_upgradeVars

\* "A later runtime failure after commit does not rewind new financial records": what the
\* user has is in the workspace, or, while an upgrade is under way, in the baseline it
\* would be rolled back to.
RecordsKept == IF Unsettled THEN baseline = kept ELSE root = kept

\* "An interrupted transaction resumes recovery on next open": it ends, and no conflict
\* among the entries ever stops it for good.
UpgradeSettles == Unsettled ~> ~Unsettled
=============================================================================
