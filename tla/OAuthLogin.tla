----------------------------- MODULE OAuthLogin -----------------------------
(***************************************************************************)
(* The connection to a provider that is logged in to with a device code:   *)
(* one credential in the store of the operating system, one row of the     *)
(* settings.  The API process keeps one login session, in memory; a thread *)
(* of its own follows the child process that talks to the provider.        *)
(* Whoever runs inference, in whatever process, has the credential         *)
(* resolved first, and the provider may hand out the next one and refuse   *)
(* the one it was given from then on.                                      *)
(*                                                                         *)
(* Two locks order all this: the manager's, held by a request or by the    *)
(* thread of a login, and a lock file that login, logout and refresh share *)
(* across processes.  Each is held in certain places of its holders, so    *)
(* that no variable stands for it.  A child can end at any time (it is     *)
(* terminated by a cancellation, killed by the watchdog): it then says no  *)
(* more than one that failed.                                              *)
(***************************************************************************)
EXTENDS Integers

CONSTANTS
    Refresher,   \* threads that have the credential resolved before inference
    MaxLogins,   \* bound: logins begun
    MaxTurns,    \* bound: times the provider renews the credential of a login
    MaxMishaps   \* bound: stores that fail, busy locks, lost replies and kills

ASSUME OAuthAssumption == MaxLogins \in Nat /\ MaxTurns \in Nat /\ MaxMishaps \in Nat

VARIABLES
    stored,    \* the credential in the store
    row,       \* the login whose model and fingerprint integration_settings shows, 0 without
    issued,    \* issued[n]: how often the provider has renewed the credential of login n
    logins,    \* logins begun
    session,   \* OAuthLoginManager._session
    thread,    \* thread[n]: how far _run() of login n is
    line,      \* line[n]: what its child has said and the thread has not read
    previous,  \* what save() would put back
    logout,    \* how far disconnect() is
    call,      \* call[r]: how far authorize() is and with which credential
    revoked,   \* logins cancelled before they were stored, or begun before a logout
    torn,      \* something was cut short between two of its writes
    mishaps

oauthVars == <<stored, row, issued, logins, session, thread, line, previous, logout, call,
               revoked, torn, mishaps>>

Login == 1..MaxLogins
Credential == [login : Login, turn : 0..MaxTurns]
NoCredential == [login |-> 0, turn |-> 0]
Active == {"starting", "pending"}
NoSession == [id |-> 0, state |-> "none"]
Resting == [at |-> "rest", with |-> NoCredential]

SessionState == [id : Login, state : Active \cup {"connected", "cancelled", "failed"}] \cup {NoSession}
CallState == [at : {"resolve", "put"}, with : Credential] \cup {Resting}
OAuthTypeOK ==
    /\ stored \in Credential \cup {NoCredential} /\ previous \in Credential \cup {NoCredential}
    /\ row \in {0} \cup Login /\ issued \in [Login -> 0..MaxTurns] /\ logins \in {0} \cup Login
    /\ session \in SessionState
    /\ thread \in [Login -> {"none", "begun", "listening", "waiting", "saving", "raised", "over"}]
    /\ line \in [Login -> {"none", "code", "credential", "end"}]
    /\ logout \in {"rest", "waiting", "deleting"}
    /\ call \in [Refresher -> CallState]
    /\ revoked \subseteq Login /\ torn \in BOOLEAN /\ mishaps \in 0..MaxMishaps

OAuthInit ==
    /\ stored = NoCredential /\ previous = NoCredential /\ row = 0
    /\ issued = [n \in Login |-> 0] /\ logins = 0 /\ session = NoSession
    /\ thread = [n \in Login |-> "none"] /\ line = [n \in Login |-> "none"]
    /\ logout = "rest" /\ call = [r \in Refresher |-> Resting]
    /\ revoked = {} /\ torn = FALSE /\ mishaps = 0

\* Who saves a login and who logs out hold the manager's lock while they wait for the file.
ManagerFree == logout = "rest" /\ \A n \in Login : thread[n] \notin {"waiting", "saving"}

FaultyFileFree ==  \* the refreshed credential is put back after the lock
    /\ logout # "deleting" /\ \A n \in Login : thread[n] # "saving"
    /\ \A r \in Refresher : call[r].at # "resolve"
FileFree ==
    /\ logout # "deleting" /\ \A n \in Login : thread[n] # "saving"
    /\ \A r \in Refresher : call[r].at = "rest"

Mishap == mishaps < MaxMishaps /\ mishaps' = mishaps + 1
-----------------------------------------------------------------------------
\* Requests.  A login that is under way is cancelled by the next one, and by a logout.
Cancelled == IF session.state \in Active THEN {session.id} \ {stored.login} ELSE {}

StartLogin ==
    /\ ManagerFree /\ logins < MaxLogins
    /\ logins' = logins + 1
    /\ session' = [id |-> logins + 1, state |-> "starting"]
    /\ thread' = [thread EXCEPT ![logins + 1] = "begun"]
    /\ revoked' = revoked \cup Cancelled
    /\ UNCHANGED <<stored, row, issued, line, previous, logout, call, torn, mishaps>>

CancelLogin ==
    /\ ManagerFree /\ session.state \in Active
    /\ session' = [session EXCEPT !.state = "cancelled"]
    /\ revoked' = revoked \cup Cancelled
    /\ UNCHANGED <<stored, row, issued, logins, thread, line, previous, logout, call, torn, mishaps>>

BeginLogout ==
    /\ ManagerFree
    /\ logout' = "waiting"
    /\ session' = IF session.state \in Active THEN [session EXCEPT !.state = "cancelled"] ELSE session
    /\ revoked' = revoked \cup Cancelled
    /\ UNCHANGED <<stored, row, issued, logins, thread, line, previous, call, torn, mishaps>>

DeleteCredential ==
    /\ logout = "waiting" /\ FileFree
    /\ stored' = NoCredential /\ logout' = "deleting"
    /\ revoked' = 1..logins
    /\ UNCHANGED <<row, issued, logins, session, thread, line, previous, call, torn, mishaps>>

DeleteRow ==
    /\ logout = "deleting"
    /\ row' = 0 /\ logout' = "rest" /\ torn' = FALSE
    /\ UNCHANGED <<stored, issued, logins, session, thread, line, previous, call, revoked, mishaps>>

LogoutFails ==
    /\ logout # "rest" /\ Mishap
    /\ logout' = "rest" /\ torn' = (torn \/ logout = "deleting")
    /\ UNCHANGED <<stored, row, issued, logins, session, thread, line, previous, call, revoked>>
-----------------------------------------------------------------------------
\* The thread of login n.  It looks at the session before it acts on what it hears, as the
\* manager: a login that is not the current one any more, or was cancelled, is dropped.
Current(n) == session.id = n /\ session.state \in Active

Finish(n, state) ==
    /\ session' = IF Current(n) THEN [session EXCEPT !.state = state] ELSE session
    /\ thread' = [thread EXCEPT ![n] = "over"]

\* Popen, and the child becomes the one a cancellation terminates.
Attach(n) ==
    /\ thread[n] = "begun" /\ ManagerFree
    /\ IF Current(n) THEN thread' = [thread EXCEPT ![n] = "listening"] /\ UNCHANGED session
                     ELSE Finish(n, "cancelled")
    /\ UNCHANGED <<stored, row, issued, logins, line, previous, logout, call, revoked, torn, mishaps>>

\* External: a child says the next thing; that it has ended is the last.
Say(n) ==
    /\ thread[n] = "listening" /\ line[n] = "none"
    /\ \E said \in {"code", "credential", "end"} : line' = [line EXCEPT ![n] = said]
    /\ UNCHANGED <<stored, row, issued, logins, session, thread, previous, logout, call, revoked, torn, mishaps>>

\* A device code is shown; a credential is saved, without giving the manager's lock away.
Hear(n) ==
    /\ thread[n] = "listening" /\ line[n] # "none" /\ ManagerFree
    /\ \/ /\ Current(n) /\ line[n] = "code"
          /\ session' = [session EXCEPT !.state = "pending"] /\ UNCHANGED thread
       \/ /\ Current(n) /\ line[n] = "credential"
          /\ thread' = [thread EXCEPT ![n] = "waiting"] /\ UNCHANGED session
       \/ ~Current(n) /\ Finish(n, "cancelled")
    /\ line' = [line EXCEPT ![n] = "none"]
    /\ UNCHANGED <<stored, row, issued, logins, previous, logout, call, revoked, torn, mishaps>>

\* An error of the child, its end without a credential, or an exception: it gives the locks
\* away, and the manager's is taken again to close the session.
BreakOff(n) ==
    /\ \/ thread[n] = "listening" /\ line[n] = "end" /\ UNCHANGED mishaps
       \/ thread[n] \in {"begun", "listening", "waiting"} /\ Mishap
    /\ thread' = [thread EXCEPT ![n] = "raised"]
    /\ line' = [line EXCEPT ![n] = "none"]
    /\ UNCHANGED <<stored, row, issued, logins, session, previous, logout, call, revoked, torn>>

Rescue(n) ==
    /\ thread[n] = "raised" /\ ManagerFree
    /\ Finish(n, "failed")
    /\ UNCHANGED <<stored, row, issued, logins, line, previous, logout, call, revoked, torn, mishaps>>

\* save(): the credential first, then the row; and the credential back if the row fails.
PutLogin(n) ==
    /\ thread[n] = "waiting" /\ FileFree
    /\ previous' = stored
    /\ stored' = [login |-> n, turn |-> 0]
    /\ thread' = [thread EXCEPT ![n] = "saving"]
    /\ UNCHANGED <<row, issued, logins, session, line, logout, call, revoked, torn, mishaps>>

SaveRow(n) ==
    /\ thread[n] = "saving"
    /\ row' = n /\ torn' = FALSE
    /\ Finish(n, "connected")
    /\ UNCHANGED <<stored, issued, logins, line, previous, logout, call, revoked, mishaps>>

FaultyUndo == stored' = NoCredential
Undo == stored' = previous
SaveFails(n) ==
    /\ thread[n] = "saving" /\ Mishap
    /\ \/ Undo /\ UNCHANGED torn
       \/ UNCHANGED stored /\ torn' = TRUE  \* nor can the credential be put back
    /\ thread' = [thread EXCEPT ![n] = "raised"]
    /\ UNCHANGED <<row, issued, logins, session, line, previous, logout, call, revoked>>
-----------------------------------------------------------------------------
\* authorize().  The provider refuses or keeps the credential or, given its latest, renews it.
BeginRefresh(r) ==
    /\ call[r].at = "rest" /\ FileFree /\ stored # NoCredential
    /\ call' = [call EXCEPT ![r] = [at |-> "resolve", with |-> stored]]
    /\ UNCHANGED <<stored, row, issued, logins, session, thread, line, previous, logout, revoked, torn, mishaps>>

Resolve(r) ==
    /\ call[r].at = "resolve"
    /\ call' = [call EXCEPT ![r] = Resting]
    /\ UNCHANGED <<stored, row, issued, logins, session, thread, line, previous, logout, revoked, torn, mishaps>>

Renewed(with) == [login |-> with.login, turn |-> with.turn + 1]
Renew(r) ==
    LET with == call[r].with
    IN  /\ call[r].at = "resolve"
        /\ with.turn = issued[with.login] /\ issued[with.login] < MaxTurns
        /\ issued' = [issued EXCEPT ![with.login] = @ + 1]
        /\ \/ /\ call' = [call EXCEPT ![r] = [at |-> "put", with |-> Renewed(with)]]
              /\ UNCHANGED <<torn, mishaps>>
           \/ /\ Mishap /\ torn' = TRUE  \* the reply is lost, or who asked is killed
              /\ call' = [call EXCEPT ![r] = Resting]
        /\ UNCHANGED <<stored, row, logins, session, thread, line, previous, logout, revoked>>

PutRenewed(r) ==
    /\ call[r].at = "put"
    /\ \/ stored' = call[r].with /\ UNCHANGED <<torn, mishaps>>
       \/ Mishap /\ torn' = TRUE /\ UNCHANGED stored
    /\ call' = [call EXCEPT ![r] = Resting]
    /\ UNCHANGED <<row, issued, logins, session, thread, line, previous, logout, revoked>>

\* The API process dies; both locks are free again, the session is forgotten.
ApiDies ==
    /\ Mishap
    /\ session' = NoSession /\ logout' = "rest"
    /\ thread' = [n \in Login |-> IF thread[n] = "none" THEN "none" ELSE "over"]
    /\ line' = [n \in Login |-> "none"]
    /\ torn' = (torn \/ logout = "deleting" \/ \E n \in Login : thread[n] = "saving")
    /\ UNCHANGED <<stored, row, issued, logins, previous, call, revoked>>

Follow(n) ==
    \/ Attach(n) \/ Say(n) \/ Hear(n) \/ BreakOff(n) \/ Rescue(n)
    \/ PutLogin(n) \/ SaveRow(n) \/ SaveFails(n)
Authorize(r) == BeginRefresh(r) \/ Resolve(r) \/ Renew(r) \/ PutRenewed(r)
OAuthNext ==
    \/ StartLogin \/ CancelLogin \/ BeginLogout \/ DeleteCredential \/ DeleteRow \/ LogoutFails \/ ApiDies
    \/ \E n \in Login : Follow(n)
    \/ \E r \in Refresher : Authorize(r)
OAuthSpec == OAuthInit /\ [][OAuthNext]_oauthVars
-----------------------------------------------------------------------------
\* "Cancellation cannot persist a late login result" (pi-ai-transport.md:88), and a logout
\* ends every login begun before it: neither a thread that is still listening nor a refresh
\* under way puts such a credential into the store.
NoLateLogin == stored.login \notin revoked

\* "Rotated tokens are persisted before inference", "failures leave the previous connection
\* intact" (pi-ai-transport.md:84-89): unless something was cut short between two writes
\* since, what the settings show is what is stored, and the provider still accepts it.
ConnectionWorks ==
    FileFree /\ ~torn =>
        stored = IF row = 0 THEN NoCredential ELSE [login |-> row, turn |-> issued[row]]
=============================================================================
