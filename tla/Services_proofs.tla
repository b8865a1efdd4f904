--------------------------- MODULE Services_proofs ---------------------------
(*****************************************************************************)
(* What the components around the API promise, for any logins, upgrades,     *)
(* analysis runs and loads.  They share no variable; each has an invariant   *)
(* of its own.                                                               *)
(*****************************************************************************)
EXTENDS SingleFlight, AnalysisRuns, OAuthLogin, DesktopUpgrade, TLAPS

------------------------------------------------------------------------------
(*****************************************************************************)
(* Logins.  For any refreshers and numbers of logins, renewals and mishaps:  *)
(* what was cancelled or logged out does not come back, and the connection   *)
(* that is shown works.  Neither is inductive: a login can only be saved by  *)
(* the thread of a session that is still active (SessionOK), a login that    *)
(* was not saved has left no trace (UnsavedOK), one holder of the file at a  *)
(* time knows what is in the store (FileOK), and what it is about to write   *)
(* is what the row will show (ShownOK).                                      *)
(*****************************************************************************)
SessionOK ==
    /\ session.id <= logins
    /\ revoked \subseteq 1..logins
    /\ session.state \in Active => session.id \notin revoked /\ logout = "rest"
    /\ \A n \in Login : thread[n] \in {"waiting", "saving"} => Current(n)

Unsaved(n) == thread[n] \in {"none", "begun", "listening", "waiting"}
UnsavedOK ==
    /\ \A n \in Login : n > logins => thread[n] = "none"
    /\ \A n \in Login : Unsaved(n) =>
          issued[n] = 0 /\ stored.login # n /\ previous.login # n /\ row # n

FileOK ==
    /\ logout = "deleting" =>
          stored = NoCredential /\ \A r \in Refresher : call[r].at = "rest"
    /\ \A n \in Login : thread[n] = "saving" =>
          /\ stored = [login |-> n, turn |-> 0] /\ issued[n] = 0 /\ previous.login \notin revoked
          /\ \A r \in Refresher : call[r].at = "rest"
    /\ \A r \in Refresher : call[r].at # "rest" =>
          /\ stored # NoCredential /\ call[r].with.login = stored.login
          /\ \A q \in Refresher : call[q].at # "rest" => q = r
    /\ \A r \in Refresher : call[r].at = "resolve" => call[r].with = stored
    /\ \A r \in Refresher : call[r].at = "put" => call[r].with.turn = issued[stored.login]

Shown(credential) ==
    credential = IF row = 0 THEN NoCredential ELSE [login |-> row, turn |-> issued[row]]
ShownOK ==
    ~torn =>
        /\ FileFree => Shown(stored)
        /\ \A n \in Login : thread[n] = "saving" => Shown(previous)
        /\ \A r \in Refresher : call[r].at = "resolve" => Shown(stored)
        /\ \A r \in Refresher : call[r].at = "put" => row = stored.login

OAuthInv == OAuthTypeOK /\ NoLateLogin /\ SessionOK /\ UnsavedOK /\ FileOK /\ ShownOK

USE OAuthAssumption

LEMMA InitialOAuth == OAuthInit => OAuthInv
<1> SUFFICES ASSUME OAuthInit PROVE OAuthInv
  OBVIOUS
<1> USE DEF OAuthInit, Login, Credential, NoCredential, NoSession, Resting
<1>1. OAuthTypeOK
  <2>1. torn \in BOOLEAN  OBVIOUS
  <2> QED  BY <2>1 DEF OAuthTypeOK, SessionState, CallState
<1>2. NoLateLogin /\ SessionOK  BY DEF NoLateLogin, SessionOK, Active
<1>3. UnsavedOK  BY DEF UnsavedOK
<1>4. FileOK  BY DEF FileOK
<1>5. ShownOK  BY DEF ShownOK, Shown
<1> QED  BY <1>1, <1>2, <1>3, <1>4, <1>5 DEF OAuthInv

\* The session that ends, or is shown a code, is the same with another state.
LEMMA SessionChanges ==
    ASSUME OAuthTypeOK, session.state \in Active,
           NEW state \in {"pending", "connected", "cancelled", "failed"}
    PROVE  /\ session.id \in Login
           /\ [session EXCEPT !.state = state] = [id |-> session.id, state |-> state]
           /\ [session EXCEPT !.state = state] \in SessionState
<1>1. session \in [id : Login, state : Active \cup {"connected", "cancelled", "failed"}]
  BY DEF OAuthTypeOK, SessionState, NoSession, Active
<1> QED  BY <1>1 DEF SessionState, Active

LEMMA CancelledIsLogin == OAuthTypeOK => Cancelled \subseteq Login
BY SessionChanges DEF Cancelled

LEMMA ThreadEnds ==
    ASSUME OAuthTypeOK, NEW n \in Login, NEW state \in {"connected", "cancelled", "failed"},
           Finish(n, state)
    PROVE  session' \in SessionState /\ thread' = [thread EXCEPT ![n] = "over"]
BY SessionChanges DEF Finish, Current, OAuthTypeOK

LEMMA OAuthTypeStep == OAuthTypeOK /\ [OAuthNext]_oauthVars => OAuthTypeOK'
<1> SUFFICES ASSUME OAuthTypeOK, [OAuthNext]_oauthVars PROVE OAuthTypeOK'
  OBVIOUS
<1> USE DEF OAuthTypeOK, Mishap
<1>1. CASE StartLogin
  <2>1. logins + 1 \in Login  BY <1>1 DEF StartLogin, Login
  <2>2. session' \in SessionState  BY <1>1, <2>1 DEF StartLogin, SessionState, Active
  <2> QED  BY <1>1, <2>1, <2>2, CancelledIsLogin DEF StartLogin
<1>2. CASE CancelLogin  BY <1>2, CancelledIsLogin, SessionChanges DEF CancelLogin
<1>3. CASE BeginLogout  BY <1>3, CancelledIsLogin, SessionChanges DEF BeginLogout
<1>4. CASE DeleteCredential  BY <1>4 DEF DeleteCredential, Login
<1>5. CASE DeleteRow  BY <1>5 DEF DeleteRow
<1>6. CASE LogoutFails  BY <1>6 DEF LogoutFails
<1>7. CASE ApiDies  BY <1>7 DEF ApiDies, SessionState
<1>8. ASSUME NEW n \in Login, Follow(n)
     PROVE  OAuthTypeOK'
  <2>1. CASE Attach(n)  BY <2>1, ThreadEnds DEF Attach
  <2>2. CASE Say(n)  BY <2>2 DEF Say
  <2>3. CASE Hear(n)
    <3>1. session' \in SessionState /\ thread' \in [Login -> {"none", "begun", "listening", "waiting", "saving", "raised", "over"}]
      <4>1. CASE Current(n) /\ session' = [session EXCEPT !.state = "pending"] /\ UNCHANGED thread
        BY <4>1, SessionChanges DEF Current
      <4>2. CASE thread' = [thread EXCEPT ![n] = "waiting"] /\ UNCHANGED session  BY <4>2
      <4>3. CASE Finish(n, "cancelled")  BY <4>3, ThreadEnds
      <4> QED  BY <2>3, <4>1, <4>2, <4>3 DEF Hear
    <3> QED  BY <2>3, <3>1 DEF Hear
  <2>4. CASE BreakOff(n)  BY <2>4 DEF BreakOff
  <2>5. CASE Rescue(n)  BY <2>5, ThreadEnds DEF Rescue
  <2>6. CASE PutLogin(n)  BY <2>6 DEF PutLogin, Credential
  <2>7. CASE SaveRow(n)  BY <2>7, ThreadEnds DEF SaveRow
  <2>8. CASE SaveFails(n)
    <3>1. thread' \in [Login -> {"none", "begun", "listening", "waiting", "saving", "raised", "over"}]
      BY <2>8 DEF SaveFails
    <3>2. stored' \in Credential \cup {NoCredential} /\ torn' \in BOOLEAN
      BY <2>8 DEF SaveFails, Undo
    <3> QED  BY <2>8, <3>1, <3>2 DEF SaveFails
  <2> QED  BY <1>8, <2>1, <2>2, <2>3, <2>4, <2>5, <2>6, <2>7, <2>8 DEF Follow
<1>9. ASSUME NEW r \in Refresher, Authorize(r)
     PROVE  OAuthTypeOK'
  <2>1. CASE BeginRefresh(r)  BY <2>1 DEF BeginRefresh, CallState
  <2>2. CASE Resolve(r)  BY <2>2 DEF Resolve, CallState
  <2>3. CASE Renew(r)
    <3>1. call[r].with \in Credential  BY <2>3 DEF Renew, CallState, Resting
    <3>2. Renewed(call[r].with) \in Credential  BY <2>3, <3>1 DEF Renew, Renewed, Credential
    <3>3. issued' \in [Login -> 0..MaxTurns]  BY <2>3, <3>1 DEF Renew, Credential
    <3>4. call' \in [Refresher -> CallState]  BY <2>3, <3>2 DEF Renew, CallState
    <3>5. torn' \in BOOLEAN  BY <2>3, Zenon DEF Renew
    <3>6. mishaps' \in 0..MaxMishaps  BY <2>3 DEF Renew
    <3> QED  BY <2>3, <3>3, <3>4, <3>5, <3>6 DEF Renew
  <2>4. CASE PutRenewed(r)
    <3>1. call[r].with \in Credential  BY <2>4 DEF PutRenewed, CallState, Resting
    <3>2. call' \in [Refresher -> CallState]  BY <2>4 DEF PutRenewed, CallState
    <3>3. stored' \in Credential \cup {NoCredential} /\ mishaps' \in 0..MaxMishaps
      BY <2>4, <3>1 DEF PutRenewed
    <3>4. torn' \in BOOLEAN  BY <2>4, Zenon DEF PutRenewed
    <3> QED  BY <2>4, <3>2, <3>3, <3>4 DEF PutRenewed
  <2> QED  BY <1>9, <2>1, <2>2, <2>3, <2>4 DEF Authorize
<1>10. CASE UNCHANGED oauthVars  BY <1>10 DEF oauthVars
<1> QED  BY <1>1, <1>2, <1>3, <1>4, <1>5, <1>6, <1>7, <1>8, <1>9, <1>10 DEF OAuthNext

LEMMA SessionStep == OAuthInv /\ [OAuthNext]_oauthVars => SessionOK'
<1> SUFFICES ASSUME OAuthInv, [OAuthNext]_oauthVars PROVE SessionOK'
  OBVIOUS
<1>0. OAuthTypeOK /\ OAuthTypeOK'
  BY OAuthTypeStep DEF OAuthInv
<1> USE <1>0 DEF OAuthInv, OAuthTypeOK, SessionState, CallState, SessionOK, UnsavedOK, Login, Active, NoSession, Mishap, Finish, Current, Cancelled, ManagerFree
<1>1. CASE StartLogin  BY <1>1 DEF StartLogin, Unsaved
<1>2. CASE CancelLogin  BY <1>2 DEF CancelLogin
<1>3. CASE BeginLogout  BY <1>3 DEF BeginLogout
<1>4. CASE DeleteCredential  BY <1>4 DEF DeleteCredential
<1>5. CASE DeleteRow  BY <1>5 DEF DeleteRow
<1>6. CASE LogoutFails  BY <1>6 DEF LogoutFails
<1>7. CASE ApiDies  BY <1>7 DEF ApiDies
<1>8. ASSUME NEW n \in Login, Follow(n)
     PROVE  SessionOK'
  <2>1. CASE Attach(n)  BY SMTT(30), <2>1 DEF Attach
  <2>2. CASE Say(n)  BY <2>2 DEF Say
  <2>3. CASE Hear(n)  BY SMTT(30), <2>3 DEF Hear
  <2>4. CASE BreakOff(n)  BY <2>4 DEF BreakOff
  <2>5. CASE Rescue(n)  BY <2>5 DEF Rescue
  <2>6. CASE PutLogin(n)  BY <2>6 DEF PutLogin
  <2>7. CASE SaveRow(n)  BY <2>7 DEF SaveRow
  <2>8. CASE SaveFails(n)  BY <2>8 DEF SaveFails
  <2> QED  BY <1>8, <2>1, <2>2, <2>3, <2>4, <2>5, <2>6, <2>7, <2>8 DEF Follow
<1>9. ASSUME NEW r \in Refresher, Authorize(r)
     PROVE  SessionOK'
  <2>1. CASE BeginRefresh(r)  BY <2>1 DEF BeginRefresh
  <2>2. CASE Resolve(r)  BY <2>2 DEF Resolve
  <2>3. CASE Renew(r)  BY <2>3 DEF Renew
  <2>4. CASE PutRenewed(r)  BY <2>4 DEF PutRenewed
  <2> QED  BY <1>9, <2>1, <2>2, <2>3, <2>4 DEF Authorize
<1>10. CASE UNCHANGED oauthVars  BY <1>10 DEF oauthVars
<1> QED  BY <1>1, <1>2, <1>3, <1>4, <1>5, <1>6, <1>7, <1>8, <1>9, <1>10 DEF OAuthNext

LEMMA UnsavedStep == OAuthInv /\ [OAuthNext]_oauthVars => UnsavedOK'
<1> SUFFICES ASSUME OAuthInv, [OAuthNext]_oauthVars PROVE UnsavedOK'
  OBVIOUS
<1>0. OAuthTypeOK /\ OAuthTypeOK'
  BY OAuthTypeStep DEF OAuthInv
<1> USE <1>0 DEF OAuthInv, OAuthTypeOK, SessionState, CallState, SessionOK, UnsavedOK, FileOK, Unsaved, Login, Credential, NoCredential, Mishap, Finish, Current
<1>1. CASE StartLogin  BY <1>1 DEF StartLogin
<1>2. CASE CancelLogin  BY <1>2 DEF CancelLogin
<1>3. CASE BeginLogout  BY <1>3 DEF BeginLogout
<1>4. CASE DeleteCredential  BY <1>4 DEF DeleteCredential
<1>5. CASE DeleteRow  BY <1>5 DEF DeleteRow
<1>6. CASE LogoutFails  BY <1>6 DEF LogoutFails
<1>7. CASE ApiDies  BY <1>7 DEF ApiDies
<1>8. ASSUME NEW n \in Login, Follow(n)
     PROVE  UnsavedOK'
  <2>1. CASE Attach(n)  BY SMTT(30), <2>1 DEF Attach
  <2>2. CASE Say(n)  BY <2>2 DEF Say
  <2>3. CASE Hear(n)  BY SMTT(30), <2>3 DEF Hear
  <2>4. CASE BreakOff(n)  BY <2>4 DEF BreakOff
  <2>5. CASE Rescue(n)  BY <2>5 DEF Rescue
  <2>6. CASE PutLogin(n)  BY <2>6 DEF PutLogin
  <2>7. CASE SaveRow(n)  BY <2>7 DEF SaveRow
  <2>8. CASE SaveFails(n)  BY <2>8 DEF SaveFails, Undo
  <2> QED  BY <1>8, <2>1, <2>2, <2>3, <2>4, <2>5, <2>6, <2>7, <2>8 DEF Follow
<1>9. ASSUME NEW r \in Refresher, Authorize(r)
     PROVE  UnsavedOK'
  <2>1. CASE BeginRefresh(r)  BY <2>1 DEF BeginRefresh
  <2>2. CASE Resolve(r)  BY <2>2 DEF Resolve
  <2>3. CASE Renew(r)  BY <2>3 DEF Renew
  <2>4. CASE PutRenewed(r)
    <3>1. stored'.login = stored.login  BY <2>4 DEF PutRenewed
    <3> QED  BY <2>4, <3>1 DEF PutRenewed
  <2> QED  BY <1>9, <2>1, <2>2, <2>3, <2>4 DEF Authorize
<1>10. CASE UNCHANGED oauthVars  BY <1>10 DEF oauthVars
<1> QED  BY <1>1, <1>2, <1>3, <1>4, <1>5, <1>6, <1>7, <1>8, <1>9, <1>10 DEF OAuthNext

LEMMA FileStep == OAuthInv /\ [OAuthNext]_oauthVars => (FileOK /\ NoLateLogin)'
<1> SUFFICES ASSUME OAuthInv, [OAuthNext]_oauthVars PROVE (FileOK /\ NoLateLogin)'
  OBVIOUS
<1>0. OAuthTypeOK /\ OAuthTypeOK'
  BY OAuthTypeStep DEF OAuthInv
<1> USE <1>0 DEF OAuthInv, OAuthTypeOK, SessionState, CallState, NoLateLogin, SessionOK, UnsavedOK, FileOK, Unsaved, Login, Credential, NoCredential, Resting, Mishap, Finish, Current, FileFree, ManagerFree, Cancelled, Active
<1>1. CASE StartLogin  BY <1>1 DEF StartLogin
<1>2. CASE CancelLogin  BY <1>2 DEF CancelLogin
<1>3. CASE BeginLogout  BY <1>3 DEF BeginLogout
<1>4. CASE DeleteCredential  BY <1>4 DEF DeleteCredential
<1>5. CASE DeleteRow  BY <1>5 DEF DeleteRow
<1>6. CASE LogoutFails  BY <1>6 DEF LogoutFails
<1>7. CASE ApiDies  BY <1>7 DEF ApiDies
<1>8. ASSUME NEW n \in Login, Follow(n)
     PROVE  (FileOK /\ NoLateLogin)'
  <2>1. CASE Attach(n)  BY SMTT(30), <2>1 DEF Attach
  <2>2. CASE Say(n)  BY <2>2 DEF Say
  <2>3. CASE Hear(n)  BY SMTT(30), <2>3 DEF Hear
  <2>4. CASE BreakOff(n)  BY <2>4 DEF BreakOff
  <2>5. CASE Rescue(n)  BY <2>5 DEF Rescue
  <2>6. CASE PutLogin(n)  BY <2>6 DEF PutLogin
  <2>7. CASE SaveRow(n)  BY <2>7 DEF SaveRow
  <2>8. CASE SaveFails(n)  BY <2>8 DEF SaveFails, Undo
  <2> QED  BY <1>8, <2>1, <2>2, <2>3, <2>4, <2>5, <2>6, <2>7, <2>8 DEF Follow
<1>9. ASSUME NEW r \in Refresher, Authorize(r)
     PROVE  (FileOK /\ NoLateLogin)'
  <2>1. CASE BeginRefresh(r)  BY <2>1 DEF BeginRefresh
  <2>2. CASE Resolve(r)  BY <2>2 DEF Resolve
  <2>3. CASE Renew(r)
    <3>1. /\ call[r].with = stored /\ stored.login \in Login
          /\ \A n \in Login : thread[n] # "saving"
          /\ logout # "deleting"
          /\ \A q \in Refresher : q # r => call[q].at = "rest" /\ call'[q] = call[q]
      BY <2>3 DEF Renew
    <3>2. UNCHANGED <<stored, thread, logout, revoked>>  BY <2>3 DEF Renew
    <3>3. CASE call' = [call EXCEPT ![r] = Resting]
      <4>1. \A q \in Refresher : call'[q].at = "rest"  BY <3>1, <3>3
      <4> QED  BY <3>1, <3>2, <4>1
    <3>4. CASE call' = [call EXCEPT ![r] = [at |-> "put", with |-> Renewed(call[r].with)]]
      <4>1. issued'[stored.login] = stored.turn + 1  BY <2>3, <3>1 DEF Renew
      <4> QED  BY SMTT(30), <3>1, <3>2, <3>4, <4>1 DEF Renewed
    <3> QED  BY <2>3, <3>3, <3>4 DEF Renew
  <2>4. CASE PutRenewed(r)  BY <2>4 DEF PutRenewed
  <2> QED  BY <1>9, <2>1, <2>2, <2>3, <2>4 DEF Authorize
<1>10. CASE UNCHANGED oauthVars  BY <1>10 DEF oauthVars
<1> QED  BY <1>1, <1>2, <1>3, <1>4, <1>5, <1>6, <1>7, <1>8, <1>9, <1>10 DEF OAuthNext

LEMMA ShownStep == OAuthInv /\ [OAuthNext]_oauthVars => ShownOK'
<1> SUFFICES ASSUME OAuthInv, [OAuthNext]_oauthVars PROVE ShownOK'
  OBVIOUS
<1>0. OAuthTypeOK /\ OAuthTypeOK'
  BY OAuthTypeStep DEF OAuthInv
<1> USE <1>0 DEF OAuthInv, OAuthTypeOK, SessionState, CallState, SessionOK, UnsavedOK, FileOK, ShownOK, Shown, Unsaved, Login, Credential, NoCredential, Resting, Mishap, Finish, Current, FileFree
<1>1. CASE StartLogin  BY <1>1 DEF StartLogin
<1>2. CASE CancelLogin  BY <1>2 DEF CancelLogin
<1>3. CASE BeginLogout
  <2>1. /\ UNCHANGED <<stored, previous, row, issued, thread, call, torn>>
        /\ logout # "deleting" /\ logout' # "deleting"
    BY <1>3 DEF BeginLogout, ManagerFree
  <2> QED  BY <2>1
<1>4. CASE DeleteCredential  BY <1>4 DEF DeleteCredential
<1>5. CASE DeleteRow  BY <1>5 DEF DeleteRow
<1>6. CASE LogoutFails  BY <1>6 DEF LogoutFails
<1>7. CASE ApiDies  BY <1>7 DEF ApiDies
<1>8. ASSUME NEW n \in Login, Follow(n)
     PROVE  ShownOK'
  <2>1. CASE Attach(n)  BY SMTT(30), <2>1 DEF Attach
  <2>2. CASE Say(n)  BY <2>2 DEF Say
  <2>3. CASE Hear(n)  BY SMTT(30), <2>3 DEF Hear
  <2>4. CASE BreakOff(n)  BY <2>4 DEF BreakOff
  <2>5. CASE Rescue(n)  BY <2>5 DEF Rescue
  <2>6. CASE PutLogin(n)  BY <2>6 DEF PutLogin
  <2>7. CASE SaveRow(n)  BY <2>7 DEF SaveRow
  <2>8. CASE SaveFails(n)  BY <2>8 DEF SaveFails, Undo
  <2> QED  BY <1>8, <2>1, <2>2, <2>3, <2>4, <2>5, <2>6, <2>7, <2>8 DEF Follow
<1>9. ASSUME NEW r \in Refresher, Authorize(r)
     PROVE  ShownOK'
  <2>1. CASE BeginRefresh(r)  BY <2>1 DEF BeginRefresh
  <2>2. CASE Resolve(r)  BY <2>2 DEF Resolve
  <2>3. CASE Renew(r)
    <3>1. /\ call[r].with = stored /\ stored.login \in Login
          /\ \A n \in Login : thread[n] # "saving"
          /\ \A q \in Refresher : q # r => call[q].at = "rest" /\ call'[q] = call[q]
      BY <2>3 DEF Renew
    <3>2. UNCHANGED <<stored, row, thread, logout>>  BY <2>3 DEF Renew
    <3>3. CASE torn'  BY <3>3
    <3>4. CASE ~torn' /\ call' = [call EXCEPT ![r] = [at |-> "put", with |-> Renewed(call[r].with)]]
      <4>1. torn' = torn  BY <2>3, <3>4 DEF Renew
      <4>2. row = stored.login  BY <2>3, <3>1, <3>4, <4>1 DEF Renew
      <4>3. ~FileFree'  BY <3>4
      <4> QED  BY <3>1, <3>2, <3>4, <4>2, <4>3
    <3> QED  BY <2>3, <3>3, <3>4 DEF Renew
  <2>4. CASE PutRenewed(r)  BY <2>4 DEF PutRenewed
  <2> QED  BY <1>9, <2>1, <2>2, <2>3, <2>4 DEF Authorize
<1>10. CASE UNCHANGED oauthVars  BY <1>10 DEF oauthVars
<1> QED  BY <1>1, <1>2, <1>3, <1>4, <1>5, <1>6, <1>7, <1>8, <1>9, <1>10 DEF OAuthNext

LEMMA OAuthInvariant == OAuthSpec => []OAuthInv
<1>1. OAuthInv /\ [OAuthNext]_oauthVars => OAuthInv'
  BY OAuthTypeStep, SessionStep, UnsavedStep, FileStep, ShownStep DEF OAuthInv
<1> QED  BY InitialOAuth, <1>1, PTL DEF OAuthSpec

\* Every variable keeps its type: the session and its threads, the credentials that are
\* stored, put back or under way, and what the settings show.
THEOREM OAuthTypeCorrect == OAuthSpec => []OAuthTypeOK
BY OAuthInvariant, PTL DEF OAuthInv

\* A credential of a login that was cancelled, or begun before a logout, does not come
\* back, whatever threads and refreshes are under way and whatever dies.
THEOREM LateLoginsAreDropped == OAuthSpec => []NoLateLogin
BY OAuthInvariant, PTL DEF OAuthInv

\* Between operations, unless one was cut short between its writes, the connection that
\* is shown is the one that is stored, with the credential the provider accepts.
THEOREM ConnectionStays == OAuthSpec => []ConnectionWorks
<1>1. OAuthInv => ConnectionWorks
  BY DEF OAuthInv, ShownOK, Shown, ConnectionWorks
<1> QED  BY OAuthInvariant, <1>1, PTL

------------------------------------------------------------------------------
(*****************************************************************************)
(* Upgrades.  For any Apps, versions, entries and numbers of losses:         *)
(* services start on a whole workspace, and what the user has is never       *)
(* lost.  RecordsKept is not inductive: it needs to know how far a rollback  *)
(* is (JournalOK), that nobody but the holder of the lock, or its orphans,   *)
(* changes the workspace (LockOK, ServicesOK), and what each step of a       *)
(* supervisor has found when it comes to it (SupervisorOK).                  *)
(*****************************************************************************)
HIDE OAuthAssumption

\* At most one supervisor is at work, and services belong to it or to a dead one.
LockOK ==
    /\ \A p, q \in App : shell[p].at # "off" /\ shell[q].at # "off" => p = q
    /\ \A p \in App : shell[p].at # "off" => services \in {NoApp, p}

SupervisorOK ==
    \A p \in App :
        /\ shell[p].at \in Recovering \cup {"capture", "launch"} => services = NoApp
        /\ shell[p].at \in {"capture", "ready"} \/ shell[p].committed => ~Unsettled
        /\ shell[p].committed => shell[p].at \in {"ready", "ending"}
        /\ shell[p].at = "launch" => root = kept /\ (Unsettled \/ Version = AppVersion[p])
        /\ shell[p].at = "committing" => Unsettled /\ Version = AppVersion[p]
        /\ journal.phase \in {"evacuating", "restoring"} => shell[p].at \in Recovering \cup {"off"}

\* No services run during a rollback; those that run when no upgrade is under way have
\* nothing to migrate.
ServicesOK ==
    services # NoApp =>
        /\ journal.phase \notin {"evacuating", "restoring"}
        /\ ~Unsettled => Version = AppVersion[services]

\* The listed entries are all there is; each entry of the baseline is staged or back.
JournalOK ==
    /\ journal.phase = "evacuating" => staging = baseline /\ EntriesIn(root) \subseteq journal.entries
    /\ journal.phase = "restoring" =>
          \A e \in Entry : \/ staging[e] = kept[e] /\ root[e] = Absent
                           \/ staging[e] = Absent /\ root[e] = kept[e]

UpgradeInv == UpgradeTypeOK /\ RecordsKept /\ LockOK /\ SupervisorOK /\ ServicesOK /\ JournalOK

USE UpgradeAssumption

LEMMA InitialUpgrade == UpgradeInit => UpgradeInv
BY DEF UpgradeInit, UpgradeInv, UpgradeTypeOK, RecordsKept, LockOK, SupervisorOK, ServicesOK, JournalOK,
   Folder, Content, Absent, Empty, UpgradePhase, Off, Recovering, Unsettled, Over

LEMMA UpgradeTypeStep == UpgradeTypeOK /\ [UpgradeNext]_upgradeVars => UpgradeTypeOK'
<1> SUFFICES ASSUME UpgradeTypeOK, [UpgradeNext]_upgradeVars PROVE UpgradeTypeOK'
  OBVIOUS
<1> USE DEF UpgradeTypeOK, Folder, Content, Absent, UpgradePhase, Off, Recovering, To, SaveJournal, Folders, Ghosts
<1>1. ASSUME NEW p \in App, Open(p) \/ Inspect(p) \/ Supervise(p) \/ Lost(p)
      PROVE  UpgradeTypeOK'
  <2>1. CASE Open(p)  BY <2>1 DEF Open
  <2>2. CASE Inspect(p)  BY <2>2 DEF Inspect
  <2>3. CASE Prepare(p)
    <3>1. shell' \in [App -> [at : {"off", "capture", "launch", "starting", "committing", "ready", "ending"}
                                  \cup Recovering, committed : BOOLEAN]]
      BY <2>3 DEF Prepare
    <3>2. journal' \in [phase : UpgradePhase, entries : SUBSET Entry]
      BY <2>3 DEF Prepare
    <3>3. baseline' \in Folder /\ staging' \in Folder /\ aside' \in Folder
      BY <2>3 DEF Prepare, Empty
    <3> QED  BY <2>3, <3>1, <3>2, <3>3 DEF Prepare
  <2>4. CASE Launch(p)  BY <2>4 DEF Launch
  <2>5. CASE Respond(p)
    <3>1. root' \in Folder
      <4>1. root[Manifest] \in Content \cup {Absent}
        BY DEF UpgradeTypeOK
      <4>2. [root[Manifest] EXCEPT !.version = AppVersion[p]] \in Content
        BY <4>1
      <4> QED  BY <2>5, <4>2 DEF Respond
    <3>2. shell' \in [App -> [at : {"off", "capture", "launch", "starting", "committing", "ready", "ending"}
                                 \cup Recovering, committed : BOOLEAN]]
      <4>1. CASE shell' = [shell EXCEPT ![p] = [at |-> "ready", committed |-> TRUE]]  BY <4>1
      <4>2. CASE To(p, "committing")  BY <4>2
      <4> QED  BY <2>5, <4>1, <4>2 DEF Respond
    <3> QED  BY <2>5, <3>1, <3>2 DEF Respond
  <2>6. CASE SaveCommitted(p)
    <3>1. shell' \in [App -> [at : {"off", "capture", "launch", "starting", "committing", "ready", "ending"}
                                 \cup Recovering, committed : BOOLEAN]]
      <4>1. CASE shell' = [shell EXCEPT ![p] = [at |-> "ready", committed |-> TRUE]]  BY <4>1
      <4>2. CASE To(p, "ending")  BY <4>2
      <4> QED  BY <2>6, <4>1, <4>2 DEF SaveCommitted
    <3> QED  BY <2>6, <3>1 DEF SaveCommitted
  <2>7. CASE StartFails(p)  BY <2>7 DEF StartFails
  <2>8. CASE End(p)  BY <2>8 DEF End
  <2>9. CASE Stage(p)  BY <2>9 DEF Stage
  <2>10. CASE SaveEvacuating(p)  BY <2>10 DEF SaveEvacuating, EntriesIn
  <2>11. CASE SaveRestoring(p)  BY <2>11 DEF SaveRestoring
  <2>12. CASE SaveRolledBack(p)  BY <2>12 DEF SaveRolledBack
  <2>13. CASE RecoveryEnds(p)  BY <2>13 DEF RecoveryEnds
  <2>14. ASSUME NEW e \in Entry, Evacuate(p, e) \/ Restore(p, e)
         PROVE  UpgradeTypeOK'
    BY <2>14 DEF Evacuate, Restore
  <2>15. CASE Lost(p)  BY <2>15 DEF Lost
  <2> QED  BY <1>1, <2>1, <2>2, <2>3, <2>4, <2>5, <2>6, <2>7, <2>8, <2>9, <2>10, <2>11, <2>12, <2>13, <2>14, <2>15
           DEF Supervise, UndoStep
<1>2. ASSUME NEW e \in Entry, MigrateEntry(e) \/ Edit(e)
      PROVE  UpgradeTypeOK'
  <2>1. CASE MigrateEntry(e)  BY <1>2, <2>1 DEF MigrateEntry
  <2>2. CASE Edit(e)  BY <1>2, <2>2 DEF Edit
  <2> QED  BY <1>2, <2>1, <2>2
<1>3. CASE OrphansExit  BY <1>3 DEF OrphansExit
<1>4. CASE UNCHANGED upgradeVars  BY <1>4 DEF upgradeVars
<1> QED  BY <1>1, <1>2, <1>3, <1>4 DEF UpgradeNext

LEMMA SafetyStep == UpgradeInv /\ [UpgradeNext]_upgradeVars => UpgradeInv'
<1> SUFFICES ASSUME UpgradeInv, [UpgradeNext]_upgradeVars PROVE UpgradeInv'
  OBVIOUS
<1>0. UpgradeTypeOK /\ UpgradeTypeOK'
  BY UpgradeTypeStep DEF UpgradeInv
<1> USE DEF UpgradeInv, RecordsKept, LockOK, SupervisorOK, ServicesOK, JournalOK, Unsettled, Over, Version,
            Off, Recovering, To, SaveJournal, Folders, Ghosts, Rolling
<1> USE <1>0
<1>1. ASSUME NEW p \in App, Open(p) \/ Inspect(p) \/ Supervise(p) \/ Lost(p)
      PROVE  UpgradeInv'
  <2>1. CASE Open(p)  BY <2>1 DEF Open, LockFree, UpgradeTypeOK
  <2>2. CASE Inspect(p)  BY <2>2 DEF Inspect, LockFree, UpgradeTypeOK
  <2>3. CASE Prepare(p)
    <3>1. CASE Version > AppVersion[p] /\ To(p, "ending")  BY <2>3, <3>1 DEF Prepare, UpgradeTypeOK
    <3>2. CASE Version = AppVersion[p] /\ To(p, "launch")  BY <2>3, <3>2 DEF Prepare, UpgradeTypeOK
    <3>3. CASE Version < AppVersion[p]
      <4>1. /\ shell[p].at = "capture" /\ shell' = [shell EXCEPT ![p].at = "launch"]
            /\ baseline' = root /\ journal' = [journal EXCEPT !.phase = "prepared"]
            /\ UNCHANGED <<root, services, kept>>
        <5>1. Version \in Nat /\ AppVersion[p] \in Nat
          BY DEF UpgradeTypeOK, Folder, Content, Absent
        <5>2. ~(Version > AppVersion[p]) /\ Version # AppVersion[p]
          BY <3>3, <5>1
        <5> QED  BY <2>3, <5>2 DEF Prepare
      <4>2. root = kept /\ services = NoApp
        BY <4>1
      <4>3. RecordsKept' /\ LockOK' /\ ServicesOK' /\ JournalOK'
        BY <4>1, <4>2 DEF UpgradeTypeOK
      <4>4. /\ \A q \in App \ {p} : shell'[q] = shell[q] /\ shell[q].at = "off"
            /\ shell'[p].at = "launch" /\ shell'[p].committed = shell[p].committed
        BY <4>1 DEF UpgradeTypeOK
      <4>5. ~shell[p].committed
        BY <4>1
      <4>6. SupervisorOK'
        BY <4>1, <4>2, <4>4, <4>5 DEF UpgradeTypeOK
      <4> QED  BY <4>3, <4>6
    <3> QED  BY <2>3, <3>1, <3>2, <3>3 DEF Prepare
  <2>4. CASE Launch(p)  BY <2>4 DEF Launch, UpgradeTypeOK
  <2>5. CASE Respond(p)
    <3>1. CASE ~Unsettled  BY <2>5, <3>1 DEF Respond, UpgradeTypeOK
    <3>2. CASE Unsettled
      <4>1. root'[Manifest].version = AppVersion[p] /\ services = p /\ shell' = [shell EXCEPT ![p].at = "committing"]
        <5>1. root' = [root EXCEPT ![Manifest].version = AppVersion[p]]
          BY <2>5, <3>2 DEF Respond
        <5>2. root \in [Entry -> [version : Nat, edit : Nat]]
          BY DEF UpgradeTypeOK, Folder, Content, Absent
        <5> QED  BY <2>5, <3>2, <5>1, <5>2 DEF Respond
      <4>2. RecordsKept' /\ LockOK' /\ ServicesOK' /\ JournalOK'
        <5>1. UNCHANGED <<baseline, staging, journal, services, kept>> /\ shell[p].at = "starting"
          BY <2>5, <3>2 DEF Respond
        <5>2. journal.phase = "prepared"
          BY <5>1, <3>2 DEF UpgradeTypeOK, UpgradePhase
        <5>3. journal' = journal /\ baseline' = baseline /\ kept' = kept
          BY <5>1
        <5>6. baseline = kept
          BY <3>2
        <5>5. RecordsKept' /\ ServicesOK' /\ JournalOK'
          BY <5>2, <5>3, <5>6
        <5>4. LockOK'
          BY <5>1, <4>1 DEF UpgradeTypeOK
        <5> QED  BY <5>4, <5>5
      <4>3. SupervisorOK'
        BY <2>5, <3>2, <4>1 DEF Respond, UpgradeTypeOK
      <4> QED  BY <4>2, <4>3
    <3> QED  BY <3>1, <3>2
  <2>6. CASE SaveCommitted(p)  BY SMTT(30), <2>6 DEF SaveCommitted, UpgradeTypeOK
  <2>7. CASE StartFails(p)  BY <2>7 DEF StartFails, UpgradeTypeOK
  <2>8. CASE End(p)  BY <2>8 DEF End, UpgradeTypeOK
  <2>9. CASE Stage(p)  BY <2>9 DEF Stage, UpgradeTypeOK
  <2>10. CASE SaveEvacuating(p)  BY <2>10 DEF SaveEvacuating, UpgradeTypeOK
  <2>11. CASE SaveRestoring(p)  BY <2>11 DEF SaveRestoring, UpgradeTypeOK, EntriesIn
  <2>12. CASE SaveRolledBack(p)
    <3>1. \A e \in Entry : root[e] = kept[e]
      BY <2>12 DEF SaveRolledBack, EntriesIn
    <3>2. root = kept
      BY <3>1 DEF UpgradeTypeOK, Folder
    <3>3. services = NoApp /\ journal'.phase = "rolled-back"
      BY <2>12 DEF SaveRolledBack, UpgradeTypeOK
    <3> QED  BY <2>12, <3>2, <3>3 DEF SaveRolledBack, UpgradeTypeOK
  <2>13. CASE RecoveryEnds(p)  BY <2>13 DEF RecoveryEnds, UpgradeTypeOK
  <2>14. ASSUME NEW e \in Entry, Evacuate(p, e)
         PROVE  UpgradeInv'
    BY <2>14 DEF Evacuate, UpgradeTypeOK, EntriesIn
  <2>15. ASSUME NEW e \in Entry, Restore(p, e)
         PROVE  UpgradeInv'
    <3>1. \A f \in Entry \ {e} : root'[f] = root[f] /\ staging'[f] = staging[f]
      BY <2>15 DEF Restore, UpgradeTypeOK, Folder
    <3>2. root'[e] = staging[e] /\ staging'[e] = Absent
      BY <2>15 DEF Restore, UpgradeTypeOK, Folder
    <3>3. JournalOK'
      BY <2>15, <3>1, <3>2 DEF Restore
    <3>4. RecordsKept' /\ LockOK' /\ ServicesOK'
      BY <2>15 DEF Restore
    <3>5. SupervisorOK'
      BY <2>15 DEF Restore
    <3> QED  BY <3>3, <3>4, <3>5
  <2>16. CASE Lost(p)  BY <2>16 DEF Lost, UpgradeTypeOK
  <2> QED  BY <1>1, <2>1, <2>2, <2>3, <2>4, <2>5, <2>6, <2>7, <2>8, <2>9, <2>10, <2>11, <2>12, <2>13, <2>14, <2>15, <2>16
           DEF Supervise, UndoStep
<1>2. ASSUME NEW e \in Entry, MigrateEntry(e)
      PROVE  UpgradeInv'
  BY <1>2 DEF MigrateEntry, UpgradeTypeOK
<1>3. ASSUME NEW e \in Entry, Edit(e)
      PROVE  UpgradeInv'
  BY <1>3 DEF Edit, UpgradeTypeOK
<1>4. CASE OrphansExit  BY <1>4 DEF OrphansExit, UpgradeTypeOK
<1>5. CASE UNCHANGED upgradeVars  BY <1>5 DEF upgradeVars
<1> QED  BY <1>1, <1>2, <1>3, <1>4, <1>5 DEF UpgradeNext

LEMMA UpgradeInvariant == UpgradeSpec => []UpgradeInv
<1>1. UpgradeInit => UpgradeInv
  BY InitialUpgrade
<1>2. UpgradeInv /\ [UpgradeNext]_upgradeVars => UpgradeInv'
  BY SafetyStep
<1> QED  BY <1>1, <1>2, PTL DEF UpgradeSpec

\* The variables have their types.
THEOREM UpgradeTypeCorrect == UpgradeSpec => []UpgradeTypeOK
<1>1. UpgradeInv => UpgradeTypeOK
  BY DEF UpgradeInv
<1> QED  BY <1>1, UpgradeInvariant, PTL

\* What the user has is in the workspace, or in the baseline of the upgrade under way:
\* whatever is killed, by desktop_upgrade.py and supervisor.py.
THEOREM RecordsAreKept == UpgradeSpec => []RecordsKept
<1>1. UpgradeInv => RecordsKept
  BY DEF UpgradeInv
<1> QED  BY <1>1, UpgradeInvariant, PTL

\* Services are started on a whole workspace only.
THEOREM ServicesStartOnWhole == UpgradeSpec => StartsWhole
<1>1. UpgradeInv /\ [UpgradeNext]_upgradeVars => (services' # services /\ services' # NoApp => root = kept)
  <2> SUFFICES ASSUME UpgradeInv, UpgradeNext, services' # services, services' # NoApp
               PROVE  root = kept
    BY DEF upgradeVars
  <2>1. PICK p \in App : Launch(p)
    BY DEF UpgradeNext, Open, Inspect, Supervise, Lost, Prepare, Respond, SaveCommitted, StartFails, End, UndoStep,
           Stage, SaveEvacuating, SaveRestoring, SaveRolledBack, RecoveryEnds, Evacuate, Restore, MigrateEntry, Edit, OrphansExit
  <2> QED  BY <2>1 DEF UpgradeInv, SupervisorOK, Launch
<1> QED  BY <1>1, UpgradeInvariant, PTL DEF UpgradeSpec, StartsWhole

------------------------------------------------------------------------------
(*****************************************************************************)
(* Analysis runs, for any executors, lenses and losses.  A row agrees with   *)
(* its job at rest because of what each executor knows on its way there:     *)
(* the lenses it did left an artifact or an error in its copy (CopiesOK),    *)
(* and as long as no lease lapses under a live executor, nobody else writes  *)
(* the row (OwnerOK).                                                        *)
(*****************************************************************************)
HIDE UpgradeAssumption

USE AnalysisAssumption

TicketState == [status : {"none", "queued", "running", "succeeded", "failed", "errored", "interrupted"},
                owner : Executor \cup {"none"}, live : BOOLEAN, staged : BOOLEAN, cancel : BOOLEAN]
Place == {"free", "claimed", "staged", "read", "lenses", "answer", "fail", "error", "complete", "ended", "down"}
HandState == [at : Place, copy : RecordRow, todo : SUBSET Lens]
Engaged(e) == ~Idle(e)

\* Until submit() has queued the job there is nothing but its row.
RequestOK ==
    request \in {"none", "saved", "refused"} =>
        ticket.status = "none" /\ ~ticket.staged /\ analysis.arts = {} /\ \A e \in Executor : ~Engaged(e)

\* A lens that was done has left an artifact or an error in the copy; one that was not, an
\* error ("context") when the loop was left before it.
CopiesOK ==
    \A e \in Executor : hand[e].at = "lenses" =>
        /\ hand[e].copy.status = "running"
        /\ \/ Lens \ hand[e].todo \subseteq hand[e].copy.arts \cup hand[e].copy.errs
           \/ hand[e].todo = {} /\ hand[e].copy.errs # {}

\* As long as no lease lapses under a live executor, only the owner of the job executes it.
Done == {"succeeded", "partial"}
OwnerOK ==
    lapses = 0 =>
        /\ \A e \in Executor : Engaged(e) => Owns(e) /\ ticket.live
        /\ \A e \in Executor : hand[e].at = "lenses" => analysis.status = "running"
        /\ \A e \in Executor : hand[e].at = "answer" => analysis.status \in Done \cup {"failed"}
        /\ \A e \in Executor : hand[e].at = "fail" => analysis.status = "failed"
        /\ ticket.staged => /\ analysis.status \in Done
                            /\ \A e \in Executor : Engaged(e) => hand[e].at = "complete"
        /\ \A e \in Executor : hand[e].at = "complete" => ticket.staged
        /\ ticket.status = "succeeded" => analysis.status \in Done
        /\ ticket.status = "failed" => analysis.status = "failed"

AnalysisTypes ==
    /\ analysis \in RecordRow
    /\ request \in {"none", "saved", "refused", "answered"}
    /\ ticket \in TicketState /\ hand \in [Executor -> HandState]
    /\ lapses \in 0..MaxUpsets /\ cuts \in 0..MaxUpsets /\ refusals \in 0..MaxUpsets
AnalysisInv == AnalysisTypes /\ OutcomeIsHonest /\ RequestOK /\ CopiesOK /\ OwnerOK

LEMMA AnalysisTypesOK == AnalysisTypes <=> AnalysisTypeOK
BY DEF AnalysisTypes, AnalysisTypeOK, TicketState, HandState, Place

LEMMA FreshTypes ==
    /\ NoAnalysis \in RecordRow /\ NoAnalysis.arts = {} /\ NoAnalysis.status = "none" /\ NoAnalysis.errs = {}
    /\ FreeHand \in HandState /\ FreeHand.at = "free"
BY DEF NoAnalysis, RecordRow, Cause, FreeHand, HandState, Place

\* What the recovery makes of a row.
LEMMA RecoveredOK ==
    ASSUME AnalysisTypes
    PROVE  /\ Recovered \in RecordRow
           /\ Recovered.status = "interrupted" /\ Recovered.arts = analysis.arts
BY DEF Recovered, AnalysisTypes, RecordRow, Cause, Final

\* The row of a run that has met all its lenses.
LEMMA OutcomeOK ==
    ASSUME NEW copy \in RecordRow, Lens \subseteq copy.arts \cup copy.errs \/ copy.errs # {}
    PROVE  LET saved == [copy EXCEPT !.status = Outcome(copy)] IN
           /\ saved \in RecordRow /\ saved.status \in Done \cup {"failed"}
           /\ saved.status = "succeeded" => saved.arts = Lens /\ saved.errs = {}
           /\ saved.status = "partial" => saved.arts # {} /\ saved.errs # {}
           /\ saved.status = "failed" => saved.arts = {}
<1>1. Outcome(copy) \in Done \cup {"failed"}
  BY DEF Outcome, Done
<1>2. /\ Outcome(copy) = "succeeded" => copy.errs = {}
      /\ Outcome(copy) = "partial" => copy.arts # {} /\ copy.errs # {}
      /\ Outcome(copy) = "failed" => copy.arts = {}
  BY DEF Outcome
<1> QED  BY <1>1, <1>2 DEF RecordRow, Final, Done

\* Another executor than the one that acts is left as it was; the acting one is now at "at".
HandMoves(e, at) == hand'[e].at = at /\ \A x \in Executor \ {e} : hand'[x] = hand[x]

LEMMA GoesOK ==
    ASSUME AnalysisTypes, NEW e \in Executor, NEW at \in Place, Goes(e, at)
    PROVE  HandMoves(e, at) /\ hand' \in [Executor -> HandState]
<1>1. [FreeHand EXCEPT !.at = at] \in HandState /\ [FreeHand EXCEPT !.at = at].at = at
  BY FreshTypes DEF HandState
<1> QED  BY <1>1 DEF Goes, HandMoves, AnalysisTypes

\* The end of a job gives up its owner, and nothing else but the status.
LEMMA EndOK ==
    ASSUME AnalysisTypes, NEW status \in {"succeeded", "failed", "errored", "interrupted"}, EndJob(status)
    PROVE  /\ ticket' \in TicketState /\ ticket'.staged = ticket.staged
           /\ ticket'.status \in {"interrupted", status}
<1>1. ticket' = [ticket EXCEPT !.status = IF ticket.cancel THEN "interrupted" ELSE status,
                               !.owner = "none", !.live = FALSE]
  BY DEF EndJob
<1>2. ticket \in TicketState
  BY DEF AnalysisTypes
<1>3. ticket'.staged = ticket.staged /\ ticket'.status \in {"interrupted", status}
  BY <1>1, <1>2 DEF TicketState
<1>4. ticket' \in TicketState
  BY <1>1, <1>2 DEF TicketState
<1> QED  BY <1>3, <1>4

\* What goes wrong is counted up to its bound.
LEMMA UpsetsCounted ==
    ASSUME AnalysisTypes, [AnalysisNext]_analysisVars
    PROVE  /\ lapses' \in 0..MaxUpsets /\ cuts' \in 0..MaxUpsets /\ refusals' \in 0..MaxUpsets
           /\ lapses' = lapses \/ lapses' = lapses + 1
<1>1. lapses \in 0..MaxUpsets /\ cuts \in 0..MaxUpsets /\ refusals \in 0..MaxUpsets /\ MaxUpsets \in Nat
  BY AnalysisAssumption DEF AnalysisTypes, AnalysisAssumption
<1>2. \/ UNCHANGED <<lapses, cuts, refusals>>
      \/ MayUpset /\ lapses' = lapses + 1 /\ UNCHANGED <<cuts, refusals>>
      \/ MayUpset /\ cuts' = cuts + 1 /\ UNCHANGED <<lapses, refusals>>
      \/ MayUpset /\ refusals' = refusals + 1 /\ UNCHANGED <<lapses, cuts>>
  <2>1. CASE SubmitRun \/ SubmitKilled
    BY <2>1 DEF SubmitRun, SaveQueued, EnqueueRun, SaveRefused, SubmitKilled, Refused
  <2>2. ASSUME NEW e \in Executor, Execute(e) PROVE UNCHANGED <<lapses, cuts, refusals>> \/ LensesStop(e)
    BY <2>2 DEF Execute, ClaimRun, StartStage, ReadRun, SaveRunning, FinishLens, SaveOutcome, AnswerStage, FinishRun,
                ExecutorStarts, ProcessStarts
  <2>3. ASSUME NEW e \in Executor, LensesStop(e)
        PROVE  UNCHANGED <<lapses, cuts>> /\ (UNCHANGED refusals \/ (MayUpset /\ refusals' = refusals + 1))
    BY <2>3 DEF LensesStop, Refused
  <2>4. CASE \E e \in Executor : Disturb(e)
    BY <2>4 DEF Disturb, StageRaises, WorkerFails, ExecutorKilled, EndedStarts, ProcessStarts, Refused
  <2>5. CASE RecoverInterrupted \/ CancelRun \/ SweepRun \/ LeaseLapses \/ UNCHANGED analysisVars
    BY <2>5 DEF RecoverInterrupted, CancelRun, SweepRun, LeaseLapses, analysisVars
  <2> QED  BY <2>1, <2>2, <2>3, <2>4, <2>5 DEF AnalysisNext
<1> QED  BY <1>1, <1>2 DEF MayUpset

LEMMA AnalysisTypeStep == AnalysisTypes /\ [AnalysisNext]_analysisVars => AnalysisTypes'
<1> SUFFICES ASSUME AnalysisTypes, [AnalysisNext]_analysisVars PROVE AnalysisTypes'
  OBVIOUS
<1>0. lapses' \in 0..MaxUpsets /\ cuts' \in 0..MaxUpsets /\ refusals' \in 0..MaxUpsets
  BY UpsetsCounted
<1>a. "free" \in Place /\ "claimed" \in Place /\ "staged" \in Place /\ "answer" \in Place /\ "fail" \in Place
      /\ "error" \in Place /\ "complete" \in Place /\ "ended" \in Place /\ "down" \in Place
  BY DEF Place
<1>1. CASE SubmitRun
  <2>1. CASE SaveQueued
    BY <1>0, <2>1, FreshTypes DEF SaveQueued, AnalysisTypes, RecordRow
  <2>2. CASE EnqueueRun
    <3>1. ticket' \in TicketState
      BY <2>2 DEF EnqueueRun, AnalysisTypes, TicketState
    <3> QED  BY <1>0, <2>2, <3>1 DEF EnqueueRun, AnalysisTypes
  <2>3. CASE SaveRefused
    BY <1>0, <2>3 DEF SaveRefused, AnalysisTypes, RecordRow, Cause, Final
  <2> QED  BY <1>1, <2>1, <2>2, <2>3 DEF SubmitRun
<1>2. ASSUME NEW e \in Executor, ClaimRun(e) PROVE AnalysisTypes'
  <2>1. ticket' \in TicketState
    BY <1>2 DEF ClaimRun, AnalysisTypes, TicketState
  <2>2. hand' \in [Executor -> HandState]
    BY <1>2, <1>a, GoesOK DEF ClaimRun
  <2> QED  BY <1>0, <1>2, <2>1, <2>2 DEF ClaimRun, AnalysisTypes
<1>3. ASSUME NEW e \in Executor, ReadRun(e) PROVE AnalysisTypes'
  <2>1. hand' \in [Executor -> HandState]
    BY <1>3, FreshTypes DEF ReadRun, AnalysisTypes, HandState, Place
  <2> QED  BY <1>0, <1>3, <2>1 DEF ReadRun, AnalysisTypes
<1>4. ASSUME NEW e \in Executor, SaveRunning(e) PROVE AnalysisTypes'
  <2>1. analysis' \in RecordRow
    BY <1>4 DEF SaveRunning, AnalysisTypes, RecordRow, HandState
  <2>2. [at |-> "lenses", copy |-> analysis', todo |-> Lens] \in HandState
    BY <2>1 DEF HandState, Place
  <2> QED  BY <1>0, <1>4, <2>1, <2>2 DEF SaveRunning, AnalysisTypes
<1>5. ASSUME NEW e \in Executor, FinishLens(e) PROVE AnalysisTypes'
  <2>1. PICK l \in hand[e].todo, arts \in SUBSET Lens, errs \in SUBSET Lens :
            /\ analysis' = [hand[e].copy EXCEPT !.arts = @ \cup arts, !.errs = @ \cup errs]
            /\ hand' = [hand EXCEPT ![e].copy = analysis', ![e].todo = @ \ {l}]
    BY <1>5 DEF FinishLens
  <2>2. hand[e].copy \in RecordRow /\ hand[e] \in HandState
    BY DEF AnalysisTypes, HandState
  <2>3. analysis' \in RecordRow
    BY <2>1, <2>2 DEF RecordRow, Cause
  <2>4. hand' \in [Executor -> HandState]
    BY <2>1, <2>2, <2>3 DEF AnalysisTypes, HandState
  <2> QED  BY <1>0, <1>5, <2>3, <2>4 DEF FinishLens, AnalysisTypes
<1>6. ASSUME NEW e \in Executor, LensesStop(e) PROVE AnalysisTypes'
  <2>1. PICK arts \in SUBSET Lens, errs \in SUBSET Lens :
            hand' = [hand EXCEPT ![e].copy.arts = @ \cup arts,
                                 ![e].copy.errs = @ \cup errs \cup {"context"}, ![e].todo = {}]
    BY <1>6 DEF LensesStop
  <2>2. hand[e] \in HandState /\ hand[e].copy \in RecordRow
    BY DEF AnalysisTypes, HandState
  <2>3. [hand[e].copy EXCEPT !.arts = @ \cup arts, !.errs = @ \cup errs \cup {"context"}] \in RecordRow
    BY <2>2 DEF RecordRow, Cause
  <2>4. hand' \in [Executor -> HandState]
    BY <2>1, <2>2, <2>3 DEF AnalysisTypes, HandState
  <2> QED  BY <1>0, <1>6, <2>4 DEF LensesStop, AnalysisTypes
<1>7. ASSUME NEW e \in Executor, SaveOutcome(e) PROVE AnalysisTypes'
  <2>1. hand[e].copy \in RecordRow
    BY DEF AnalysisTypes, HandState
  <2>2. analysis' \in RecordRow
    BY <1>7, <2>1 DEF SaveOutcome, Outcome, RecordRow, Final
  <2>3. hand' \in [Executor -> HandState]
    BY <1>7, <1>a, GoesOK DEF SaveOutcome
  <2> QED  BY <1>0, <1>7, <2>2, <2>3 DEF SaveOutcome, AnalysisTypes
<1>8. ASSUME NEW e \in Executor, StartStage(e) \/ AnswerStage(e) PROVE AnalysisTypes'
  <2>1. ticket' \in TicketState
    <3>1. CASE EndJob("interrupted")
      BY <3>1, EndOK
    <3>2. CASE ticket' = ticket \/ ticket' = [ticket EXCEPT !.staged = TRUE]
      BY <3>2 DEF AnalysisTypes, TicketState
    <3> QED  BY <1>8, <3>1, <3>2 DEF StartStage, AnswerStage
  <2>2. hand' \in [Executor -> HandState]
    BY <1>8, <1>a, GoesOK DEF StartStage, AnswerStage
  <2> QED  BY <1>0, <1>8, <2>1, <2>2 DEF StartStage, AnswerStage, AnalysisTypes
<1>9. ASSUME NEW e \in Executor, FinishRun(e) \/ WorkerFails(e) PROVE AnalysisTypes'
  <2>1. ticket' \in TicketState
    <3>1. \/ EndJob("failed") \/ EndJob("errored") \/ EndJob("succeeded")
          \/ ticket' = ticket
      BY <1>9 DEF FinishRun, WorkerFails
    <3> QED  BY <3>1, EndOK DEF AnalysisTypes
  <2>2. hand' \in [Executor -> HandState]
    BY <1>9, <1>a, GoesOK DEF FinishRun, WorkerFails
  <2> QED  BY <1>0, <1>9, <2>1, <2>2 DEF FinishRun, WorkerFails, AnalysisTypes
<1>10. ASSUME NEW e \in Executor, StageRaises(e) \/ ExecutorKilled(e) PROVE AnalysisTypes'
  <2>1. hand' \in [Executor -> HandState]
    BY <1>10, <1>a, GoesOK DEF StageRaises, ExecutorKilled
  <2> QED  BY <1>0, <1>10, <2>1 DEF StageRaises, ExecutorKilled, AnalysisTypes
<1>11. ASSUME NEW e \in Executor, ProcessStarts(e) PROVE AnalysisTypes'
  <2>1. hand' \in [Executor -> HandState]
    BY <1>11, <1>a, GoesOK DEF ProcessStarts
  <2> QED  BY <1>0, <1>11, <2>1, RecoveredOK DEF ProcessStarts, AnalysisTypes
<1>12. CASE RecoverInterrupted
  BY <1>0, <1>12, RecoveredOK DEF RecoverInterrupted, AnalysisTypes
<1>13. CASE CancelRun \/ SweepRun \/ LeaseLapses
  <2>1. ticket' \in TicketState
    BY <1>13 DEF CancelRun, SweepRun, LeaseLapses, AnalysisTypes, TicketState
  <2> QED  BY <1>0, <1>13, <2>1 DEF CancelRun, SweepRun, LeaseLapses, AnalysisTypes
<1>14. CASE SubmitKilled
  BY <1>0, <1>14 DEF SubmitKilled, AnalysisTypes
<1>15. CASE UNCHANGED analysisVars
  BY <1>15 DEF analysisVars, AnalysisTypes
<1> QED  BY <1>1, <1>2, <1>3, <1>4, <1>5, <1>6, <1>7, <1>8, <1>9, <1>10, <1>11, <1>12, <1>13, <1>14, <1>15
            DEF AnalysisNext, Execute, Disturb, ExecutorStarts, EndedStarts

LEMMA AnalysisInitially == AnalysisInit => AnalysisInv
<1> SUFFICES ASSUME AnalysisInit PROVE AnalysisInv
  OBVIOUS
<1>1. AnalysisTypes
  BY FreshTypes, AnalysisAssumption DEF AnalysisInit, AnalysisTypes, TicketState, AnalysisAssumption
<1>2. \A e \in Executor : ~Engaged(e) /\ hand[e].at = "free"
  BY FreshTypes DEF AnalysisInit, Engaged, Idle
<1> QED
  BY <1>1, <1>2, FreshTypes DEF AnalysisInit, AnalysisInv, OutcomeIsHonest, RequestOK, CopiesOK, OwnerOK

LEMMA HonestStep == AnalysisInv /\ [AnalysisNext]_analysisVars => OutcomeIsHonest'
<1> SUFFICES ASSUME AnalysisInv, [AnalysisNext]_analysisVars PROVE OutcomeIsHonest'
  OBVIOUS
<1>1. CASE UNCHANGED analysis
  BY <1>1 DEF AnalysisInv, OutcomeIsHonest
<1>2. CASE SaveQueued
  BY <1>2 DEF SaveQueued, OutcomeIsHonest, NoAnalysis
<1>3. CASE SaveRefused /\ ~UNCHANGED analysis
  BY <1>3 DEF SaveRefused, OutcomeIsHonest, AnalysisInv, AnalysisTypes, RecordRow, RequestOK
<1>4. ASSUME NEW e \in Executor, SaveRunning(e) PROVE OutcomeIsHonest'
  BY <1>4 DEF SaveRunning, OutcomeIsHonest, AnalysisInv, AnalysisTypes, HandState, RecordRow
<1>5. ASSUME NEW e \in Executor, FinishLens(e) PROVE OutcomeIsHonest'
  BY <1>5 DEF FinishLens, OutcomeIsHonest, AnalysisInv, AnalysisTypes, HandState, RecordRow, CopiesOK
<1>6. ASSUME NEW e \in Executor, SaveOutcome(e) PROVE OutcomeIsHonest'
  <2>1. /\ hand[e].copy \in RecordRow
        /\ Lens \subseteq hand[e].copy.arts \cup hand[e].copy.errs \/ hand[e].copy.errs # {}
    BY <1>6 DEF SaveOutcome, AnalysisInv, AnalysisTypes, HandState, CopiesOK
  <2> QED  BY <1>6, <2>1, OutcomeOK DEF SaveOutcome, OutcomeIsHonest
<1>7. CASE analysis' = Recovered
  BY <1>7, RecoveredOK DEF OutcomeIsHonest, AnalysisInv
<1> QED
  BY <1>1, <1>2, <1>3, <1>4, <1>5, <1>6, <1>7
  DEF AnalysisNext, SubmitRun, SubmitKilled, Execute, Disturb, EnqueueRun, ClaimRun, StartStage, ReadRun, LensesStop,
      StageRaises, AnswerStage, FinishRun, WorkerFails, ExecutorStarts, EndedStarts, ProcessStarts, ExecutorKilled,
      RecoverInterrupted, CancelRun, SweepRun, LeaseLapses, analysisVars

LEMMA RequestStep == AnalysisInv /\ [AnalysisNext]_analysisVars => RequestOK'
<1> SUFFICES ASSUME AnalysisInv, [AnalysisNext]_analysisVars, request' \in {"none", "saved", "refused"}
             PROVE  ticket'.status = "none" /\ ~ticket'.staged /\ analysis'.arts = {} /\ \A e \in Executor : ~Engaged(e)'
  BY DEF RequestOK
<1>1. request \in {"none", "saved", "refused"} /\ ~SubmitKilled
  BY DEF AnalysisNext, SubmitRun, SaveQueued, EnqueueRun, SaveRefused, SubmitKilled, Execute, Disturb, ClaimRun, StartStage,
         ReadRun, SaveRunning, FinishLens, LensesStop, SaveOutcome, AnswerStage, FinishRun, StageRaises, WorkerFails,
         ExecutorStarts, EndedStarts, ProcessStarts, ExecutorKilled, RecoverInterrupted, CancelRun, SweepRun, LeaseLapses,
         analysisVars
<1>2. ticket.status = "none" /\ ~ticket.staged /\ analysis.arts = {} /\ \A e \in Executor : Idle(e)
  BY <1>1 DEF AnalysisInv, RequestOK, Engaged
\* Only submit(), and threads that end or start.
<1>3. \/ SubmitRun \/ UNCHANGED <<ticket, analysis, hand>>
      \/ \E e \in Executor : WorkerFails(e) /\ hand[e].at = "free"
      \/ \E e \in Executor : ProcessStarts(e)
      \/ RecoverInterrupted
  BY <1>1, <1>2 DEF AnalysisNext, SubmitKilled, Idle, Execute, Disturb, ClaimRun, StartStage, ReadRun, SaveRunning, FinishLens,
         LensesStop, SaveOutcome, AnswerStage, FinishRun, StageRaises, WorkerFails, ExecutorStarts, EndedStarts,
         ExecutorKilled, CancelRun, SweepRun, LeaseLapses, analysisVars
<1>4. ticket' = ticket
  BY <1>1, <1>3 DEF SubmitRun, SaveQueued, EnqueueRun, SaveRefused, WorkerFails, ProcessStarts, RecoverInterrupted
<1>5. analysis'.arts = {}
  <2>1. CASE UNCHANGED analysis
    BY <1>2, <2>1
  <2>2. CASE SaveQueued
    BY <2>2, FreshTypes DEF SaveQueued, NoAnalysis
  <2>3. CASE SaveRefused /\ ~UNCHANGED analysis
    BY <1>2, <2>3 DEF SaveRefused, AnalysisInv, AnalysisTypes, RecordRow
  <2>4. CASE analysis' = Recovered
    BY <1>2, <2>4, RecoveredOK DEF AnalysisInv
  <2> QED
    BY <1>3, <2>1, <2>2, <2>3, <2>4 DEF SubmitRun, EnqueueRun, WorkerFails, ProcessStarts, RecoverInterrupted
<1>6. \A e \in Executor : Idle(e)'
  <2>1. CASE UNCHANGED hand
    BY <1>2, <2>1 DEF Idle
  <2>2. ASSUME NEW e \in Executor, NEW at \in {"free", "ended"}, Goes(e, at) PROVE \A x \in Executor : Idle(x)'
    <3>1. HandMoves(e, at)
      BY <2>2, GoesOK DEF AnalysisInv, Place
    <3> QED  BY <1>2, <2>2, <3>1 DEF HandMoves, Idle
  <2> QED
    BY <1>3, <2>1, <2>2 DEF SubmitRun, SaveQueued, EnqueueRun, SaveRefused, WorkerFails, ProcessStarts, RecoverInterrupted
<1> QED  BY <1>2, <1>4, <1>5, <1>6 DEF Engaged

LEMMA CopiesStep == AnalysisInv /\ [AnalysisNext]_analysisVars => CopiesOK'
<1> SUFFICES ASSUME AnalysisInv, [AnalysisNext]_analysisVars PROVE CopiesOK'
  OBVIOUS
<1>1. CASE UNCHANGED hand
  BY <1>1 DEF AnalysisInv, CopiesOK
<1>2. ASSUME NEW e \in Executor, SaveRunning(e) PROVE CopiesOK'
  <2>1. hand'[e].copy.status = "running" /\ hand'[e].todo = Lens /\ \A x \in Executor \ {e} : hand'[x] = hand[x]
    BY <1>2 DEF SaveRunning, AnalysisInv, AnalysisTypes, HandState, RecordRow
  <2> QED  BY <2>1 DEF AnalysisInv, CopiesOK
<1>3. ASSUME NEW e \in Executor, FinishLens(e) PROVE CopiesOK'
  <2>1. PICK l \in hand[e].todo, arts \in SUBSET Lens, errs \in SUBSET Lens :
            /\ arts \cup errs = {l}
            /\ analysis' = [hand[e].copy EXCEPT !.arts = @ \cup arts, !.errs = @ \cup errs]
            /\ hand' = [hand EXCEPT ![e].copy = analysis', ![e].todo = @ \ {l}]
    BY <1>3 DEF FinishLens
  <2>2. /\ hand[e] \in HandState /\ hand[e].at = "lenses" /\ hand[e].copy.status = "running"
        /\ Lens \ hand[e].todo \subseteq hand[e].copy.arts \cup hand[e].copy.errs
    BY <1>3, <2>1 DEF FinishLens, AnalysisInv, AnalysisTypes, CopiesOK
  <2>3. /\ analysis'.status = "running" /\ analysis'.arts = hand[e].copy.arts \cup arts
        /\ analysis'.errs = hand[e].copy.errs \cup errs
    BY <2>1, <2>2 DEF HandState, RecordRow
  <2>4. /\ hand'[e].copy = analysis' /\ hand'[e].todo = hand[e].todo \ {l}
        /\ \A x \in Executor \ {e} : hand'[x] = hand[x]
    BY <2>1, <2>2 DEF AnalysisInv, AnalysisTypes, HandState
  <2> QED  BY ZenonT(40), <2>1, <2>2, <2>3, <2>4 DEF AnalysisInv, CopiesOK
<1>4. ASSUME NEW e \in Executor, LensesStop(e) PROVE CopiesOK'
  <2>1. PICK arts \in SUBSET Lens, errs \in SUBSET Lens :
            hand' = [hand EXCEPT ![e].copy.arts = @ \cup arts,
                                 ![e].copy.errs = @ \cup errs \cup {"context"}, ![e].todo = {}]
    BY <1>4 DEF LensesStop
  <2>2. hand[e] \in HandState /\ hand[e].copy \in RecordRow /\ hand[e].copy.status = "running"
    BY <1>4 DEF LensesStop, AnalysisInv, AnalysisTypes, HandState, CopiesOK
  <2>3. /\ hand'[e].copy.status = "running" /\ "context" \in hand'[e].copy.errs /\ hand'[e].todo = {}
        /\ \A x \in Executor \ {e} : hand'[x] = hand[x]
    BY <2>1, <2>2 DEF AnalysisInv, AnalysisTypes, HandState, RecordRow
  <2>4. hand'[e].copy.errs # {}
    BY <2>3
  <2> QED  BY <2>3, <2>4 DEF AnalysisInv, CopiesOK
<1>5. ASSUME NEW e \in Executor, NEW at, at # "lenses", HandMoves(e, at) PROVE CopiesOK'
  BY <1>5 DEF HandMoves, AnalysisInv, CopiesOK
<1>6. ASSUME NEW e \in Executor, NEW at \in Place \ {"lenses"}, Goes(e, at) PROVE CopiesOK'
  BY <1>5, <1>6, GoesOK DEF AnalysisInv
<1>7. ASSUME NEW e \in Executor, ReadRun(e) PROVE CopiesOK'
  <2>1. HandMoves(e, "read")
    BY <1>7, FreshTypes DEF ReadRun, HandMoves, AnalysisInv, AnalysisTypes, HandState
  <2> QED  BY <1>5, <2>1
<1>8. \A e \in Executor : ClaimRun(e) \/ StartStage(e) \/ SaveOutcome(e) \/ AnswerStage(e) => CopiesOK'
  BY <1>6 DEF ClaimRun, StartStage, SaveOutcome, AnswerStage, Place
<1>9. \A e \in Executor : FinishRun(e) \/ ProcessStarts(e) \/ Disturb(e) => CopiesOK'
  BY <1>6 DEF FinishRun, ProcessStarts, Disturb, StageRaises, WorkerFails, ExecutorKilled, EndedStarts, Place
<1> QED
  BY <1>1, <1>2, <1>3, <1>4, <1>7, <1>8, <1>9
  DEF AnalysisNext, SubmitRun, SaveQueued, EnqueueRun, SaveRefused, SubmitKilled, Execute, ExecutorStarts, RecoverInterrupted,
      CancelRun, SweepRun, LeaseLapses, analysisVars

LEMMA OwnerStep == AnalysisInv /\ [AnalysisNext]_analysisVars => OwnerOK'
<1> SUFFICES ASSUME AnalysisInv, [AnalysisNext]_analysisVars, lapses' = 0 PROVE OwnerOK'
  BY DEF OwnerOK
<1>0. AnalysisTypes /\ OutcomeIsHonest /\ RequestOK /\ CopiesOK
  BY DEF AnalysisInv
<1>. lapses = 0 /\ OwnerOK
  <2>1. lapses' = lapses \/ lapses' = lapses + 1
    BY <1>0, UpsetsCounted
  <2>2. lapses \in Nat
    BY <1>0 DEF AnalysisTypes
  <2> QED  BY <2>1, <2>2 DEF AnalysisInv
\* Two executors are never active.
<1>1. \A e, f \in Executor : Engaged(e) /\ Engaged(f) => e = f
  BY DEF OwnerOK, Owns
<1>2. CASE SubmitRun
  <2>1. CASE SaveQueued
    BY <1>0, <2>1 DEF SaveQueued, RequestOK, OwnerOK, Engaged, Idle, Owns
  <2>2. CASE EnqueueRun
    <3>1. /\ ticket'.status \in {"none", "queued"} /\ ~ticket'.staged /\ hand' = hand
          /\ \A e \in Executor : ~Engaged(e)
      BY <1>0, <2>2 DEF EnqueueRun, RequestOK, AnalysisTypes, TicketState
    <3> QED  BY <3>1 DEF OwnerOK, Engaged, Idle, Owns
  <2>3. CASE SaveRefused
    BY <1>0, <2>3 DEF SaveRefused, RequestOK, OwnerOK, Engaged, Idle, Owns
  <2> QED  BY <1>2, <2>1, <2>2, <2>3 DEF SubmitRun
<1>3. CASE SubmitKilled
  BY <1>3 DEF SubmitKilled, OwnerOK, Engaged, Idle, Owns
<1>4. ASSUME NEW e \in Executor, ClaimRun(e) PROVE OwnerOK'
  <2>1. HandMoves(e, IF ticket.staged THEN "complete" ELSE "claimed") /\ analysis' = analysis
    BY <1>0, <1>4, GoesOK DEF ClaimRun, Place
  <2>2. ticket'.status = "running" /\ ticket'.owner = e /\ ticket'.live /\ ticket'.staged = ticket.staged
    BY <1>0, <1>4 DEF ClaimRun, AnalysisTypes, TicketState
  <2>3. \A x \in Executor : ~Engaged(x)
    BY <1>4 DEF ClaimRun, OwnerOK, Owns
  <2> QED  BY <2>1, <2>2, <2>3 DEF OwnerOK, HandMoves, Engaged, Idle, Owns
\* An executor that goes on within the job, or leaves it.
<1>5. ASSUME NEW e \in Executor, NEW at \in Place, HandMoves(e, at), UNCHANGED <<ticket, analysis>>, Engaged(e),
             at \in {"lenses", "answer", "complete"} => FALSE, at = "fail" => analysis.status = "failed",
             ticket.staged => at \in {"free", "ended", "down"}
      PROVE  OwnerOK'
  BY <1>1, <1>5 DEF OwnerOK, HandMoves, Engaged, Idle, Owns
<1>6. ASSUME NEW e \in Executor, NEW at \in {"free", "ended", "down"}, HandMoves(e, at), UNCHANGED <<ticket, analysis>>
      PROVE  OwnerOK'
  BY <1>6 DEF OwnerOK, HandMoves, Engaged, Idle, Owns
\* An executor that ends the job it owns.
<1>7. ASSUME NEW e \in Executor, NEW at \in {"free", "ended"}, NEW status \in {"succeeded", "failed", "errored", "interrupted"},
             EndJob(status), HandMoves(e, at), analysis' = analysis, Engaged(e),
             status = "succeeded" => hand[e].at = "complete", status = "failed" => hand[e].at = "fail"
      PROVE  OwnerOK'
  <2>1. ticket'.staged = ticket.staged /\ ticket'.status \in {"interrupted", status}
    BY <1>0, <1>7, EndOK
  <2>2. \A x \in Executor \ {e} : ~Engaged(x)
    BY <1>1, <1>7
  <2>3. \A x \in Executor : ~Engaged(x)'
    BY <1>7, <2>2 DEF HandMoves, Engaged, Idle
  <2>4. \A x \in Executor : hand'[x].at \notin {"lenses", "answer", "fail", "complete"}
    BY <2>3 DEF Engaged, Idle
  <2>5. /\ ticket.staged => analysis.status \in Done
        /\ ticket'.status = "succeeded" => analysis.status \in Done
        /\ ticket'.status = "failed" => analysis.status = "failed"
    BY <1>7, <2>1 DEF OwnerOK
  <2> QED  BY <1>7, <2>1, <2>3, <2>4, <2>5 DEF OwnerOK
<1>8. ASSUME NEW e \in Executor, StartStage(e) PROVE OwnerOK'
  <2>1. Engaged(e) /\ Owns(e) /\ ~ticket.staged
    BY <1>8 DEF StartStage, Engaged, Idle, OwnerOK
  <2>2. CASE EndJob("interrupted") /\ Goes(e, "free")
    BY <1>0, <1>7, <1>8, <2>1, <2>2, GoesOK DEF StartStage, Place
  <2>3. CASE UNCHANGED ticket /\ (Goes(e, "staged") \/ Goes(e, "error"))
    BY <1>0, <1>5, <1>8, <2>1, <2>3, GoesOK DEF StartStage, Place
  <2> QED  BY <1>8, <2>1, <2>2, <2>3 DEF StartStage
<1>9. ASSUME NEW e \in Executor, ReadRun(e) PROVE OwnerOK'
  <2>1. HandMoves(e, "read")
    BY <1>0, <1>9, FreshTypes DEF ReadRun, HandMoves, AnalysisTypes, HandState
  <2>2. Engaged(e) /\ ~ticket.staged
    BY <1>9 DEF ReadRun, Engaged, Idle, OwnerOK
  <2> QED  BY <1>5, <1>9, <2>1, <2>2 DEF ReadRun, Place
<1>10. ASSUME NEW e \in Executor, SaveRunning(e) \/ FinishLens(e) \/ LensesStop(e) PROVE OwnerOK'
  <2>1. ticket' = ticket /\ hand[e].at \in {"read", "lenses"}
    BY <1>10 DEF SaveRunning, FinishLens, LensesStop
  <2>2. Engaged(e) /\ ~ticket.staged /\ ticket.status = "running"
    BY <2>1 DEF OwnerOK, Engaged, Idle, Owns
  <2>3. HandMoves(e, "lenses")
    <3>1. CASE SaveRunning(e)
      BY <1>0, <3>1 DEF SaveRunning, HandMoves, AnalysisTypes, HandState
    <3>2. CASE FinishLens(e)
      BY <1>0, <3>2 DEF FinishLens, HandMoves, AnalysisTypes, HandState
    <3>3. CASE LensesStop(e)
      BY <1>0, <3>3 DEF LensesStop, HandMoves, AnalysisTypes, HandState
    <3> QED  BY <1>10, <3>1, <3>2, <3>3
  <2>4. analysis'.status = "running"
    <3>1. CASE SaveRunning(e)
      BY <1>0, <3>1 DEF SaveRunning, AnalysisTypes, HandState, RecordRow
    <3>2. CASE FinishLens(e)
      BY <1>0, <3>2 DEF FinishLens, AnalysisTypes, HandState, RecordRow, CopiesOK
    <3>3. CASE LensesStop(e)
      BY <3>3 DEF LensesStop, OwnerOK
    <3> QED  BY <1>10, <3>1, <3>2, <3>3
  <2> QED  BY <1>1, <2>1, <2>2, <2>3, <2>4 DEF OwnerOK, HandMoves, Engaged, Idle, Owns
<1>11. ASSUME NEW e \in Executor, SaveOutcome(e) PROVE OwnerOK'
  <2>1. HandMoves(e, "answer") /\ ticket' = ticket /\ hand[e].at = "lenses"
    BY <1>0, <1>11, GoesOK DEF SaveOutcome, Place
  <2>2. analysis'.status \in Done \cup {"failed"}
    <3>1. /\ hand[e].copy \in RecordRow
          /\ Lens \subseteq hand[e].copy.arts \cup hand[e].copy.errs \/ hand[e].copy.errs # {}
      BY <1>0, <1>11 DEF SaveOutcome, AnalysisTypes, HandState, CopiesOK
    <3> QED  BY <1>11, <3>1, OutcomeOK DEF SaveOutcome
  <2>3. Engaged(e) /\ ~ticket.staged /\ ticket.status = "running"
    BY <2>1 DEF OwnerOK, Engaged, Idle, Owns
  <2> QED  BY <1>1, <2>1, <2>2, <2>3 DEF OwnerOK, HandMoves, Engaged, Idle, Owns
<1>12. ASSUME NEW e \in Executor, AnswerStage(e) PROVE OwnerOK'
  <2>1. /\ Engaged(e) /\ Owns(e) /\ ticket.live /\ ~ticket.staged /\ ticket.status = "running"
        /\ analysis' = analysis /\ analysis.status \in Done \cup {"failed"}
    BY <1>12 DEF AnswerStage, OwnerOK, Engaged, Idle, Owns
  <2>2. CASE StageFails
    BY <1>0, <1>5, <1>12, <2>1, <2>2, GoesOK DEF AnswerStage, StageFails, Place
  <2>3. CASE ~StageFails
    <3>1. HandMoves(e, "complete")
      BY <1>0, <1>12, <2>1, <2>3, GoesOK DEF AnswerStage, Place
    <3>2. ticket'.status = "running" /\ ticket'.owner = e /\ ticket'.live /\ ticket'.staged
      BY <1>0, <1>12, <2>1, <2>3 DEF AnswerStage, AnalysisTypes, TicketState, Owns
    <3>3. \A x \in Executor \ {e} : ~Engaged(x)
      BY <1>1, <2>1
    <3> QED  BY <2>1, <2>3, <3>1, <3>2, <3>3 DEF OwnerOK, HandMoves, Engaged, Idle, Owns, StageFails
  <2> QED  BY <2>2, <2>3
<1>13. ASSUME NEW e \in Executor, FinishRun(e) PROVE OwnerOK'
  <2>1. Engaged(e) /\ Owns(e) /\ analysis' = analysis
    BY <1>13 DEF FinishRun, Engaged, Idle, OwnerOK
  <2>2. Goes(e, "free")
    BY <1>13, <2>1 DEF FinishRun
  <2>3. HandMoves(e, "free")
    BY <1>0, <2>2, GoesOK DEF Place
  <2> QED  BY <1>7, <1>13, <2>1, <2>3 DEF FinishRun
<1>14. ASSUME NEW e \in Executor, StageRaises(e) PROVE OwnerOK'
  <2>1. HandMoves(e, "error") /\ Engaged(e) /\ ~ticket.staged
    BY <1>0, <1>14, GoesOK DEF StageRaises, Place, Engaged, Idle, OwnerOK
  <2> QED  BY <1>5, <1>14, <2>1 DEF StageRaises, Place
<1>15. ASSUME NEW e \in Executor, WorkerFails(e) PROVE OwnerOK'
  <2>1. HandMoves(e, "ended") /\ analysis' = analysis
    BY <1>0, <1>15, GoesOK DEF WorkerFails, Place
  <2>2. CASE UNCHANGED ticket
    BY <1>6, <2>1, <2>2
  <2>3. CASE hand[e].at # "free" /\ EndJob("errored")
    <3>1. Engaged(e)
      BY <1>15, <2>3 DEF WorkerFails, Engaged, Idle
    <3> QED  BY <1>7, <2>1, <2>3, <3>1
  <2> QED  BY <1>15, <2>2, <2>3 DEF WorkerFails
<1>16. ASSUME NEW e \in Executor, ExecutorKilled(e) PROVE OwnerOK'
  BY <1>0, <1>6, <1>16, GoesOK DEF ExecutorKilled, Place
\* A row is recovered only when nobody executes the run, and only one that says "running".
<1>17. ASSUME Orphaned, analysis' = Recovered, ticket' = ticket, \A x \in Executor : ~Engaged(x)' PROVE OwnerOK'
  <2>1. analysis.status = "running" /\ ~ticket.staged /\ ticket.status \notin {"succeeded", "failed"}
    BY <1>17 DEF Orphaned, OwnerOK, Done
  <2>2. \A x \in Executor : hand'[x].at \notin {"lenses", "answer", "fail", "complete"}
    BY <1>17 DEF Engaged, Idle
  <2> QED  BY <1>17, <2>1, <2>2 DEF OwnerOK
<1>18. ASSUME NEW e \in Executor, ProcessStarts(e) PROVE OwnerOK'
  <2>1. HandMoves(e, "free") /\ ticket' = ticket
    BY <1>0, <1>18, GoesOK DEF ProcessStarts, Place
  <2>2. CASE Orphaned
    <3>1. \A x \in Executor : ~Engaged(x)
      BY <2>2 DEF Orphaned, OwnerOK, Owns
    <3>2. \A x \in Executor : ~Engaged(x)'
      BY <2>1, <3>1 DEF HandMoves, Engaged, Idle
    <3> QED  BY <1>17, <1>18, <2>1, <2>2, <3>2 DEF ProcessStarts
  <2>3. CASE ~Orphaned
    BY <1>6, <1>18, <2>1, <2>3 DEF ProcessStarts
  <2> QED  BY <2>2, <2>3
<1>19. CASE RecoverInterrupted
  <2>1. \A x \in Executor : ~Engaged(x)'
    BY <1>19 DEF RecoverInterrupted, Orphaned, OwnerOK, Owns, Engaged, Idle
  <2> QED  BY <1>17, <1>19, <2>1 DEF RecoverInterrupted
<1>20. CASE CancelRun
  <2>1. /\ analysis' = analysis /\ hand' = hand /\ ticket'.owner = ticket.owner /\ ticket'.live = ticket.live
        /\ ticket'.staged = ticket.staged
        /\ \/ ticket.status = "queued" /\ ticket'.status = "interrupted"
           \/ ticket'.status = ticket.status
    BY <1>0, <1>20 DEF CancelRun, AnalysisTypes, TicketState
  <2> QED  BY <2>1 DEF OwnerOK, Engaged, Idle, Owns
<1>21. CASE SweepRun
  <2>1. /\ analysis' = analysis /\ hand' = hand /\ ticket'.staged = ticket.staged /\ ticket'.status = "interrupted" /\ ~ticket.live
    BY <1>0, <1>21 DEF SweepRun, AnalysisTypes, TicketState
  <2> QED  BY <2>1 DEF OwnerOK, Engaged, Idle, Owns
<1>22. CASE LeaseLapses
  <2>1. /\ analysis' = analysis /\ hand' = hand /\ ticket'.staged = ticket.staged /\ ticket'.status = ticket.status
    BY <1>0, <1>22 DEF LeaseLapses, AnalysisTypes, TicketState
  <2>2. ~Engaged(ticket.owner)
    BY <1>22 DEF LeaseLapses, Engaged
  <2>3. \A x \in Executor : ~Engaged(x)
    BY <2>2 DEF OwnerOK, Owns
  <2> QED  BY <2>1, <2>3 DEF OwnerOK, Engaged, Idle, Owns
<1>23. CASE UNCHANGED analysisVars
  BY <1>23 DEF analysisVars, OwnerOK, Engaged, Idle, Owns
<1> QED
  BY <1>2, <1>3, <1>4, <1>8, <1>9, <1>10, <1>11, <1>12, <1>13, <1>14, <1>15, <1>16, <1>18, <1>19, <1>20, <1>21, <1>22, <1>23
  DEF AnalysisNext, Execute, Disturb, ExecutorStarts, EndedStarts

LEMMA AnalysisStep == AnalysisInv /\ [AnalysisNext]_analysisVars => AnalysisInv'
BY AnalysisTypeStep, HonestStep, RequestStep, CopiesStep, OwnerStep DEF AnalysisInv

\* The row, the job and the executors have their types: analysis_store.py, typed_analysis.py.
THEOREM AnalysisTypeCorrect == AnalysisSpec => []AnalysisTypeOK
<1>1. AnalysisInv => AnalysisTypeOK
  BY AnalysisTypesOK DEF AnalysisInv
<1> QED  BY AnalysisInitially, AnalysisStep, <1>1, PTL DEF AnalysisSpec

\* Whoever saved the row last, it tells the truth about its artifacts and errors; and while
\* no lease has lapsed under a live executor it follows its job (typed_analysis.py).
THEOREM RowsFollowTheirJob == AnalysisSpec => []RowFollowsJob
<1>1. AnalysisInv => RowFollowsJob
  BY DEF AnalysisInv, OwnerOK, RowFollowsJob, Done
<1> QED  BY AnalysisInitially, AnalysisStep, <1>1, PTL DEF AnalysisSpec

------------------------------------------------------------------------------
(*****************************************************************************)
(* Loads.  What the single-flight cache promises, for any callers, keys,     *)
(* capacity and number of loads.                                             *)
(*****************************************************************************)
HIDE AnalysisAssumption

USE SingleFlightAssumption DEF SingleFlightAssumption, Load, Owning, Completing

Loading == Owning \cup Completing

\* Nothing refers to a load that has not begun.
NumbersOK ==
    /\ \A c \in Caller : stage[c] # "idle" => future[c] \in 1..loads
    /\ \A k \in Key : entry[k] \in 0..loads /\ pending[k] \in 0..loads
    /\ invalid \subseteq 1..loads

\* _pending holds the futures of the owning calls, and each has one owner.
OwnersOK ==
    /\ \A c \in Caller : stage[c] \in Owning => pending[key[c]] = future[c] /\ key[c] \notin cached
    /\ \A k \in Key : pending[k] # 0 =>
          \E c \in Caller : stage[c] \in Owning /\ key[c] = k /\ future[c] = pending[k]
    /\ \A c, d \in Caller : stage[c] \in Loading /\ stage[d] \in Loading /\ future[c] = future[d] => c = d

\* The future of a call under way was no spoiled one when the call began.
SpoiledOK == \A c \in Caller : stage[c] # "idle" => future[c] \notin spoiled[c]

CacheInv == CacheTypeOK /\ NumbersOK /\ OwnersOK /\ WaitersHaveOwner /\ SpoiledOK /\ NothingSpoiled

LEMMA InitInv == CallInit => CacheInv
  BY DEF CallInit, CacheInv, CacheTypeOK, NumbersOK, OwnersOK, WaitersHaveOwner, SpoiledOK,
         NothingSpoiled, Loading

-----------------------------------------------------------------------------
\* Moving k to the end of keys that have an order leaves an order of them.
LEMMA TouchedIsOrder ==
    ASSUME CacheTypeOK, NEW k \in Key, NEW keys, keys \subseteq cached \cup {k}
    PROVE  /\ Touched(k, keys) \in [Key -> SUBSET Key]
           /\ \A j \in Key : Touched(k, keys)[j] \subseteq keys \ {j}
           /\ \A i, j \in keys : i # j =>
                (i \in Touched(k, keys)[j] <=> j \notin Touched(k, keys)[i])
  BY DEF CacheTypeOK, Touched

\* Deleting a key leaves an order of the others.
LEMMA DropIsOrder ==
    ASSUME CacheTypeOK, NEW k \in Key, Drop(k)
    PROVE  /\ cached' = cached \ {k}
           /\ cached' \subseteq Key
           /\ entry' \in [Key -> 0..MaxLoads] /\ after' \in [Key -> SUBSET Key]
           /\ \A j \in Key : (j \in cached' <=> entry'[j] # 0) /\ after'[j] \subseteq cached' \ {j}
           /\ \A i, j \in cached' : i # j => (i \in after'[j] <=> j \notin after'[i])
           /\ \A j \in Key : entry'[j] \in {0, entry[j]}
  BY DEF CacheTypeOK, Drop

LEMMA CacheTypeStep == CacheInv /\ [CallNext]_callVars => CacheTypeOK'
<1> SUFFICES ASSUME CacheInv, [CallNext]_callVars PROVE CacheTypeOK'
  OBVIOUS
<1>0. CacheTypeOK /\ NumbersOK
  BY DEF CacheInv
<1>1. ASSUME NEW c \in Caller, NEW k \in Key, HitEntry(c, k) PROVE CacheTypeOK'
  <2>1. k \in cached /\ after' = Touched(k, cached) /\ cached' = cached /\ entry' = entry
    BY <1>1 DEF HitEntry, Usable
  <2>2. /\ after' \in [Key -> SUBSET Key]
        /\ \A j \in Key : after'[j] \subseteq cached \ {j}
        /\ \A i, j \in cached : i # j => (i \in after'[j] <=> j \notin after'[i])
    BY <1>0, <2>1, TouchedIsOrder
  <2>3. /\ key' \in [Caller -> Key] /\ spoiled' \in [Caller -> SUBSET Load]
        /\ stage' \in [Caller -> {"idle", "wait"} \cup Owning \cup Completing]
        /\ got' \in [Caller -> 0..MaxLoads]
    BY <1>0, <1>1 DEF HitEntry, Ask, Return, MoveTo, CacheTypeOK
  <2> QED BY <1>0, <1>1, <2>1, <2>2, <2>3 DEF HitEntry, CacheTypeOK
<1>2. ASSUME NEW c \in Caller, NEW k \in Key, Join(c, k) PROVE CacheTypeOK'
  <2>1. /\ key' \in [Caller -> Key] /\ spoiled' \in [Caller -> SUBSET Load]
        /\ stage' \in [Caller -> {"idle", "wait"} \cup Owning \cup Completing]
        /\ future' \in [Caller -> 0..MaxLoads]
    BY <1>0, <1>2 DEF Join, Ask, MoveTo, CacheTypeOK
  <2> QED BY <1>0, <1>2, <2>1, DropIsOrder DEF Join, CacheTypeOK
<1>3. ASSUME NEW c \in Caller, NEW k \in Key, Own(c, k) PROVE CacheTypeOK'
  <2>1. loads' \in 0..MaxLoads /\ loads + 1 \in 0..MaxLoads
    BY <1>0, <1>3 DEF Own, CacheTypeOK
  <2>2. pending' \in [Key -> 0..MaxLoads] /\ future' \in [Caller -> 0..MaxLoads]
    BY <1>0, <1>3, <2>1 DEF Own, CacheTypeOK
  <2>3. /\ key' \in [Caller -> Key] /\ spoiled' \in [Caller -> SUBSET Load]
        /\ stage' \in [Caller -> {"idle", "wait"} \cup Owning \cup Completing]
    BY <1>0, <1>3 DEF Own, Ask, MoveTo, CacheTypeOK
  <2> QED BY <1>0, <1>3, <2>1, <2>2, <2>3, DropIsOrder DEF Own, CacheTypeOK
<1>4. ASSUME NEW c \in Caller, LoadEnds(c) PROVE CacheTypeOK'
  <2>1. future[c] \in Load
    BY <1>0, <1>4 DEF LoadEnds, NumbersOK, CacheTypeOK
  <2> QED BY <1>0, <1>4, <2>1 DEF LoadEnds, MoveTo, table, CacheTypeOK
<1>5. ASSUME NEW c \in Caller, Store(c) PROVE CacheTypeOK'
  <2> DEFINE k == key[c]
             left == Kept(cached \cup {k}, Touched(k, cached \cup {k}))
  <2>1. k \in Key /\ left \subseteq cached \cup {k} /\ left \subseteq Key
    BY <1>0 DEF CacheTypeOK, Kept
  <2>2. /\ cached' = left /\ after' = Touched(k, left)
        /\ entry' = [j \in Key |-> IF j \notin left THEN 0
                                   ELSE IF j = k THEN future[c] ELSE entry[j]]
    BY <1>5 DEF Store
  <2>3. future[c] \in 1..MaxLoads
    BY <1>0, <1>5 DEF Store, NumbersOK, CacheTypeOK
  <2>4. /\ after' \in [Key -> SUBSET Key]
        /\ \A j \in Key : after'[j] \subseteq left \ {j}
        /\ \A i, j \in left : i # j => (i \in after'[j] <=> j \notin after'[i])
    <3> HIDE DEF left
    <3> QED BY <1>0, <2>1, <2>2, TouchedIsOrder
  <2>5. entry' \in [Key -> 0..MaxLoads] /\ \A j \in Key : j \in left <=> entry'[j] # 0
    <3> HIDE DEF left
    <3> QED BY <1>0, <2>1, <2>2, <2>3 DEF CacheTypeOK
  <2>6. /\ stage' \in [Caller -> {"idle", "wait"} \cup Owning \cup Completing]
        /\ pending' \in [Key -> 0..MaxLoads]
        /\ UNCHANGED <<loads, done, failed, invalid, key, future, spoiled, got>>
    BY <1>0, <1>5 DEF Store, MoveTo, CacheTypeOK
  <2> HIDE DEF left
  <2> QED BY <1>0, <2>1, <2>2, <2>4, <2>5, <2>6 DEF CacheTypeOK
<1>6. ASSUME NEW c \in Caller, PublishResult(c) \/ Fail(c) \/ Raise(c) \/ Wake(c) PROVE CacheTypeOK'
  <2>1. future[c] \in Load /\ future[c] \in 0..MaxLoads /\ 0 \in 0..MaxLoads
    BY <1>0, <1>6 DEF PublishResult, Fail, Raise, Wake, NumbersOK, CacheTypeOK
  <2>2. CASE PublishResult(c)
    BY <1>0, <2>1, <2>2 DEF PublishResult, Return, MoveTo, table, CacheTypeOK
  <2>3. CASE Fail(c)
    BY <1>0, <2>1, <2>3 DEF Fail, MoveTo, table, CacheTypeOK
  <2>4. CASE Raise(c)
    BY <1>0, <2>1, <2>4 DEF Raise, Return, MoveTo, table, CacheTypeOK
  <2>5. CASE Wake(c)
    <3>1. PICK value \in 0..MaxLoads : Return(c, value)
      BY <2>1, <2>5 DEF Wake
    <3>2. UNCHANGED <<loads, table, pending, done, failed, invalid, key, future, spoiled>>
      BY <2>5 DEF Wake
    <3> QED  BY <1>0, <3>1, <3>2 DEF Return, MoveTo, table, CacheTypeOK
  <2> QED BY <1>6, <2>2, <2>3, <2>4, <2>5
<1>7. ASSUME NEW k \in Key, Expire(k) PROVE CacheTypeOK'
  <2>1. entry[k] \in Load
    BY <1>0, <1>7 DEF Expire, CacheTypeOK
  <2> QED BY <1>0, <1>7, <2>1 DEF Expire, table, locals, CacheTypeOK
<1>8. CASE UNCHANGED callVars
  BY <1>0, <1>8 DEF callVars, table, locals, CacheTypeOK
<1> QED
  BY <1>1, <1>2, <1>3, <1>4, <1>5, <1>6, <1>7, <1>8 DEF CallNext, Proceed

LEMMA NumbersStep == CacheInv /\ [CallNext]_callVars => NumbersOK'
<1> SUFFICES ASSUME CacheInv, [CallNext]_callVars PROVE NumbersOK'
  OBVIOUS
<1>0. CacheTypeOK /\ NumbersOK
  BY DEF CacheInv
<1> USE <1>0 DEF NumbersOK
<1>1. ASSUME NEW c \in Caller, NEW k \in Key, HitEntry(c, k) PROVE NumbersOK'
  BY <1>1 DEF HitEntry, Ask, Return, MoveTo, CacheTypeOK
<1>2. ASSUME NEW c \in Caller, NEW k \in Key, Join(c, k) PROVE NumbersOK'
  BY <1>2 DEF Join, Ask, Drop, MoveTo, CacheTypeOK
<1>3. ASSUME NEW c \in Caller, NEW k \in Key, Own(c, k) PROVE NumbersOK'
  <2>1. loads \in Nat /\ loads' = loads + 1 /\ invalid' = invalid
    BY <1>3 DEF Own, CacheTypeOK
  <2>2. \A d \in Caller : stage'[d] # "idle" => future'[d] \in 1..loads'
    BY <1>3, <2>1 DEF Own, MoveTo, CacheTypeOK
  <2>3. \A j \in Key : entry'[j] \in 0..loads' /\ pending'[j] \in 0..loads'
    BY <1>3, <2>1 DEF Own, Drop, CacheTypeOK
  <2> QED BY <2>1, <2>2, <2>3
<1>4. ASSUME NEW c \in Caller, LoadEnds(c) PROVE NumbersOK'
  <2>1. /\ stage[c] # "idle" /\ \A d \in Caller \ {c} : stage'[d] = stage[d]
        /\ invalid' \subseteq invalid \cup {future[c]}
        /\ UNCHANGED <<loads, entry, pending, future>>
    BY <1>4 DEF LoadEnds, MoveTo, table, CacheTypeOK
  <2> QED BY <2>1
<1>5. ASSUME NEW c \in Caller, Store(c) PROVE NumbersOK'
  <2>1. /\ \A j \in Key : entry'[j] \in {0, entry[j], future[c]} /\ pending'[j] \in {0, pending[j]}
        /\ UNCHANGED <<loads, invalid, future>>
    BY <1>5 DEF Store, CacheTypeOK
  <2>2. stage[c] # "idle" /\ \A d \in Caller \ {c} : stage'[d] = stage[d]
    BY <1>5 DEF Store, MoveTo, CacheTypeOK
  <2>3. loads \in Nat
    BY DEF CacheTypeOK
  <2> QED BY <2>1, <2>2, <2>3
<1>6. ASSUME NEW c \in Caller, PublishResult(c) \/ Fail(c) \/ Raise(c) \/ Wake(c) PROVE NumbersOK'
  <2>1. /\ stage[c] # "idle" /\ \A d \in Caller \ {c} : stage'[d] = stage[d]
        /\ UNCHANGED <<loads, entry, invalid, future>>
    BY <1>6 DEF PublishResult, Fail, Raise, Wake, Return, MoveTo, table, CacheTypeOK
  <2>2. \A j \in Key : pending'[j] \in {0, pending[j]}
    BY <1>6 DEF PublishResult, Fail, Raise, Wake, CacheTypeOK
  <2>3. loads \in Nat
    BY DEF CacheTypeOK
  <2> QED BY <2>1, <2>2, <2>3
<1>7. ASSUME NEW k \in Key, Expire(k) PROVE NumbersOK'
  <2>1. entry[k] \in 1..loads
    BY <1>7 DEF Expire, CacheTypeOK
  <2> QED BY <1>7, <2>1 DEF Expire, table, locals
<1>8. CASE UNCHANGED callVars
  BY <1>8 DEF callVars, table, locals
<1> QED
  BY <1>1, <1>2, <1>3, <1>4, <1>5, <1>6, <1>7, <1>8 DEF CallNext, Proceed

LEMMA OwnersStep == CacheInv /\ [CallNext]_callVars => OwnersOK'
<1> SUFFICES ASSUME CacheInv, [CallNext]_callVars PROVE OwnersOK'
  OBVIOUS
<1>0. CacheTypeOK /\ NumbersOK /\ OwnersOK
  BY DEF CacheInv
<1> USE <1>0 DEF Loading
<1>1. ASSUME NEW c \in Caller, NEW k \in Key, HitEntry(c, k) PROVE OwnersOK'
  BY <1>1 DEF HitEntry, Ask, Return, MoveTo, CacheTypeOK, OwnersOK
<1>2. ASSUME NEW c \in Caller, NEW k \in Key, Join(c, k) PROVE OwnersOK'
  <2>1. /\ stage[c] = "idle" /\ stage'[c] = "wait" /\ pending' = pending /\ cached' \subseteq cached
        /\ \A d \in Caller \ {c} : stage'[d] = stage[d] /\ key'[d] = key[d] /\ future'[d] = future[d]
    BY <1>2 DEF Join, Ask, Drop, MoveTo, CacheTypeOK
  <2> QED BY <2>1 DEF OwnersOK
<1>3. ASSUME NEW c \in Caller, NEW k \in Key, Own(c, k) PROVE OwnersOK'
  <2>0. loads \in Nat /\ stage[c] = "idle" /\ pending[k] = 0 /\ cached' = cached \ {k}
    BY <1>3 DEF Own, Ask, Drop, CacheTypeOK
  <2>1. /\ stage'[c] = "load" /\ key'[c] = k /\ future'[c] = loads + 1 /\ pending'[k] = loads + 1
        /\ \A d \in Caller \ {c} : stage'[d] = stage[d] /\ key'[d] = key[d] /\ future'[d] = future[d]
        /\ \A j \in Key \ {k} : pending'[j] = pending[j]
    BY <1>3 DEF Own, Ask, MoveTo, CacheTypeOK
  <2>2. \A d \in Caller \ {c} : stage[d] \in Loading => future[d] # loads + 1
    BY <2>0 DEF NumbersOK
  <2>3. \A d \in Caller : stage[d] \in Owning => key[d] # k
    BY <2>0 DEF OwnersOK, NumbersOK
  <2>4. \A d \in Caller : stage'[d] \in Owning => pending'[key'[d]] = future'[d] /\ key'[d] \notin cached'
    BY <2>0, <2>1, <2>3 DEF OwnersOK, CacheTypeOK
  <2>5. ASSUME NEW j \in Key, pending'[j] # 0
        PROVE  \E d \in Caller : stage'[d] \in Owning /\ key'[d] = j /\ future'[d] = pending'[j]
    <3>1. CASE j = k
      BY <2>1, <3>1
    <3>2. CASE j # k
      <4>1. PICK d \in Caller : stage[d] \in Owning /\ key[d] = j /\ future[d] = pending[j]
        BY <2>1, <2>5, <3>2 DEF OwnersOK
      <4> QED BY <2>0, <2>1, <3>2, <4>1
    <3> QED BY <3>1, <3>2
  <2>6. \A d, e \in Caller : stage'[d] \in Loading /\ stage'[e] \in Loading /\ future'[d] = future'[e] => d = e
    BY <2>1, <2>2 DEF OwnersOK
  <2> QED BY <2>4, <2>5, <2>6 DEF OwnersOK
<1>4. ASSUME NEW c \in Caller, LoadEnds(c) PROVE OwnersOK'
  <2>1. /\ stage[c] \in Owning /\ stage'[c] \in Owning /\ \A d \in Caller \ {c} : stage'[d] = stage[d]
        /\ UNCHANGED <<cached, pending, key, future>>
    BY <1>4 DEF LoadEnds, MoveTo, table, CacheTypeOK
  <2> QED BY <2>1 DEF OwnersOK
<1>5. ASSUME NEW c \in Caller, Store(c) \/ Fail(c) PROVE OwnersOK'
  <2>0. key[c] \in Key
    BY DEF CacheTypeOK
  <2>1. /\ stage[c] \in Owning /\ stage'[c] \in Completing /\ pending'[key[c]] = 0
        /\ \A d \in Caller \ {c} : stage'[d] = stage[d]
        /\ \A j \in Key \ {key[c]} : pending'[j] = pending[j]
        /\ UNCHANGED <<key, future>>
    BY <1>5, <2>0 DEF Store, Fail, MoveTo, CacheTypeOK
  <2>2. cached' \subseteq cached \cup {key[c]}
    BY <1>5 DEF Store, Fail, table, Kept
  <2>3. \A d \in Caller \ {c} : stage[d] \in Owning => key[d] # key[c]
    BY <2>1 DEF OwnersOK
  <2> QED BY SMTT(30), <2>0, <2>1, <2>2, <2>3 DEF OwnersOK, CacheTypeOK
<1>6. ASSUME NEW c \in Caller, PublishResult(c) \/ Raise(c) \/ Wake(c) PROVE OwnersOK'
  <2>1. /\ stage[c] \notin Owning /\ stage'[c] = "idle" /\ \A d \in Caller \ {c} : stage'[d] = stage[d]
        /\ UNCHANGED <<cached, pending, key, future>>
    BY <1>6 DEF PublishResult, Raise, Wake, Return, MoveTo, table, CacheTypeOK
  <2> QED BY <2>1 DEF OwnersOK
<1>7. ASSUME NEW k \in Key, Expire(k) PROVE OwnersOK'
  BY <1>7 DEF Expire, table, locals, OwnersOK
<1>8. CASE UNCHANGED callVars
  BY <1>8 DEF callVars, table, locals, OwnersOK
<1> QED
  BY <1>1, <1>2, <1>3, <1>4, <1>5, <1>6, <1>7, <1>8 DEF CallNext, Proceed

LEMMA WaitersStep == CacheInv /\ [CallNext]_callVars => WaitersHaveOwner'
<1> SUFFICES ASSUME CacheInv, [CallNext]_callVars PROVE WaitersHaveOwner'
  OBVIOUS
<1>0. CacheTypeOK /\ OwnersOK /\ WaitersHaveOwner
  BY DEF CacheInv
<1> USE <1>0
<1>1. ASSUME NEW c \in Caller, NEW k \in Key, HitEntry(c, k) PROVE WaitersHaveOwner'
  <2>1. /\ stage[c] = "idle" /\ stage'[c] = "idle" /\ \A d \in Caller \ {c} : stage'[d] = stage[d]
        /\ UNCHANGED <<future, done, failed>>
    BY <1>1 DEF HitEntry, Ask, Return, MoveTo, CacheTypeOK
  <2> QED BY <2>1 DEF WaitersHaveOwner
<1>2. ASSUME NEW c \in Caller, NEW k \in Key, Join(c, k) PROVE WaitersHaveOwner'
  <2>1. PICK d \in Caller : stage[d] \in Owning /\ future[d] = pending[k]
    BY <1>2 DEF Join, OwnersOK
  <2>2. /\ stage[c] = "idle" /\ future'[c] = pending[k] /\ done' = done /\ failed' = failed
        /\ \A e \in Caller \ {c} : stage'[e] = stage[e] /\ future'[e] = future[e]
    BY <1>2 DEF Join, Ask, MoveTo, CacheTypeOK
  <2> QED BY <2>1, <2>2 DEF WaitersHaveOwner
<1>3. ASSUME NEW c \in Caller, NEW k \in Key, Own(c, k) PROVE WaitersHaveOwner'
  <2>1. /\ stage[c] = "idle" /\ stage'[c] = "load" /\ done' = done /\ failed' = failed
        /\ \A e \in Caller \ {c} : stage'[e] = stage[e] /\ future'[e] = future[e]
    BY <1>3 DEF Own, Ask, MoveTo, CacheTypeOK
  <2> QED BY <2>1 DEF WaitersHaveOwner
<1>4. ASSUME NEW c \in Caller, LoadEnds(c) \/ Store(c) \/ Fail(c) PROVE WaitersHaveOwner'
  <2>1. /\ stage[c] # "wait" /\ stage'[c] \in Loading /\ \A d \in Caller \ {c} : stage'[d] = stage[d]
        /\ UNCHANGED <<future, done, failed>>
    BY <1>4 DEF LoadEnds, Store, Fail, MoveTo, CacheTypeOK, Loading
  <2> QED BY <2>1 DEF WaitersHaveOwner, Loading
<1>5. ASSUME NEW c \in Caller, PublishResult(c) \/ Raise(c) PROVE WaitersHaveOwner'
  <2>1. /\ stage'[c] = "idle" /\ \A d \in Caller \ {c} : stage'[d] = stage[d]
        /\ future' = future /\ done' \cup failed' = done \cup failed \cup {future[c]}
    BY <1>5 DEF PublishResult, Raise, Return, MoveTo, CacheTypeOK
  <2> QED BY <2>1 DEF WaitersHaveOwner
<1>6. ASSUME NEW c \in Caller, Wake(c) PROVE WaitersHaveOwner'
  BY <1>6 DEF Wake, Return, MoveTo, CacheTypeOK, WaitersHaveOwner
<1>7. ASSUME NEW k \in Key, Expire(k) PROVE WaitersHaveOwner'
  BY <1>7 DEF Expire, locals, WaitersHaveOwner
<1>8. CASE UNCHANGED callVars
  BY <1>8 DEF callVars, locals, WaitersHaveOwner
<1> QED
  BY <1>1, <1>2, <1>3, <1>4, <1>5, <1>6, <1>7, <1>8 DEF CallNext, Proceed
-----------------------------------------------------------------------------
\* A call takes a valid value, or the value of a load that is not over.
LEMMA SpoiledStep == CacheInv /\ [CallNext]_callVars => SpoiledOK' /\ NothingSpoiled'
<1> SUFFICES ASSUME CacheInv, [CallNext]_callVars PROVE SpoiledOK' /\ NothingSpoiled'
  OBVIOUS
<1>0. CacheTypeOK /\ NumbersOK /\ OwnersOK /\ SpoiledOK /\ NothingSpoiled
  BY DEF CacheInv
<1> USE <1>0 DEF SpoiledOK, NothingSpoiled
<1>1. ASSUME NEW c \in Caller, NEW k \in Key, HitEntry(c, k) PROVE SpoiledOK' /\ NothingSpoiled'
  BY <1>1 DEF HitEntry, Ask, Usable, Return, MoveTo, CacheTypeOK
<1>2. ASSUME NEW c \in Caller, NEW k \in Key, Join(c, k) PROVE SpoiledOK' /\ NothingSpoiled'
  <2>1. PICK d \in Caller : stage[d] \in Owning /\ future[d] = pending[k]
    BY <1>2 DEF Join, OwnersOK
  <2>2. pending[k] \notin spoiled'[c]
    BY <1>2, <2>1 DEF Join, Ask, CacheTypeOK
  <2>3. /\ stage[c] = "idle" /\ stage'[c] = "wait" /\ future'[c] = pending[k] /\ got' = got
        /\ \A e \in Caller \ {c} :
             stage'[e] = stage[e] /\ future'[e] = future[e] /\ spoiled'[e] = spoiled[e]
    BY <1>2 DEF Join, Ask, MoveTo, CacheTypeOK
  <2> QED BY <2>2, <2>3
<1>3. ASSUME NEW c \in Caller, NEW k \in Key, Own(c, k) PROVE SpoiledOK' /\ NothingSpoiled'
  <2>1. loads + 1 \notin invalid
    BY DEF NumbersOK, CacheTypeOK
  <2>2. /\ stage[c] = "idle" /\ stage'[c] = "load" /\ future'[c] = loads + 1 /\ got' = got
        /\ spoiled'[c] \subseteq invalid
        /\ \A e \in Caller \ {c} :
             stage'[e] = stage[e] /\ future'[e] = future[e] /\ spoiled'[e] = spoiled[e]
    BY <1>3 DEF Own, Ask, MoveTo, CacheTypeOK
  <2> QED BY <2>1, <2>2
<1>4. ASSUME NEW c \in Caller, LoadEnds(c) \/ Store(c) \/ Fail(c)
      PROVE  SpoiledOK' /\ NothingSpoiled'
  <2>1. /\ stage[c] # "idle" /\ stage'[c] # "idle" /\ \A d \in Caller \ {c} : stage'[d] = stage[d]
        /\ UNCHANGED <<future, spoiled, got>>
    BY <1>4 DEF LoadEnds, Store, Fail, MoveTo, CacheTypeOK
  <2> QED BY <2>1
<1>5. ASSUME NEW c \in Caller, PublishResult(c) \/ Raise(c) \/ Wake(c)
      PROVE  SpoiledOK' /\ NothingSpoiled'
  <2>1. /\ stage[c] # "idle" /\ stage'[c] = "idle" /\ got'[c] \in {0, future[c]}
        /\ \A d \in Caller \ {c} : stage'[d] = stage[d] /\ got'[d] = got[d]
        /\ UNCHANGED <<future, spoiled>>
    BY <1>5 DEF PublishResult, Raise, Wake, Return, MoveTo, CacheTypeOK
  <2>2. 0 \notin spoiled[c]
    BY DEF CacheTypeOK
  <2> QED BY <2>1, <2>2
<1>6. ASSUME NEW k \in Key, Expire(k) PROVE SpoiledOK' /\ NothingSpoiled'
  BY <1>6 DEF Expire, locals
<1>7. CASE UNCHANGED callVars
  BY <1>7 DEF callVars, locals
<1> QED
  BY <1>1, <1>2, <1>3, <1>4, <1>5, <1>6, <1>7 DEF CallNext, Proceed
-----------------------------------------------------------------------------
LEMMA CacheInvariant == CallSpec => []CacheInv
<1>1. CacheInv /\ [CallNext]_callVars => CacheInv'
  BY CacheTypeStep, NumbersStep, OwnersStep, WaitersStep, SpoiledStep DEF CacheInv
<1> QED BY InitInv, <1>1, PTL DEF CallSpec

\* The state has its types, and _values orders the keys it holds, whatever is
\* touched, deleted and evicted in whatever order (singleflight.py:43-48,64-67).
THEOREM CacheTypeCorrect == CallSpec => []CacheTypeOK
<1>1. CacheInv => CacheTypeOK
  BY DEF CacheInv
<1> QED BY CacheInvariant, <1>1, PTL

\* A key is loaded by one call at a time, and by none while it has a value.
THEOREM LoadsAreCoalesced == CallSpec => []OneLoadPerKey
<1>1. CacheInv => OneLoadPerKey
  BY DEF CacheInv, OwnersOK, OneLoadPerKey, Loading
<1> QED BY CacheInvariant, <1>1, PTL

\* No call answers with a value it should have found invalid: a cached one is
\* asked for its validity, and a future is unregistered when its load is over.
THEOREM AnswersAreValid == CallSpec => []NothingSpoiled
<1>1. CacheInv => NothingSpoiled
  BY DEF CacheInv
<1> QED BY CacheInvariant, <1>1, PTL

\* A waiting call has somebody to wait for, exceptions of the load included.
THEOREM WaitersAreServed == CallSpec => []WaitersHaveOwner
<1>1. CacheInv => WaitersHaveOwner
  BY DEF CacheInv
<1> QED BY CacheInvariant, <1>1, PTL
==============================================================================
