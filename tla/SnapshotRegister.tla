--------------------------- MODULE SnapshotRegister ---------------------------
(***************************************************************************)
(* What publication promises: there is one latest snapshot, and a refresh  *)
(* changes it at once and only where it was asked to.  Nothing is said of  *)
(* merging.  A snapshot shows research rows, a clock for each row, and the *)
(* account artifacts; each is known by the number of the refresh that      *)
(* produced it, 0 if there is none.                                        *)
(***************************************************************************)
EXTENDS Naturals

CONSTANTS
    Ticker,  \* securities on the watchlist
    Number   \* numbers of refreshes

VARIABLES
    rows,     \* rows[t]: refresh that produced the row of t
    clock,    \* clock[t]: how the row of t is presented
    accounts  \* refresh that produced the account artifacts

latest == <<rows, clock, accounts>>

Init ==
    /\ rows = [t \in Ticker |-> 0]
    /\ clock = [t \in Ticker |-> "none"]
    /\ accounts = 0

\* The refresh has a new row for t.
Renewed(t, n) == rows'[t] = n /\ clock'[t] = "available"

\* It asked for t in vain: "never deletion of last successful data".
Retained(t) ==
    /\ rows'[t] = rows[t]
    /\ clock'[t] = IF rows[t] = 0 THEN "none" ELSE "stale"

Untouched(t) == rows'[t] = rows[t] /\ clock'[t] = clock[t]

Refresh(n, asked) ==
    /\ \A t \in Ticker : IF t \in asked THEN Renewed(t, n) \/ Retained(t) ELSE Untouched(t)
    /\ accounts' \in {accounts, n}

Next == \E n \in Number, asked \in SUBSET Ticker : Refresh(n, asked)

Spec == Init /\ [][Next]_latest
=============================================================================
