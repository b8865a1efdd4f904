----------------------------- MODULE CfdImports -----------------------------
(***************************************************************************)
(* Uploads of broker exports of contracts for difference, and the costs    *)
(* they are analysed for.  An upload is stored under its digest, combined  *)
(* with the files that the manifest lists, and listed there last; it can   *)
(* be cut short between any two files.                                     *)
(*                                                                         *)
(* The broker's account (external) is one position: orders open it and     *)
(* enlarge it, closes reduce it, a nightly charge is made on the units     *)
(* held, and a fee names the order of one close.  A close row states the   *)
(* costs it bore, in exports that have the column; the costs are rows of   *)
(* their own as well.  How the broker attributes a charge to closes is not *)
(* known to the code; two ways stand for it, which differ once an order    *)
(* enlarges the position after the charge.  An export is a window of the   *)
(* account's rows.                                                         *)
(***************************************************************************)
EXTENDS FiniteSetsExt, Integers, Sequences

CONSTANTS
    Events,    \* number of rows of the account
    Charge,    \* amount of a nightly charge or a fee, which the units held divide
    Largest,   \* bound: units opened
    MaxFiles   \* bound: different exports that are uploaded

ASSUME CfdAssumption == /\ Events \in Nat \ {0} /\ MaxFiles \in Nat
                        /\ Largest \in Nat \ {0}
                        /\ Charge \in Nat \ {0} /\ \A units \in 1..Largest : Charge % units = 0

VARIABLES
    account,    \* what happened, in the order of its times
    attribution, \* which closes bear a nightly charge
    originals,  \* exports stored under their digests
    entries,    \* exports that the manifest lists
    ledgerOf,   \* exports that ledger.json was made from
    analysisOf, \* exports that analysis.json was made from
    upload,     \* the upload under way; uploads hold one lock
    answered,   \* exports whose upload was answered
    cut         \* whether an upload was cut short after the last answer

cfdVars == <<account, attribution, originals, entries, ledgerOf, analysisOf, upload, answered, cut>>

Row == 1..Events
Kind(k, history) == {i \in DOMAIN history : history[i].kind = k}
Units(rows, history) == SumFunctionOnSet([i \in DOMAIN history |-> history[i].units], rows)
Before(rows, i) == {j \in rows : j < i}

\* A position is opened, enlarged, charged and reduced as long as some of it is held.
Entry == [kind : {"open"}, units : {1, 2}] \cup [kind : {"close"}, units : {1, 2}]
         \cup [kind : {"night", "fee"}, units : {0}]
StillOpen(i, history) == Units(Before(Kind("open", history), i), history) - Units(Before(Kind("close", history), i), history)
Accounts == {h \in [Row -> Entry] :
    /\ h[1].kind = "open" /\ Units(Kind("open", h), h) <= Largest
    /\ \A i \in Row \ {1} : h[i].kind # "fee" =>
          StillOpen(i, h) >= (IF h[i].kind = "close" THEN h[i].units ELSE 1)
    /\ Kind("fee", h) # {} => Kind("close", h) # {}}

Opens == Kind("open", account)
Closes == Kind("close", account)
Nights == Kind("night", account)
Costs == Nights \cup Kind("fee", account)

\* The close whose order a fee names: the last one so far, or the next one.
OrderOf(fee) == IF Before(Closes, fee) # {} THEN Max(Before(Closes, fee)) ELSE Min(Closes)

\* What the close bore of a cost, and in all.  A charge is borne by the units that were
\* held, which are the first to be closed, or is spread over all that are closed after it.
HeldAt(i) == StillOpen(i, account)
OfHeld(close, cost) ==
    Max({0, Min({account[close].units,
                 HeldAt(cost) - Units({c \in Closes : cost < c /\ c < close}, account)})})
Borne(close, cost) ==
    IF cost \notin Nights THEN IF close = OrderOf(cost) THEN Charge ELSE 0
    ELSE IF close < cost THEN 0
    ELSE IF attribution = "held" THEN (Charge * OfHeld(close, cost)) \div HeldAt(cost)
    ELSE (Charge * account[close].units) \div (Units(Opens, account) - Units(Before(Closes, cost), account))
BorneInAll(close) == SumFunction([cost \in Costs |-> Borne(close, cost)])

\* An export: the rows of a window, with or without the column of embedded costs.
Exports == {[rows |-> w, embedded |-> e] : w \in {first..last : first \in Row, last \in Row} \ {{}}, e \in BOOLEAN}
Export == {f \in Exports : f.embedded => f.rows \cap Closes # {}}
-----------------------------------------------------------------------------
\* combine_cfd_ledgers(): a row of several exports counts once; a close that states its
\* costs in one of them and not in another is a conflict.
Rows(files) == UNION {f.rows : f \in files}
Conflict(files) ==
    \E f, g \in files : f.embedded # g.embedded /\ f.rows \cap g.rows \cap Closes # {}

\* _allocate_costs(): a fee belongs to the close whose order it names, a charge to the
\* closes that held units when it was made.  Orders may show that more was held.
Candidates(cost, rows) ==
    IF cost \in Nights THEN {c \in Closes \cap rows : cost < c}
    ELSE Closes \cap rows \cap {OrderOf(cost)}
FaultyHolding(cost, rows) == Units(Candidates(cost, rows), account)  \* orders not looked at
Holding(cost, rows) ==
    Max({Units(Candidates(cost, rows), account),
         Units(Before(Opens \cap rows, cost), account) - Units(Before(Closes \cap rows, cost), account)})
Share(close, cost, rows) ==
    IF close \notin Candidates(cost, rows) THEN 0
    ELSE IF cost \in Nights THEN (Charge * account[close].units) \div Holding(cost, rows)
    ELSE Charge
Allocated(close, rows) == SumFunction([cost \in Costs \cap rows |-> Share(close, cost, rows)])
Unallocated(cost, rows) ==
    Charge - SumFunction([close \in Closes \cap rows |-> Share(close, cost, rows)])

\* Embedded costs are dropped if they are the allocated ones, and nothing is known if
\* they are others, or if a cost of the position could be theirs.
Linked(close, rows) == {cost \in Costs \cap rows : close \in Candidates(cost, rows)}
Stated(close, files) == IF \E f \in files : close \in f.rows /\ f.embedded THEN BorneInAll(close) ELSE 0
Unresolved(close, files) ==
    /\ Stated(close, files) # 0
    /\ IF Linked(close, Rows(files)) # {}
       THEN Allocated(close, Rows(files)) # Stated(close, files)
       ELSE \E cost \in Costs \cap Rows(files) : Unallocated(cost, Rows(files)) # 0
Fallback(close, files) == IF Linked(close, Rows(files)) = {} THEN Stated(close, files) ELSE 0

\* analyse_cfd_ledger(): the costs of all rows, unless some are unknown.
Reconciled(files) == \A close \in Closes \cap Rows(files) : ~Unresolved(close, files)
TotalCost(files) ==
    Charge * Cardinality(Costs \cap Rows(files))
        + SumFunction([close \in Closes \cap Rows(files) |-> Fallback(close, files)])
-----------------------------------------------------------------------------
NoFile == [rows |-> {}, embedded |-> FALSE]
NoUpload == [at |-> "rest", file |-> NoFile]

CfdTypeOK ==
    /\ account \in Accounts /\ attribution \in {"held", "spread"}
    /\ \A files \in {originals, entries, ledgerOf, analysisOf, answered} : files \subseteq Export
    /\ upload \in [at : {"original", "ledger", "analysis", "manifest"}, file : Export] \cup {NoUpload}
    /\ cut \in BOOLEAN

CfdInit ==
    /\ account \in {h \in Accounts : \E i \in Row : h[i].kind \in {"night", "fee"}}
    /\ attribution \in {"held", "spread"}
    /\ originals = {} /\ entries = {} /\ ledgerOf = {} /\ analysisOf = {} /\ answered = {}
    /\ upload = NoUpload /\ cut = FALSE

\* import_bytes(): an export in conflict with the files that are listed is refused before
\* anything is written; a file that is listed may be uploaded again.
FaultyAccepted(file) == file \in originals \/ ~Conflict(entries \cup {file})  \* what is stored was accepted
Accepted(file) == ~Conflict(entries \cup {file})
Upload ==
    /\ upload.at = "rest"
    /\ \E file \in Export :
          /\ file \in originals \/ Cardinality(originals) < MaxFiles
          /\ Accepted(file)
          /\ upload' = [at |-> "original", file |-> file]
    /\ UNCHANGED <<account, attribution, originals, entries, ledgerOf, analysisOf, answered, cut>>

\* _persist_original(): an original is never written again.
PersistOriginal ==
    /\ upload.at = "original"
    /\ originals' = originals \cup {upload.file}
    /\ upload' = [upload EXCEPT !.at = "ledger"]
    /\ UNCHANGED <<account, attribution, entries, ledgerOf, analysisOf, answered, cut>>

\* _write_rebuildable_caches(), also for a file that is listed already.
Candidate == entries \cup {upload.file}
WriteLedger ==
    /\ upload.at = "ledger"
    /\ ledgerOf' = Candidate
    /\ upload' = [upload EXCEPT !.at = "analysis"]
    /\ UNCHANGED <<account, attribution, originals, entries, analysisOf, answered, cut>>
WriteAnalysis ==
    /\ upload.at = "analysis"
    /\ analysisOf' = Candidate
    /\ upload' = [upload EXCEPT !.at = "manifest"]
    /\ UNCHANGED <<account, attribution, originals, entries, ledgerOf, answered, cut>>

\* The manifest lists the file; then the upload is answered.
WriteEntry ==
    /\ upload.at = "manifest"
    /\ entries' = Candidate
    /\ answered' = answered \cup {upload.file}
    /\ upload' = NoUpload /\ cut' = FALSE
    /\ UNCHANGED <<account, attribution, originals, ledgerOf, analysisOf>>

\* A write fails or the process is killed; the manifest may have been written.
CutShort ==
    /\ upload.at # "rest"
    /\ \/ UNCHANGED entries
       \/ upload.at = "manifest" /\ entries' = Candidate
    /\ upload' = NoUpload /\ cut' = TRUE
    /\ UNCHANGED <<account, attribution, originals, ledgerOf, analysisOf, answered>>

CfdNext == Upload \/ PersistOriginal \/ WriteLedger \/ WriteAnalysis \/ WriteEntry \/ CutShort
CfdSpec == CfdInit /\ [][CfdNext]_cfdVars
-----------------------------------------------------------------------------
\* What the exports prove: the costs that have a row, and the costs without a row that a
\* close which has one bore.
Proved(files) ==
    Charge * Cardinality(Costs \cap Rows(files))
        + SumFunction([close \in Closes \cap Rows(files) |->
                          IF Stated(close, files) = 0 THEN 0
                          ELSE SumFunction([cost \in Costs \ Rows(files) |-> Borne(close, cost)])])

\* The close rows state of the charges that have a row what the units held then would
\* bear.  An order that enlarged the position after the charge can make it less.
BorneByHeld(files) ==
    \A close \in Closes \cap Rows(files), cost \in Nights \cap Rows(files) :
        cost < close => Borne(close, cost) = (Charge * account[close].units) \div HeldAt(cost)

\* "CFD financing and dividend events count once" (data-and-metrics.md:133): whichever
\* exports were uploaded, with gaps and overlaps, if the orders that opened and enlarged the
\* position are in them, the broker attributes by what was held, as the code does
\* ("not a broker-reported per-close allocation", line 135), and the result is not
\* unknown, then it holds each cost that they prove, once.
EachCostOnce ==
    Opens \subseteq Rows(entries) /\ BorneByHeld(entries) /\ Reconciled(entries)
        => TotalCost(entries) = Proved(entries)

\* Kills and failed writes leave a manifest whose ledger can be built: its originals are
\* there and do not conflict, the answered ones among them.  Unless the last upload was cut
\* short the caches hold what it gives.
ImportsHold ==
    /\ answered \subseteq entries /\ entries \subseteq originals /\ ~Conflict(entries)
    /\ upload.at = "rest" /\ ~cut => ledgerOf = entries /\ analysisOf = entries
=============================================================================
