------------------------------ MODULE MCRecords ------------------------------
\* What is executed in steps, interrupted, and gone on with by a later execution: the runs
\* of an analysis and the ledger of a broker account.  They share no variable: the initial
\* state picks the one that runs.
EXTENDS AnalysisRuns, BrokerSync

CONSTANTS l1, l2, e1, e2

VARIABLE part  \* the component that runs

RecordsInit ==
    /\ part \in {"analysis", "broker"}
    /\ AnalysisInit
    /\ BrokerInit /\ (part # "broker" => activity = [h \in Half |-> "quiet"])

RecordsNext ==
    /\ UNCHANGED part
    /\ \/ part = "analysis" /\ AnalysisNext /\ UNCHANGED brokerVars
       \/ part = "broker" /\ BrokerNext /\ UNCHANGED analysisVars

\* The fairness of the two specifications.
RecordsVars == <<part, analysisVars, brokerVars>>
RecordsSpec ==
    /\ RecordsInit /\ [][RecordsNext]_RecordsVars
    /\ \A e \in Executor : WF_analysisVars(part = "analysis" /\ Execute(e))
    /\ WF_analysisVars(part = "analysis" /\ ticket.live /\ LeaseRunsOut)
    /\ WF_brokerVars(part = "broker" /\ StartSync)
    /\ WF_brokerVars(part = "broker" /\ SyncStep)
    /\ WF_brokerVars(part = "broker" /\ HalfDayPasses)
=============================================================================
