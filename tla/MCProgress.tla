------------------------------ MODULE MCProgress ------------------------------
(* Small instances of the components that have to make progress.  One of    *)
(* them runs in each behaviour; each is scheduled as its module says.       *)
EXTENDS SiemOutbox, HotStore, AccountLifecycle, Credentials

VARIABLE component

progressVars == <<vars, hotVars, lcVars, credVars, component>>

ProgressInit ==
    /\ component \in {"outbox", "hot", "lifecycle", "renewals"}
    /\ Init /\ HotInit /\ LcInit /\ CredInit
    /\ component # "outbox" => enabled
    /\ component # "renewals" => provisioned = {}

Outbox(step) == component = "outbox" /\ step /\ UNCHANGED <<hotVars, lcVars, credVars, component>>
Hot(step) == component = "hot" /\ step /\ UNCHANGED <<vars, lcVars, credVars, component>>
Lifecycle(step) ==
    component = "lifecycle" /\ step /\ UNCHANGED <<vars, hotVars, credVars, component>>
Renewals(step) ==
    component = "renewals" /\ step /\ UNCHANGED <<vars, hotVars, lcVars, component>>

ProgressNext == Outbox(Next) \/ Hot(HotNext) \/ Lifecycle(LcNext)
                \/ Renewals(CredNext)

(* Fairness, HotFairness, LcFairness, CredFairness, each of the component   *)
(* that runs.                                                               *)
ProgressFairness ==
    /\ WF_progressVars(Outbox(DrainStep))
    /\ \A v \in Events : SF_progressVars(Outbox(GrowsStale(v)))
    /\ WF_progressVars(Hot(SyncExpires))
    /\ WF_progressVars(Hot(\E t \in HotThreads : RequestReads(t)))
    /\ \A t \in HotThreads :
         WF_progressVars(Hot(RequestApplies(t) \/ RequestEnds(t) \/ RequestCommits(t)))
    /\ \A a \in Admins : WF_progressVars(Hot(AdminContinues(a)))
    /\ \A j \in Runs : /\ WF_progressVars(Lifecycle(RunBegins(j)))
                       /\ WF_progressVars(Lifecycle(RunStep(j)))
    /\ \A e \in Editors : WF_progressVars(Lifecycle(EditWrites(e)))
    /\ WF_progressVars(Renewals(RenewalBegins(HourlyRun)))
    /\ \A c \in Pushers : WF_progressVars(Renewals(ApplicationTakes(c) \/ Success(c)))

ProgressSpec == ProgressInit /\ [][ProgressNext]_progressVars /\ ProgressFairness
=============================================================================
