----------------------------- MODULE SiemOutbox ------------------------------
(***************************************************************************)
(* Audit entries on their way to the SIEM: log_action (app/audit), the     *)
(* bounded siem_outbox table and its drain (app/siem/outbox.py), and the   *)
(* scheduler job that runs the drain (app/siem/worker.py).                 *)
(*                                                                         *)
(* Any request thread may enqueue: count the rows, drop the oldest while   *)
(* the table is full, insert; each database statement is a step of its     *)
(* own.  One drain runs at a time (max_instances=1).  It reads a list of   *)
(* rows, which enqueuers may drop under its feet: rows it has loaded are   *)
(* refreshed from the database after each commit, and a row that is gone   *)
(* by then raises ObjectDeletedError and ends the drain.                   *)
(*                                                                         *)
(* Time is abstracted to what it decides: whether a row is due and whether *)
(* it is past retry_max_age_minutes.                                       *)
(***************************************************************************)
EXTENDS Naturals, FiniteSets

CONSTANTS
    Events,      \* audit entries
    Enqueuers,   \* threads that call log_action
    Capacity,    \* retry_max_queue_size
    Batch,       \* the drain's `limit`
    MaxFaults,   \* bound on crashes and failed commits
    None         \* no event

ASSUME OutboxAssumption ==
    /\ IsFiniteSet(Events) /\ IsFiniteSet(Enqueuers)
    /\ Capacity \in Nat \ {0}
    /\ Batch \in Nat \ {0}
    /\ MaxFaults \in Nat
    /\ None \notin Events

VARIABLES
    enabled,                 \* cfg.enabled and cfg.active
    audited,                 \* events committed to audit_logs
    outbox,                  \* events with a row in siem_outbox
    stamp, inserted,         \* insertion order of the rows (created_at, id)
    due, stale,              \* next_attempt_at <= now; created_at < cutoff
    epc, eev, evictim,       \* try_enqueue_audit, per thread
    dpc, dlist, dcur, dexp,  \* process_outbox_once
    sent,                    \* deliveries made, per event
    dropAudit,               \* events with a siem.forward.dropped entry
    wanted, lost, faults     \* history: events accepted for forwarding; events in
                             \* hand when a fault hit; number of faults

queueVars == <<audited, outbox, stamp, inserted, due, stale>>
enqVars == <<epc, eev, evictim>>
drainVars == <<dpc, dlist, dcur, dexp>>
siemVars == <<sent, dropAudit>>
history == <<wanted, lost, faults>>
vars == <<enabled, queueVars, enqVars, drainVars, siemVars, history>>

TypeOK ==
    /\ enabled \in BOOLEAN
    /\ audited \subseteq Events /\ outbox \subseteq audited
    /\ stamp \in [Events -> Nat] /\ inserted \in Nat
    /\ due \subseteq outbox /\ stale \subseteq outbox
    /\ epc \in [Enqueuers -> {"idle", "audited", "check", "full", "drop",
                              "report", "room"}]
    /\ eev \in [Enqueuers -> Events \cup {None}]
    /\ evictim \in [Enqueuers -> Events \cup {None}]
    /\ dpc \in {"idle", "purge", "purged", "select", "batch", "sending", "sent"}
    /\ dlist \subseteq audited /\ dcur \in Events \cup {None} /\ dexp \in BOOLEAN
    /\ sent \in [Events -> Nat] /\ dropAudit \subseteq audited
    /\ wanted \subseteq audited /\ lost \subseteq wanted /\ faults \in 0..MaxFaults

Init ==
    /\ enabled \in BOOLEAN
    /\ audited = {} /\ outbox = {}
    /\ stamp = [v \in Events |-> 0] /\ inserted = 0
    /\ due = {} /\ stale = {}
    /\ epc = [e \in Enqueuers |-> "idle"]
    /\ eev = [e \in Enqueuers |-> None] /\ evictim = [e \in Enqueuers |-> None]
    /\ dpc = "idle" /\ dlist = {} /\ dcur = None /\ dexp = FALSE
    /\ sent = [v \in Events |-> 0] /\ dropAudit = {}
    /\ wanted = {} /\ lost = {} /\ faults = 0

-----------------------------------------------------------------------------
(* log_action and try_enqueue_audit.                                        *)

(* The audit entry is committed first.                                      *)
LogAction(e, v) ==
    /\ epc[e] = "idle" /\ v \notin audited
    /\ audited' = audited \cup {v}
    /\ epc' = [epc EXCEPT ![e] = "audited"]
    /\ eev' = [eev EXCEPT ![e] = v]
    /\ UNCHANGED <<enabled, outbox, stamp, inserted, due, stale, evictim, drainVars,
                   siemVars, history>>

EndEnqueue(e) ==
    /\ epc' = [epc EXCEPT ![e] = "idle"]
    /\ eev' = [eev EXCEPT ![e] = None]
    /\ evictim' = [evictim EXCEPT ![e] = None]

(* Forwarding is off, or the filter rejects the event.                      *)
EnqueueSkip(e) ==
    /\ epc[e] = "audited"
    /\ EndEnqueue(e)
    /\ UNCHANGED <<enabled, queueVars, drainVars, siemVars, history>>

EnqueueAccept(e) ==
    /\ epc[e] = "audited" /\ enabled
    /\ wanted' = wanted \cup {eev[e]}
    /\ epc' = [epc EXCEPT ![e] = "check"]
    /\ UNCHANGED <<enabled, queueVars, eev, evictim, drainVars, siemVars, lost, faults>>

(* Mutant: the capacity check is off by one.                                *)
IsFullOffByOne == Cardinality(outbox) > Capacity

(* queue_size(session) >= cfg.retry_max_queue_size                          *)
IsFull == Cardinality(outbox) >= Capacity

CheckCapacity(e) ==
    /\ epc[e] = "check"
    /\ epc' = [epc EXCEPT ![e] = IF IsFull THEN "full" ELSE "room"]
    /\ UNCHANGED <<enabled, queueVars, eev, evictim, drainVars, siemVars, history>>

Oldest(v) == v \in outbox /\ \A u \in outbox : stamp[v] <= stamp[u]

(* The oldest row is looked up; by now there may be none left.              *)
PickOldest(e) ==
    /\ epc[e] = "full"
    /\ \/ /\ \E v \in outbox : Oldest(v) /\ evictim' = [evictim EXCEPT ![e] = v]
          /\ epc' = [epc EXCEPT ![e] = "drop"]
       \/ /\ outbox = {}
          /\ epc' = [epc EXCEPT ![e] = "room"]
          /\ UNCHANGED evictim
    /\ UNCHANGED <<enabled, queueVars, eev, drainVars, siemVars, history>>

(* Mutant: the deleted row keeps its retry state.                           *)
RemoveRowOnly(v) == outbox' = outbox \ {v} /\ UNCHANGED <<due, stale>>

RemoveRow(v) ==
    /\ outbox' = outbox \ {v}
    /\ due' = due \ {v}
    /\ stale' = stale \ {v}

(* _drop_entry: the row is deleted and committed (a DELETE that finds no    *)
(* row only warns) ...                                                      *)
DropDelete(e) ==
    /\ epc[e] = "drop"
    /\ RemoveRow(evictim[e])
    /\ epc' = [epc EXCEPT ![e] = "report"]
    /\ UNCHANGED <<enabled, audited, stamp, inserted, eev, evictim, drainVars,
                   siemVars, history>>

(* Mutant: the drop is not audited.                                         *)
DropSilently(e) ==
    /\ epc[e] = "report"
    /\ evictim' = [evictim EXCEPT ![e] = None]
    /\ epc' = [epc EXCEPT ![e] = "check"]
    /\ UNCHANGED <<enabled, queueVars, eev, drainVars, siemVars, history>>

(* ... then siem.forward.dropped is audited, and the loop checks again.     *)
DropReport(e) ==
    /\ epc[e] = "report"
    /\ dropAudit' = dropAudit \cup {evictim[e]}
    /\ evictim' = [evictim EXCEPT ![e] = None]
    /\ epc' = [epc EXCEPT ![e] = "check"]
    /\ UNCHANGED <<enabled, queueVars, eev, drainVars, sent, history>>

Insert(e) ==
    /\ epc[e] = "room"
    /\ outbox' = outbox \cup {eev[e]}
    /\ due' = due \cup {eev[e]}
    /\ inserted' = inserted + 1
    /\ stamp' = [stamp EXCEPT ![eev[e]] = inserted + 1]
    /\ EndEnqueue(e)
    /\ UNCHANGED <<enabled, audited, stale, drainVars, siemVars, history>>

(* What a thread is holding: its own event until it is inserted, and a row  *)
(* it has deleted and not yet reported.                                     *)
EnqueuerHolds(e) ==
    (IF epc[e] \in {"check", "full", "drop", "report", "room"} THEN {eev[e]} ELSE {})
    \cup (IF epc[e] = "report" THEN {evictim[e]} ELSE {})

(* log_action swallows the failure of its own commit: the loop goes on and  *)
(* the drop has left no trace.                                              *)
DropReportFails(e) ==
    /\ epc[e] = "report" /\ faults < MaxFaults
    /\ faults' = faults + 1
    /\ lost' = lost \cup {evictim[e]}
    /\ evictim' = [evictim EXCEPT ![e] = None]
    /\ epc' = [epc EXCEPT ![e] = "check"]
    /\ UNCHANGED <<enabled, queueVars, eev, drainVars, siemVars, wanted>>

(* A database error in the loop or the insert: logged, rolled back, and the *)
(* event is not forwarded.                                                  *)
EnqueueFails(e) ==
    /\ epc[e] \in {"check", "full", "drop", "room"} /\ faults < MaxFaults
    /\ faults' = faults + 1
    /\ lost' = lost \cup EnqueuerHolds(e)
    /\ EndEnqueue(e)
    /\ UNCHANGED <<enabled, queueVars, drainVars, siemVars, wanted>>

-----------------------------------------------------------------------------
(* process_outbox_once.                                                     *)

(* Mutant: purge_stale is reached only when forwarding is enabled.          *)
DrainBeginEnabled ==
    /\ dpc = "idle" /\ enabled
    /\ dpc' = "purge" /\ dlist' = outbox /\ dexp' = FALSE
    /\ UNCHANGED <<enabled, queueVars, enqVars, dcur, siemVars, history>>

(* purge_stale reads its candidates, whether forwarding is enabled or not.  *)
DrainBegin ==
    /\ dpc = "idle"
    /\ dpc' = "purge" /\ dlist' = outbox /\ dexp' = FALSE
    /\ UNCHANGED <<enabled, queueVars, enqVars, dcur, siemVars, history>>

(* A row this session loaded and must refresh is gone: the drain raises.    *)
Gone(v) == dexp /\ v \notin outbox

EndDrain == dpc' = "idle" /\ dlist' = {} /\ dcur' = None /\ dexp' = FALSE

DrainRaises ==
    /\ dpc \in {"purge", "batch"}
    /\ \E v \in dlist : Gone(v)
    /\ EndDrain
    /\ UNCHANGED <<enabled, queueVars, enqVars, siemVars, history>>

PurgeDelete(v) ==
    /\ dpc = "purge" /\ v \in dlist \cap stale /\ ~Gone(v)
    /\ RemoveRow(v)
    /\ dpc' = "purged" /\ dcur' = v /\ dexp' = TRUE
    /\ UNCHANGED <<enabled, audited, stamp, inserted, enqVars, dlist, siemVars, history>>

PurgeReport ==
    /\ dpc = "purged"
    /\ dropAudit' = dropAudit \cup {dcur}
    /\ dlist' = dlist \ {dcur}
    /\ dpc' = "purge" /\ dcur' = None
    /\ UNCHANGED <<enabled, queueVars, enqVars, dexp, sent, history>>

PurgeReportFails ==
    /\ dpc = "purged" /\ faults < MaxFaults
    /\ faults' = faults + 1
    /\ lost' = lost \cup {dcur}
    /\ dlist' = dlist \ {dcur}
    /\ dpc' = "purge" /\ dcur' = None
    /\ UNCHANGED <<enabled, queueVars, enqVars, dexp, siemVars, wanted>>

(* The candidates that are left are younger than the cutoff.                *)
PurgeDone ==
    /\ dpc = "purge" /\ dlist \cap stale = {} /\ \A v \in dlist : ~Gone(v)
    /\ dpc' = IF enabled THEN "select" ELSE "idle"
    /\ dlist' = {} /\ dexp' = FALSE
    /\ UNCHANGED <<enabled, queueVars, enqVars, dcur, siemVars, history>>

(* At most Batch due rows.                                                  *)
SelectDue ==
    /\ dpc = "select"
    /\ \E s \in SUBSET due :
         /\ Cardinality(s) = IF Cardinality(due) < Batch THEN Cardinality(due) ELSE Batch
         /\ dlist' = s
    /\ dpc' = "batch" /\ dexp' = FALSE
    /\ UNCHANGED <<enabled, queueVars, enqVars, dcur, siemVars, history>>

ItemStart(v) ==
    /\ dpc = "batch" /\ v \in dlist /\ ~Gone(v)
    /\ dpc' = "sending" /\ dcur' = v
    /\ UNCHANGED <<enabled, queueVars, enqVars, dlist, dexp, siemVars, history>>

ItemDone == dlist' = dlist \ {dcur} /\ dpc' = "batch" /\ dcur' = None /\ dexp' = TRUE

(* deliver_entry returns: the SIEM has the event ...                        *)
Deliver ==
    /\ dpc = "sending"
    /\ sent' = [sent EXCEPT ![dcur] = @ + 1]
    /\ dpc' = "sent"
    /\ UNCHANGED <<enabled, queueVars, enqVars, dlist, dcur, dexp, dropAudit, history>>

(* Mutant: the delivered row is not deleted.                                *)
KeepSent ==
    /\ dpc = "sent"
    /\ ItemDone
    /\ UNCHANGED <<enabled, queueVars, enqVars, siemVars, history>>

(* ... and the row is deleted.                                              *)
DeleteSent ==
    /\ dpc = "sent"
    /\ RemoveRow(dcur)
    /\ ItemDone
    /\ UNCHANGED <<enabled, audited, stamp, inserted, enqVars, siemVars, history>>

(* Mutant: a failed delivery deletes the row.                               *)
ForgetUndelivered ==
    /\ dpc = "sending"
    /\ RemoveRow(dcur)
    /\ IF dcur \in outbox THEN ItemDone ELSE EndDrain
    /\ UNCHANGED <<enabled, audited, stamp, inserted, enqVars, siemVars, history>>

(* Delivery fails: the row is put off (StaleDataError if it was dropped).   *)
DeliverFails ==
    /\ dpc = "sending"
    /\ due' = due \ {dcur}
    /\ IF dcur \in outbox THEN ItemDone ELSE EndDrain
    /\ UNCHANGED <<enabled, audited, outbox, stamp, inserted, stale, enqVars,
                   siemVars, history>>

(* A database error anywhere but in the audit of a drop leaves the session  *)
(* unusable (PendingRollbackError): the drain raises, its rows stay as they *)
(* were, and a delivered one is due at once.                                *)
DrainFails ==
    /\ dpc \in {"purge", "select", "batch", "sending", "sent"} /\ faults < MaxFaults
    /\ faults' = faults + 1
    /\ EndDrain
    /\ UNCHANGED <<enabled, queueVars, enqVars, siemVars, wanted, lost>>

BatchDone ==
    /\ dpc = "batch" /\ dlist = {}
    /\ EndDrain
    /\ UNCHANGED <<enabled, queueVars, enqVars, siemVars, history>>

-----------------------------------------------------------------------------
(* Environment.                                                             *)

BackoffElapses(v) ==
    /\ v \in outbox \ due
    /\ due' = due \cup {v}
    /\ UNCHANGED <<enabled, audited, outbox, stamp, inserted, stale, enqVars,
                   drainVars, siemVars, history>>

(* `stale` is relative to the cutoff that the last purge has computed.      *)
GrowsStale(v) ==
    /\ dpc \notin {"purge", "purged"} /\ v \in outbox \ stale
    /\ stale' = stale \cup {v}
    /\ UNCHANGED <<enabled, audited, outbox, stamp, inserted, due, enqVars, drainVars,
                   siemVars, history>>

ToggleForwarding ==
    /\ enabled' = ~enabled
    /\ UNCHANGED <<queueVars, enqVars, drainVars, siemVars, history>>

(* What the drain is holding: a purged row it has not reported yet.         *)
DrainHolds == IF dpc = "purged" THEN {dcur} ELSE {}

Held == DrainHolds \cup UNION {EnqueuerHolds(e) : e \in Enqueuers}

Crash ==
    /\ faults < MaxFaults
    /\ faults' = faults + 1
    /\ lost' = lost \cup Held
    /\ epc' = [e \in Enqueuers |-> "idle"]
    /\ eev' = [e \in Enqueuers |-> None] /\ evictim' = [e \in Enqueuers |-> None]
    /\ EndDrain
    /\ UNCHANGED <<enabled, queueVars, siemVars, wanted>>

Enqueue(e) ==
    \/ \E v \in Events : LogAction(e, v)
    \/ EnqueueSkip(e) \/ EnqueueAccept(e) \/ CheckCapacity(e) \/ PickOldest(e)
    \/ DropDelete(e) \/ DropReport(e) \/ DropReportFails(e)
    \/ Insert(e) \/ EnqueueFails(e)

DrainStep ==
    \/ DrainBegin \/ DrainRaises \/ PurgeReport \/ PurgeReportFails
    \/ PurgeDone \/ SelectDue
    \/ Deliver \/ DeliverFails \/ DeleteSent \/ DrainFails \/ BatchDone
    \/ \E v \in Events : PurgeDelete(v) \/ ItemStart(v)

Next ==
    \/ \E e \in Enqueuers : Enqueue(e)
    \/ DrainStep
    \/ \E v \in Events : BackoffElapses(v) \/ GrowsStale(v)
    \/ ToggleForwarding \/ Crash

Spec == Init /\ [][Next]_vars

(* The scheduler runs the drain every 5 s and every delivery ends (socket   *)
(* and HTTP timeouts); rows age, and sooner or later they have when a purge *)
(* begins (SF: a purge in progress suspends GrowsStale).  Nothing is        *)
(* assumed of the SIEM, of the enabled switch or of the enqueuers.          *)
Fairness ==
    /\ WF_vars(DrainStep)
    /\ \A v \in Events : SF_vars(GrowsStale(v))

FairSpec == Spec /\ Fairness

-----------------------------------------------------------------------------
(* Properties.                                                              *)

(* The queue stays bounded: each thread may overtake the check of the       *)
(* others, so the excess over retry_max_queue_size is at most one row per   *)
(* other thread.                                                            *)
QueueBound == Cardinality(outbox) + 1 <= Capacity + Cardinality(Enqueuers)

(* No event disappears silently: an event accepted for forwarding is        *)
(* delivered, queued, reported as dropped, or in the hands of a thread;     *)
(* only a crash or a failed commit loses one, and only from those hands.    *)
Accounted ==
    wanted \subseteq outbox \cup {v \in Events : sent[v] > 0} \cup dropAudit
                     \cup Held \cup lost

(* Without a crash or a failed commit no event is delivered twice.          *)
NoDuplicate == faults = 0 => \A v \in Events : sent[v] <= 1

(* Every queued row leaves the queue, even if the SIEM never answers, or    *)
(* forwarding is switched off with rows still queued.                       *)
QueueDrains == \A v \in Events : v \in outbox ~> v \notin outbox

(* The outbox is a bounded queue that delivers at least once or reports     *)
(* what it drops: every step of the threads and of the drain is a step of   *)
(* ForwardQueue, or none.                                                   *)
Promised == INSTANCE ForwardQueue WITH
    Limit <- Capacity + Cardinality(Enqueuers) - 1,
    accepted <- wanted,
    entered <- {v \in Events : stamp[v] > 0},
    queue <- outbox,
    hands <- Held,
    delivered <- {v \in Events : sent[v] > 0},
    reported <- dropAudit

ImplementsForwardQueue == Promised!Spec
=============================================================================
