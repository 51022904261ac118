------------------------------- MODULE HotStore -------------------------------
(***************************************************************************)
(* The hot store (app/db/hot_store.py, app/db/hot_store_service.py): an    *)
(* optional Postgres for the volatile tables (sessions, login attempts,    *)
(* rate events, audit log, SIEM outbox).  portal_settings holds the        *)
(* administrator's wizard (save or provision, test, prepare, migrate or    *)
(* skip, enable, disable); the process keeps a copy of the switch and one  *)
(* engine, refreshed at most once per TTL, from which RoutingSession       *)
(* chooses the database of each statement.                                 *)
(*                                                                         *)
(* The eight hot tables are one table here.  A row is [id, n]: its primary *)
(* key and the write it stands for.                                        *)
(***************************************************************************)
EXTENDS Naturals, FiniteSets

CONSTANTS
    Endpoints,    \* Postgres databases an administrator may name
    NoEndpoint,   \* hot_store_host is empty; no engine
    Admins,       \* threads running an administration route
    HotThreads,   \* threads running any other request
    MaxHotRows,      \* bound on rows written
    MaxHotFaults  \* bound on failing remote operations

ASSUME HotAssumption ==
    /\ NoEndpoint \notin Endpoints
    /\ MaxHotRows \in Nat
    /\ MaxHotFaults \in Nat

VARIABLES
    sqliteRows,  \* the hot table of portal.db
    pgRows,      \* the hot table of each Postgres
    pgSeq,       \* its serial sequence: the next id
    pgTables,    \* the Postgres databases in which the table exists
    wizard,      \* the hot_store_* columns of portal_settings
    hotCache,    \* _hot_enabled_cache
    hotEngine,   \* _hot_engine
    hotSynced,   \* _hot_synced_at is younger than the TTL
    apc,         \* where each administrator's route is
    aloc,        \* what it holds (AdminLocal)
    hpc, hloc,   \* the same for the other requests
    written,     \* rows written so far
    hotFaults,   \* remote failures so far
    promised,    \* history: the rows the last complete migration read
    cutShort,    \* history: endpoints emptied since then
    overrun,     \* history: routes whose copy another migration has emptied
    misaligned   \* history: endpoints whose last alignment of the sequences failed,
                 \* met an insert in flight or was overtaken by another route

hotStores == <<sqliteRows, pgRows, pgSeq, pgTables>>
hotProc == <<hotCache, hotEngine, hotSynced>>
hotHistory == <<promised, cutShort, overrun, misaligned>>
hotVars == <<hotStores, wizard, hotProc, apc, aloc, hpc, hloc, written, hotFaults,
             hotHistory>>

Targets == Endpoints \cup {NoEndpoint}
HotRow == [id: 1..(2 * MaxHotRows + 1), n: 1..MaxHotRows]
Tests == {"none", "ok", "failed"}
Wizard == [host: Targets, test: Tests, schema: BOOLEAN, migrated: BOOLEAN, skipped: BOOLEAN,
           enabled: BOOLEAN]

(* What an unconfigured row reads.                                          *)
NoWizard == [host |-> NoEndpoint, test |-> "none", schema |-> FALSE,
             migrated |-> FALSE, skipped |-> FALSE, enabled |-> FALSE]

NoRow == [id |-> 0, n |-> 0]
HotInsert == [on: BOOLEAN, host: Targets, row: HotRow \cup {NoRow}]
NoInsert == [on |-> FALSE, host |-> NoEndpoint, row |-> NoRow]
AdminLocal == [target: Targets, test: Tests, on: BOOLEAN, skipped: BOOLEAN, prov: BOOLEAN,
               todo: SUBSET HotRow, source: SUBSET HotRow]
Aside == [target |-> NoEndpoint, test |-> "none", on |-> FALSE, skipped |-> FALSE,
          prov |-> FALSE, todo |-> {}, source |-> {}]

HotTypeOK ==
    /\ sqliteRows \subseteq HotRow
    /\ pgRows \in [Endpoints -> SUBSET HotRow]
    /\ pgSeq \in [Endpoints -> 1..(3 * MaxHotRows + 2)]
    /\ pgTables \subseteq Endpoints
    /\ wizard \in Wizard
    /\ hotCache \in BOOLEAN /\ hotEngine \in Targets /\ hotSynced \in BOOLEAN
    /\ apc \in [Admins -> {"idle", "saved", "disposed", "synced", "testing",
                           "preparing", "clearing", "copying", "enabling",
                           "switched"}]
    /\ aloc \in [Admins -> AdminLocal]
    /\ hpc \in [HotThreads -> {"idle", "read", "ready", "flushed"}]
    /\ hloc \in [HotThreads -> HotInsert]
    /\ written \in 0..MaxHotRows
    /\ hotFaults \in 0..MaxHotFaults
    /\ promised \in [Endpoints -> SUBSET HotRow]
    /\ cutShort \subseteq Endpoints /\ overrun \subseteq Admins
    /\ misaligned \subseteq Endpoints

HotInit ==
    /\ sqliteRows = {}
    /\ pgRows = [e \in Endpoints |-> {}]
    /\ pgSeq = [e \in Endpoints |-> 1]
    /\ pgTables = {}
    /\ wizard = NoWizard
    /\ hotCache = FALSE /\ hotEngine = NoEndpoint /\ hotSynced = FALSE
    /\ apc = [a \in Admins |-> "idle"] /\ aloc = [a \in Admins |-> Aside]
    /\ hpc = [t \in HotThreads |-> "idle"]
    /\ hloc = [t \in HotThreads |-> NoInsert]
    /\ written = 0 /\ hotFaults = 0
    /\ promised = [e \in Endpoints |-> {}]
    /\ cutShort = {} /\ overrun = {} /\ misaligned = {}

-----------------------------------------------------------------------------
(* Routing.                                                                 *)

(* RoutingSession.get_bind: Postgres when the cached switch is on and there *)
(* is an engine, else portal.db.                                            *)
Route == IF hotCache THEN hotEngine ELSE NoEndpoint

RowsOf(target) == IF target = NoEndpoint THEN sqliteRows ELSE pgRows[target]

Ids(rows) == {r.id : r \in rows}
Above(rows) == CHOOSE k \in 1..(3 * MaxHotRows + 2) :
                  (\A r \in rows : r.id < k) /\ (k = 1 \/ k - 1 \in Ids(rows))

(* A request that has written to portal.db and not committed holds its      *)
(* write lock; others, the administrator's commit included, wait.           *)
SqliteFree ==
    \A t \in HotThreads : hpc[t] = "flushed" => hloc[t].host # NoEndpoint

(* sync_hot_engine_from_config with what the row said when it was read.     *)
Sync(on, host) == hotCache' = on /\ hotEngine' = host

-----------------------------------------------------------------------------
(* Any other request: refresh_hot_engine_if_stale in get_db, then an insert. *)

(* Mutant: nothing is refreshed while the hot store is thought to be off.    *)
SyncExpiresOn ==
    /\ hotSynced /\ hotCache
    /\ hotSynced' = FALSE
    /\ UNCHANGED <<hotStores, wizard, hotCache, hotEngine, apc, aloc, hpc, hloc,
                   written, hotFaults, hotHistory>>

(* The TTL (5 s) runs out.                                                  *)
SyncExpires ==
    /\ hotSynced
    /\ hotSynced' = FALSE
    /\ UNCHANGED <<hotStores, wizard, hotCache, hotEngine, apc, aloc, hpc, hloc,
                   written, hotFaults, hotHistory>>

RequestFresh(t) ==
    /\ hpc[t] = "idle"
    /\ hotSynced
    /\ hpc' = [hpc EXCEPT ![t] = "ready"]
    /\ UNCHANGED <<hotStores, wizard, hotProc, apc, aloc, hloc, written, hotFaults,
                   hotHistory>>

(* _hot_synced_at is set first; the row is read, then applied.              *)
RequestReads(t) ==
    /\ hpc[t] = "idle"
    /\ ~hotSynced
    /\ hotSynced' = TRUE
    /\ hpc' = [hpc EXCEPT ![t] = "read"]
    /\ hloc' = [hloc EXCEPT ![t].on = wizard.enabled, ![t].host = wizard.host]
    /\ UNCHANGED <<hotStores, wizard, hotCache, hotEngine, apc, aloc, written,
                   hotFaults, hotHistory>>

RequestApplies(t) ==
    /\ hpc[t] = "read"
    /\ Sync(hloc[t].on, hloc[t].host)
    /\ hpc' = [hpc EXCEPT ![t] = "ready"]
    /\ hloc' = [hloc EXCEPT ![t] = NoInsert]
    /\ UNCHANGED <<hotStores, wizard, hotSynced, apc, aloc, written, hotFaults,
                   hotHistory>>

(* The request ends without a hot insert.                                   *)
RequestEnds(t) ==
    /\ hpc[t] = "ready"
    /\ hpc' = [hpc EXCEPT ![t] = "idle"]
    /\ UNCHANGED <<hotStores, wizard, hotProc, apc, aloc, hloc, written, hotFaults,
                   hotHistory>>

(* The flush binds the session's transaction to one database and takes an   *)
(* id: one above the largest of portal.db, the sequence of a Postgres.      *)
RequestFlushes(t) ==
    /\ hpc[t] = "ready"
    /\ written < MaxHotRows
    /\ LET target == Route
           id == IF target = NoEndpoint THEN Above(sqliteRows) ELSE pgSeq[target]
       IN /\ target = NoEndpoint => SqliteFree
          /\ target # NoEndpoint => target \in pgTables /\ id \notin Ids(pgRows[target])
          /\ hloc' = [hloc EXCEPT ![t] = [on |-> @.on, host |-> target,
                                          row |-> [id |-> id, n |-> written + 1]]]
          /\ pgSeq' = IF target = NoEndpoint THEN pgSeq
                      ELSE [pgSeq EXCEPT ![target] = id + 1]
    /\ written' = written + 1
    /\ hpc' = [hpc EXCEPT ![t] = "flushed"]
    /\ UNCHANGED <<sqliteRows, pgRows, pgTables, wizard, hotProc, apc, aloc, hotFaults,
                   hotHistory>>

(* The table is missing or the id is taken: the insert raises, and the      *)
(* sequence has moved on.                                                   *)
RequestInsertFails(t) ==
    /\ hpc[t] = "ready"
    /\ Route # NoEndpoint
    /\ \/ Route \notin pgTables /\ UNCHANGED pgSeq
       \/ /\ Route \in pgTables
          /\ pgSeq[Route] \in Ids(pgRows[Route])
          /\ pgSeq' = [pgSeq EXCEPT ![Route] = @ + 1]
    /\ hpc' = [hpc EXCEPT ![t] = "idle"]
    /\ UNCHANGED <<sqliteRows, pgRows, pgTables, wizard, hotProc, apc, aloc, hloc,
                   written, hotFaults, hotHistory>>

RequestCommits(t) ==
    /\ hpc[t] = "flushed"
    /\ LET target == hloc[t].host IN
         IF target = NoEndpoint
         THEN sqliteRows' = sqliteRows \cup {hloc[t].row} /\ UNCHANGED pgRows
         ELSE /\ pgRows' = [pgRows EXCEPT ![target] = @ \cup {hloc[t].row}]
              /\ UNCHANGED sqliteRows
    /\ hpc' = [hpc EXCEPT ![t] = "idle"]
    /\ hloc' = [hloc EXCEPT ![t] = NoInsert]
    /\ UNCHANGED <<pgSeq, pgTables, wizard, hotProc, apc, aloc, written, hotFaults,
                   hotHistory>>

-----------------------------------------------------------------------------
(* The administrator's wizard.                                              *)

Home(a) == apc' = [apc EXCEPT ![a] = "idle"] /\ aloc' = [aloc EXCEPT ![a] = Aside]
At(a, pc, loc) == apc' = [apc EXCEPT ![a] = pc] /\ aloc' = [aloc EXCEPT ![a] = loc]

(* The store is on and its wizard complete.                                 *)
InService(w) == w.enabled /\ w.schema /\ (w.migrated \/ w.skipped)

(* The endpoint that a commit has put into service.                         *)
NewlyInService == IF InService(wizard') /\ ~InService(wizard) THEN {wizard'.host} ELSE {}

(* save_hot_store_config, directly or for provision_hot_store: the test is  *)
(* forgotten, and all that follows it when the endpoint changes; the switch *)
(* is left alone.                                                           *)
Save(a, e, prov) ==
    /\ apc[a] = "idle"
    /\ SqliteFree
    /\ wizard' = IF e = wizard.host
                 THEN [wizard EXCEPT !.test = "none"]
                 ELSE [NoWizard EXCEPT !.host = e, !.enabled = wizard.enabled]
    /\ At(a, "saved", [Aside EXCEPT !.prov = prov, !.on = wizard.enabled, !.target = e])
    /\ UNCHANGED <<hotStores, hotProc, hpc, hloc, written, hotFaults, hotHistory>>

(* dispose_hot_engine, invalidate_hot_enabled_cache ...                     *)
SaveDisposes(a) ==
    /\ apc[a] = "saved"
    /\ hotEngine' = NoEndpoint
    /\ hotSynced' = FALSE
    /\ At(a, "disposed", aloc[a])
    /\ UNCHANGED <<hotStores, wizard, hotCache, hpc, hloc, written, hotFaults,
                   hotHistory>>

(* ... then sync_hot_engine_from_config with the row as it was committed; a *)
(* provisioning has tested the connection beforehand and says so in a       *)
(* second commit.                                                           *)
SaveSyncs(a) ==
    /\ apc[a] = "disposed"
    /\ Sync(aloc[a].on, aloc[a].target)
    /\ IF aloc[a].prov THEN At(a, "synced", aloc[a]) ELSE Home(a)
    /\ UNCHANGED <<hotStores, wizard, hotSynced, hpc, hloc, written, hotFaults,
                   hotHistory>>

ProvisionMarksTested(a) ==
    /\ apc[a] = "synced"
    /\ SqliteFree
    /\ wizard' = [wizard EXCEPT !.test = "ok"]
    /\ Home(a)
    /\ UNCHANGED <<hotStores, hotProc, hpc, hloc, written, hotFaults, hotHistory>>

(* test_hot_store_config: the answer arrives later.                         *)
TestBegins(a) ==
    /\ apc[a] = "idle"
    /\ wizard.host # NoEndpoint
    /\ At(a, "testing", [Aside EXCEPT !.test = wizard.test])
    /\ UNCHANGED <<hotStores, wizard, hotProc, hpc, hloc, written, hotFaults,
                   hotHistory>>

(* The ORM writes a column whose value differs from the one it loaded.      *)
TestEnds(a) ==
    /\ apc[a] = "testing"
    /\ SqliteFree
    /\ \E outcome \in {"ok", "failed"} :
         /\ outcome = "failed" => hotFaults < MaxHotFaults
         /\ hotFaults' = IF outcome = "failed" THEN hotFaults + 1 ELSE hotFaults
         /\ wizard' = IF outcome = aloc[a].test THEN wizard
                      ELSE [wizard EXCEPT !.test = outcome]
    /\ Home(a)
    /\ UNCHANGED <<hotStores, hotProc, hpc, hloc, written, hotHistory>>

(* prepare_hot_store_schema, refused once it has been done.                 *)
PrepareBegins(a) ==
    /\ apc[a] = "idle"
    /\ wizard.host # NoEndpoint
    /\ ~wizard.schema /\ ~wizard.migrated
    /\ wizard.test = "ok"
    /\ Sync(wizard.enabled, wizard.host)
    /\ pgTables' = pgTables \cup {wizard.host}
    /\ At(a, "preparing", Aside)
    /\ UNCHANGED <<sqliteRows, pgRows, pgSeq, wizard, hotSynced, hpc, hloc, written,
                   hotFaults, hotHistory>>

PrepareCommits(a) ==
    /\ apc[a] = "preparing"
    /\ SqliteFree
    /\ wizard' = [wizard EXCEPT !.schema = TRUE]
    /\ misaligned' = misaligned \cup NewlyInService
    /\ Home(a)
    /\ UNCHANGED <<hotStores, hotProc, hpc, hloc, written, hotFaults, promised, cutShort,
                   overrun>>

(* run_hot_store_migrate.                                                   *)

(* Refused while the hot store is on, and before the schema exists.         *)
MigrateBegins(a) ==
    /\ apc[a] = "idle"
    /\ ~wizard.enabled
    /\ wizard.schema \/ wizard.migrated
    /\ Sync(wizard.enabled, wizard.host)
    /\ At(a, "clearing", [Aside EXCEPT !.target = wizard.host, !.skipped = wizard.skipped])
    /\ UNCHANGED <<hotStores, wizard, hotSynced, hpc, hloc, written, hotFaults,
                   hotHistory>>

(* copy_table_rows: the destination is emptied and committed, then the      *)
(* source is read (through the routing session) as one snapshot ...  The    *)
(* route takes no lock: another one may be copying into this database.      *)
MigrateClears(a) ==
    /\ apc[a] = "clearing"
    /\ pgRows' = [pgRows EXCEPT ![aloc[a].target] = {}]
    /\ cutShort' = cutShort \cup {aloc[a].target}
    /\ overrun' = (overrun \ {a}) \cup
                     {b \in Admins \ {a} : apc[b] = "copying" /\ aloc[b].target = aloc[a].target}
    /\ LET read == IF Route = aloc[a].target THEN {} ELSE RowsOf(Route)
       IN At(a, "copying", [aloc[a] EXCEPT !.source = read, !.todo = read])
    /\ UNCHANGED <<sqliteRows, pgSeq, pgTables, wizard, hotProc, hpc, hloc, written,
                   hotFaults, promised, misaligned>>

Pending(e) == {hloc[t].row.id : t \in {u \in HotThreads :
                                        hpc[u] = "flushed" /\ hloc[u].host = e}}

(* An alignment counts on this endpoint: that of the store which is on, or  *)
(* of a route about to switch it on.                                        *)
Relied(e) == wizard.enabled \/ \E b \in Admins : apc[b] = "enabling" /\ aloc[b].target = e

(* ... and inserted with its ids, a commit per batch.                       *)
MigrateCopies(a, row) ==
    /\ apc[a] = "copying"
    /\ row \in aloc[a].todo
    /\ row.id \notin Ids(pgRows[aloc[a].target]) \cup Pending(aloc[a].target)
    /\ pgRows' = [pgRows EXCEPT ![aloc[a].target] = @ \cup {row}]
    /\ aloc' = [aloc EXCEPT ![a].todo = @ \ {row}]
    /\ misaligned' = IF Relied(aloc[a].target) THEN misaligned \cup {aloc[a].target}
                     ELSE misaligned
    /\ UNCHANGED <<sqliteRows, pgSeq, pgTables, wizard, hotProc, apc, hpc, hloc,
                   written, hotFaults, promised, cutShort, overrun>>

(* A batch collides with a row inserted meanwhile, or Postgres is gone: the *)
(* batches already committed stay, the wizard row is as it was.             *)
MigrateFails(a) ==
    /\ apc[a] = "copying"
    /\ \/ /\ \E row \in aloc[a].todo : row.id \in Ids(pgRows[aloc[a].target])
          /\ UNCHANGED hotFaults
       \/ hotFaults < MaxHotFaults /\ hotFaults' = hotFaults + 1
    /\ Home(a)
    /\ overrun' = overrun \ {a}
    /\ UNCHANGED <<hotStores, wizard, hotProc, hpc, hloc, written, promised, cutShort,
                   misaligned>>

(* Mutant: the sequence is set to the largest id itself, 0 for none.        *)
AlignToLargest(e) == pgSeq' = [pgSeq EXCEPT ![e] = Above(pgRows[e]) - 1]

(* reset_hot_table_sequences: one above the largest committed id.           *)
Align(e) == pgSeq' = [pgSeq EXCEPT ![e] = Above(pgRows[e])]

(* The endpoints that are misaligned after it: an insert in flight is not   *)
(* among the rows it looks at.                                              *)
AfterAlign(e) == IF Pending(e) = {} THEN misaligned \ {e} ELSE misaligned \cup {e}

(* hot_store_migrate_skipped_at is cleared if it was set when it was read.  *)
Migrated(a) == [wizard EXCEPT !.migrated = TRUE, !.skipped = @ /\ ~aloc[a].skipped]

(* Mutant: the done migration is recorded before the last batches.          *)
MigrateEndsEarly(a) ==
    /\ apc[a] = "copying"
    /\ SqliteFree
    /\ Align(aloc[a].target)
    /\ wizard' = Migrated(a)
    /\ misaligned' = AfterAlign(aloc[a].target) \cup (NewlyInService \ {aloc[a].target})
    /\ IF a \in overrun THEN UNCHANGED <<promised, cutShort>>
       ELSE /\ promised' = [promised EXCEPT ![aloc[a].target] = aloc[a].source]
            /\ cutShort' = cutShort \ {aloc[a].target}
    /\ overrun' = overrun \ {a}
    /\ Home(a)
    /\ UNCHANGED <<sqliteRows, pgRows, pgTables, hotProc, hpc, hloc, written,
                   hotFaults>>

MigrateEnds(a) ==
    /\ apc[a] = "copying"
    /\ aloc[a].todo = {}
    /\ SqliteFree
    /\ Align(aloc[a].target)
    /\ wizard' = Migrated(a)
    /\ misaligned' = AfterAlign(aloc[a].target) \cup (NewlyInService \ {aloc[a].target})
    /\ IF a \in overrun THEN UNCHANGED <<promised, cutShort>>
       ELSE /\ promised' = [promised EXCEPT ![aloc[a].target] = aloc[a].source]
            /\ cutShort' = cutShort \ {aloc[a].target}
    /\ overrun' = overrun \ {a}
    /\ Home(a)
    /\ UNCHANGED <<sqliteRows, pgRows, pgTables, hotProc, hpc, hloc, written,
                   hotFaults>>

(* skip_hot_store_migrate.                                                  *)
Skip(a) ==
    /\ apc[a] = "idle"
    /\ wizard.schema \/ wizard.migrated
    /\ ~wizard.enabled
    /\ SqliteFree
    /\ wizard' = [wizard EXCEPT !.skipped = TRUE]
    /\ UNCHANGED <<hotStores, hotProc, apc, aloc, hpc, hloc, written, hotFaults,
                   hotHistory>>

(* Mutant: the sequences are not aligned before the switch.                 *)
EnableBeginsAsIs(a) ==
    /\ apc[a] = "idle"
    /\ wizard.host # NoEndpoint
    /\ wizard.schema \/ wizard.migrated
    /\ wizard.migrated \/ wizard.skipped
    /\ SqliteFree
    /\ wizard' = [wizard EXCEPT !.test = "ok"]
    /\ Sync(wizard.enabled, wizard.host)
    /\ At(a, "enabling", [Aside EXCEPT !.target = wizard.host, !.on = wizard.enabled])
    /\ UNCHANGED <<hotStores, hotSynced, hpc, hloc, written, hotFaults, hotHistory>>

(* _prepare_hot_store_for_enable: the wizard is complete, the connection    *)
(* answers, the schema and the sequences are brought up to date.  A failing *)
(* alignment is logged and ignored.                                         *)
EnableBegins(a) ==
    /\ apc[a] = "idle"
    /\ wizard.host # NoEndpoint
    /\ wizard.schema \/ wizard.migrated
    /\ wizard.migrated \/ wizard.skipped
    /\ SqliteFree
    /\ wizard' = [wizard EXCEPT !.test = "ok"]
    /\ Sync(wizard.enabled, wizard.host)
    /\ \/ /\ Align(wizard.host)
          /\ misaligned' = AfterAlign(wizard.host)
          /\ UNCHANGED hotFaults
       \/ /\ hotFaults < MaxHotFaults /\ hotFaults' = hotFaults + 1
          /\ misaligned' = misaligned \cup {wizard.host}
          /\ UNCHANGED pgSeq
    /\ At(a, "enabling", [Aside EXCEPT !.target = wizard.host, !.on = wizard.enabled])
    /\ UNCHANGED <<sqliteRows, pgRows, pgTables, hotSynced, hpc, hloc, written,
                   promised, cutShort, overrun>>

(* set_hot_store_enabled: the commit, which writes a value that differs     *)
(* from the one loaded ...                                                  *)
SwitchCommits(a, on) ==
    /\ apc[a] = IF on THEN "enabling" ELSE "idle"
    /\ SqliteFree
    /\ wizard' = [wizard EXCEPT !.enabled = on /\ (@ \/ ~aloc[a].on)]
    /\ misaligned' = misaligned \cup (NewlyInService \ {aloc[a].target})
    /\ At(a, "switched", [Aside EXCEPT !.on = wizard'.enabled,
                                       !.target = IF on THEN wizard.host ELSE NoEndpoint])
    /\ UNCHANGED <<hotStores, hotProc, hpc, hloc, written, hotFaults, promised, cutShort,
                   overrun>>

(* ... and then the process's copy, from the row as it was committed (the   *)
(* engine is only synchronised when switching on).                          *)
SwitchApplies(a) ==
    /\ apc[a] = "switched"
    /\ hotSynced' = FALSE
    /\ hotCache' = aloc[a].on
    /\ hotEngine' = IF aloc[a].target # NoEndpoint THEN aloc[a].target ELSE hotEngine
    /\ Home(a)
    /\ UNCHANGED <<hotStores, wizard, hpc, hloc, written, hotFaults, hotHistory>>

-----------------------------------------------------------------------------
RequestStep(t) ==
    \/ RequestFresh(t) \/ RequestReads(t) \/ RequestApplies(t) \/ RequestEnds(t)
    \/ RequestFlushes(t) \/ RequestInsertFails(t) \/ RequestCommits(t)

AdminCall(a) ==
    \/ \E e \in Endpoints, prov \in BOOLEAN : Save(a, e, prov)
    \/ TestBegins(a) \/ PrepareBegins(a) \/ MigrateBegins(a) \/ Skip(a)
    \/ EnableBegins(a) \/ SwitchCommits(a, FALSE)

AdminContinues(a) ==
    \/ SaveDisposes(a) \/ SaveSyncs(a) \/ ProvisionMarksTested(a) \/ TestEnds(a)
    \/ PrepareCommits(a) \/ MigrateClears(a) \/ MigrateFails(a) \/ MigrateEnds(a)
    \/ \E row \in aloc[a].todo : MigrateCopies(a, row)
    \/ SwitchCommits(a, TRUE) \/ SwitchApplies(a)

HotNext ==
    \/ SyncExpires
    \/ \E t \in HotThreads : RequestStep(t)
    \/ \E a \in Admins : AdminCall(a) \/ AdminContinues(a)

(* Requests keep coming (nginx asks for every page) and end, a route of the *)
(* administrator that has begun ends, and time passes.                      *)
HotFairness ==
    /\ WF_hotVars(SyncExpires)
    /\ WF_hotVars(\E t \in HotThreads : RequestReads(t))
    /\ \A t \in HotThreads :
         WF_hotVars(RequestApplies(t) \/ RequestEnds(t) \/ RequestCommits(t))
    /\ \A a \in Admins : WF_hotVars(AdminContinues(a))

HotSpec == HotInit /\ [][HotNext]_hotVars /\ HotFairness

-----------------------------------------------------------------------------
(* Properties.                                                              *)

(* reset_hot_table_sequences: "the next ORM insert collides" otherwise.     *)
(* While a completed wizard is switched on, the next id of its Postgres is  *)
(* free, whatever was migrated, cut, skipped and re-enabled before, by one  *)
(* administrator or several.  Not so where the last alignment failed, ran   *)
(* next to an insert, or was overtaken: a migration that began before the   *)
(* switch copies rows after the alignment, or another endpoint was saved    *)
(* between the alignment and the switch.                                    *)
ServedAligned ==
    InService(wizard) /\ wizard.host \notin misaligned
        => \A r \in pgRows[wizard.host] : r.id < pgSeq[wizard.host]

(* copy_table_rows: "full replace semantics".  Once a migration has ended   *)
(* that no other one emptied on its way, the Postgres holds every row that  *)
(* it read, until the next one empties it: also when several administrators *)
(* migrate at once.                                                         *)
MigratedRowsStay ==
    \A e \in Endpoints : e \notin cutShort => promised[e] \subseteq pgRows[e]

(* _hot_enabled_cache is a copy that a slow request may overwrite with what *)
(* it read before the switch: it is right again before long, or the switch  *)
(* has moved.                                                               *)
SwitchTakesEffect ==
    /\ wizard.enabled ~> (hotCache \/ ~wizard.enabled)
    /\ ~wizard.enabled ~> (~hotCache \/ wizard.enabled)

(* _prepare_hot_store_for_enable: "Migrez les données ou passez             *)
(* explicitement l'étape de migration".  What a migration has brought over  *)
(* is there when the store is switched on, unless the step was skipped.     *)
EnabledOnlyMigrated ==
    [][(~wizard.enabled /\ wizard'.enabled /\ ~wizard.skipped)
          => promised[wizard.host] \subseteq pgRows[wizard.host]]_hotVars

(* test_status_page_never_realigns_sequences: "setval on a live table can   *)
(* move a sequence backwards under concurrent inserts".  No step moves the  *)
(* sequence of the Postgres that is switched on to an id already handed     *)
(* out.                                                                     *)
LiveSequenceForward ==
    [][wizard.enabled => pgSeq'[wizard.host] >= pgSeq[wizard.host]]_hotVars
=============================================================================
