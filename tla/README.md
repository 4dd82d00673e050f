# BIAR in TLA+

A verification development of BIAR (Business Intelligence, Analytics and
Reporting): the data lakehouse of the Tazama ecosystem.  Paths are relative to
the repository.

## 1. Inventory

| Part | State | Operations | Talks to |
| --- | --- | --- | --- |
| **Automation orchestrator** `automation-orchestrator/automation_orchestrator_api.py` | in memory: `job_queue` (with `unfinished_tasks`), `VIEW_BUILD_IN_PROGRESS`, `COMPLETED_TABLES`, `STATE_COND`, the worker threads | `POST /checksubmit`, `GET /health`, the worker loop, `maybe_run_views_after_full_pipeline` | NiFi calls it; it calls ETL routing and the views orchestrator |
| **ETL routing** `lakehouse_automation_pipeline.py` | none | resolve the table name from table, object key or path; dispatch to an ETL class, or to `DynamicETL` | the table ETLs |
| **Table ETLs** `Table_ETLs/*ETL.py` | Hudi tables bronze, silver and gold; for alerts a DQ table and a quarantine | per table: read bronze, clean, upsert the next layer | Ozone, the warehouse |
| **Views** `Table_ETLs/views_orchestrator.py`, `*view*.py`, `alert_navigator.py` | Hudi tables under `views/` | build a view if its upstream tables exist | the layers |
| **Query API** `datalakehouse-api/lakehouse_query_api.py` | Spark session, pool of four threads, temporary views, schema cache | `/query`, `/execute_sql`, `/invalidate_schema_cache`, `/health` | reads gold tables and views |
| **Unstructured pipeline** `unstructured-pipeline/src` | a `running` flag; `processingStatus` of the documents in CouchDB | cron tick, `run`, `processDocument`, `updateStatus` | CouchDB (shared with case management), Tika, Solr, NiFi |
| **NiFi provisioning** `nifi/init.sh` | objects in NiFi | create the parameter context, upload and instantiate the template | NiFi |
| **Rule Discovery** `JupyterHub/notebooks/Rule_Discovery.ipynb` | DataFrames as loaded, the choices in its widgets, what is displayed | load the tables, select an alert, choose a rule, run its query | reads gold and bronze tables |
| NiFi flow `nifi/tazama.xml`, the dashboards, `docker-compose.yaml` | generated XML, reports, configuration | | |

Interaction.  NiFi drops raw files into Ozone and posts `/checksubmit`; the
orchestrator queues the job, a worker runs the ETL of its table, and once the
queue has drained a worker rebuilds the views; the query API and the notebooks
read what is there.  The unstructured pipeline is a separate process that meets
the rest only in NiFi, and case management (the CMS) only in the CouchDB
documents both write.

What is hard, and what makes each part correct:

* *Orchestrator*: several threads, a lock for the flag and another inside the
  queue.  No ETL job may rewrite a table while views are built from it; one
  build at a time; no worker left asleep; no table forgotten when
  `COMPLETED_TABLES` is cleared; `unfinished_tasks` right on every path.
* *Unstructured pipeline*: three external services that fail or lose an answer,
  documents edited by somebody else between a GET and a PUT, a promise nobody
  awaits, overlapping ticks, death in the middle of a document.  COMPLETED must
  mean what it says and stay; no CMS write lost; no delivery repeated without a
  cause; every healthy document completed in the end.
* *Table ETLs*: upserts whose order of arrival decides; rows that share a record
  key; a failure between two layers.
* *Routing*: a table has many spellings; two kinds of files must not meet in one.
* *Views*: a view fails or its upstream is missing and the others go on; a view
  reads another one; `_safe_load` takes any error for a missing table.
* *Query API*: requests time out while their threads run on; the temporary views
  of one tenant must be the ones his query sees, in a session that may be lost.
* *Rule Discovery*: a rule is replayed long after the alert, over tables that have
  moved on, by handlers that share what is displayed.
* *Provisioning*: restarted from the top after a failure half-way, beside operators
  who write the same objects.

`PROJECT.json` lists the hazards line by line, with the properties for each.

## 2. Modules

| Module | What it is |
| --- | --- |
| `EtlViewGate` | abstract: what the orchestrator promises about jobs, builds and stale tables |
| `Orchestrator` | the orchestrator, thread by thread; implements `EtlViewGate` |
| `HudiTable` | the upsert of `BaseETL.write_hudi`, as operators on sets of rows |
| `EtlCatalog` | the 22 ETL classes as data: the writes of each `run()` |
| `EtlLayers` | jobs of one class over its layers; extends the two above |
| `EtlRouting` | from a request to a class and its directories; extends `EtlCatalog` |
| `ViewCatalog` | the view builders as data: gates, loads with their columns, outputs |
| `Lakehouse` | a delivery, its routing, its writes and the view build; extends the two above |
| `QueryApi` | event loop, pool of threads, `get_spark`, the temporary views |
| `DocPipeline` | the unstructured pipeline with CouchDB, Solr, NiFi and the CMS around it |
| `RuleDiscovery` | the rule queries and the widgets of the notebook |
| `NifiProvisioning` | `init.sh`, its restarts and the operators of NiFi |
| `MC*` | TLC instances: the data that a `.cfg` cannot write down |
| `*Proofs` | theorems about the module of that name (`DocPipelineStoreProofs` builds on `DocPipelineProofs`) |

Operators called "Variant" in a comment (`PassGateUntested`, `WriteBlind`, ...)
are not part of a specification.  Each is a plausible mistake in the definition
that follows it; put in that definition's place, TLC finds the property it is
meant for violated.

### Orchestrator

A job is the table its request is routed to; `NoTable` is the request whose name
resolves to the empty string, which `DynamicETL` runs but which never enters
`COMPLETED_TABLES`.  `pc[w]` is the place of a worker in its loop:

| `pc` | Code (`automation_orchestrator_api.py`) | Actions |
| --- | --- | --- |
| `get` | 266 `job_queue.get()` | `Take` |
| `gate`, `wait` | 270-272 `while VIEW_BUILD_IN_PROGRESS: wait()` | `WaitAtGate`, `PassGate` |
| `run` | 274-282 `run_job` | `EtlSucceeds`, `EtlFails` |
| `finish` | 284 `task_done()`, 286-294 | `TaskDone` |
| `add` | 295-296 `COMPLETED_TABLES.add` | `AddCompleted` |
| `check` | 206-213 | `SkipViews`, `StartViews` |
| `build` | 218 `ViewsOrchestrator(...).run()` | `BuildView`, `ViewFails`, `ViewsDone` |
| `release` | 222-226 the `finally` clause | `Release` |

`Submit` is `/checksubmit` and `Crash` a restart of the container, which loses
everything in memory.  Abstractions:

* The tests of `maybe_run_views...` and the assignment of the flag are one step.
  They hold `STATE_LOCK`; `unfinished_tasks` is guarded by the queue's own lock,
  so a submission may fall between the test and the assignment, but it commutes
  with the assignment, and no worker can be between `get` and `task_done` when
  the counter is 0 (`UnfinishedCountsWork`).
* A table is a counter of the jobs that changed it (`lake`), and the views
  are, per table, the value they were last built from (`views`).  A build reads each table
  once, in any order.  In the code a table is read by several views; that a
  build sees one state of the lake does not depend on how often it looks.
* A job that raises may have written some layers before.  `torn` remembers such
  tables: the code does not put them into `COMPLETED_TABLES`, so nothing promises
  that the views follow, and the properties say so.

### Unstructured pipeline

A document is its place in `_id` order, because `_find` answers in that order.
The run `r` moves from one `await` to the next:

| `pc` | Code (`job.ts`, `CouchDBService.ts`) | Actions |
| --- | --- | --- |
| `off` | no `safeRun` in progress (205-214) | `Tick`, `Start` |
| `find` | `findUnprocessedDocs` | `Find`, `FindFails` |
| `next` | the `for` loop, 56-58 | `Begin`, `RunDone` |
| `mark` | 73 `updateStatus(PROCESSING)` | `Marked`, `UpdateThrew` |
| `extract` | 75-104 checks, attachment, decryption, Tika | `Extract`, `ExtractFails` |
| `solr` | 107-136 | `Index`, `IndexFails` |
| `nifi` | 139-158 | `Forward`, `ForwardFails` |
| `complete` | 160-172 `updateStatus(COMPLETED)` | `DocDone`, `UpdateThrew` |
| `fail` | 174-192 `updateStatus(ERROR)` | `DocDone` |

Every call of `updateStatus` is a frame of its own (`upd`): the GET (`Get`), the
PUT (`Put`, `PutAnswerLost`), the conflict with its bounded retry
(`PutConflict`), the failure of a request (`RequestFails`).  The run waits for
its own frame; a failed send to NiFi starts one nobody waits for (a *fork*).
CouchDB accepts a PUT iff the document was not written since the GET; since
revisions are never reused, that is the one bit `fresh`.  Abstractions:

* A document's other fields are one value, `body`, written by the CMS
  (`CmsWrite`), which reads a revision and writes it in one step.
* `Poison` are the documents whose content is at fault: whatever happens, they
  do not get past Tika.  All other failures are faults, counted by `faults`.
* Documents that the selector never matches (no attachment, no metadata) are not
  in `Docs`.
* A request in flight when the process dies has been carried out before, or
  never is.
* After a failed POST Solr or NiFi may or may not have the document.  After a
  failed PUT the document may have been written.
* A fork that fails ends the process: Node 20 (`Dockerfile` lines 2-3) dies of an unhandled
  rejection, and `docker-compose.yaml` restarts the container (`Start`).
* Time is left out: the delay between conflicts, the cron schedule, the timeouts
  of Tika and NiFi (a timeout is a failed call).

`CRON_ENABLED` is `cronEnabled`, chosen in `Init`.  Without cron the start of the process
makes one run; the process exits once the run and its forks have ended, and the
container's restart (`Start`) makes the next.

### Table ETLs

A row is a record of the columns that some write of the class keys, partitions,
orders or deduplicates by (`EtlCatalog` lists them).  A class is the sequence of
its writes, and a write says where it reads, which rows it takes and with which
record key, partition and precombine field it upserts.  `EtlLayers` runs one class,
with one worker, as `NUM_WORKERS` is by default, so that its jobs follow each other:

| Code | Actions |
| --- | --- |
| `run(source_path)` begins, `current_timestamp()` | `Start` |
| a write: read, deduplicate, explode, filter, merge into the latest file slice | `Merge` |
| the commit of that write, the end of `run` after the last | `Commit` |
| a null in a record key or precombine field | `Raise` |
| the death of a job between or in the middle of writes | `Fail` |

`Overwrite` is `OverwriteWithLatestAvroPayload`: within a batch the precombine field
decides, against the stored row the batch always wins.  The index is not global:
a record key is unique within a partition.  A network map in gold is *summed* over all
rows of silver, old configurations included (`groupBy`, `max`, `sum`), so that it is of
no revision; what is left to say of it is its time of ingestion.  Left out: casts,
derived columns, and everything a write computes that no write looks at.

### Routing and views

`EtlRouting.Route` is `_resolve_table_name` and `_route_etl`.  What
`_normalize_table_name` makes of a string is the constant `Normal`.  A table name is
resolved twice, when the job is submitted (`Normalized`) and when it runs (`Route`).
`Served` are the tables and views of `GOLD_PATHS`, which the query API reads.
`Lakehouse` has one step per job (`Job`), with any number of its writes made if a fault ends it, and
then goes through `RunAll` builder by builder: `Skip` when `_hudi_ready` says that a
table of its gate is missing, `LoadTables` (any load may fail; one that is *safe* then
counts as missing), `Write` and `WriteFails` output by output, `Crash` anywhere.
`fresh` remembers the tables that the last rows of each view were made from, as long as
they have not changed.  A write is an upsert: rows with the same keys are replaced,
others stay.  Most views make keys or partitions of what they have joined and summed
(`keys` of an `Output`: the tables that content is from), so that a build without one of
these tables, or after it has changed, leaves the rows of an earlier build beside its
own: the view is then in `left`.  `vw_transaction_detail` is keyed by ids alone.
`Schema` has the columns that the ETL classes write, `Load` those a view names, so
that a view that asks for a column that is not there raises.  Jobs and builds
exclude each other, which is what `Orchestrator` is about; what the SQL of a view
computes is left out.

### Query API

`pc[t]` is the place of a pool thread: in `get_spark` under `_spark_lock` (`spark`,
`build`), in a plain query (`read`), before or under `_sql_lock` (`lock`,
`register`, `execute`).  The event loop submits, delivers and times out; `/health`
keeps it to itself (`loop`).  A timeout cancels a job in the queue and leaves one that
runs alone; it may come at any time, as 120 seconds may pass in the queue, before a
lock or in Spark.  A result that has come meanwhile counts as one that came in time.
A job that hangs (`Slow`, statements included) may hold some or all cores of `local[2]`
(`full`): then no other job ends, the count of `/health` included.  `spark` is "lost" when `_jvm` is `None`, so that the next `get_spark`
builds a new session, and "dead" when the JVM is gone and `_jvm` is still set: then
every job raises.  A table directory may be found or not when a view is registered, but
is found if the session has a view of it.  Tables without a `tenant_id` (those outside
`Filtered`) are registered for `Everyone`.  Tokens, columns, filters and limits end in an
answer; what rows come back is left out.

### Rule Discovery

The queries are the operators `Rule030` to `Rule084`, on sets of the rows and columns
that decide: a result is the independent variable and whether the exit condition was
taken (the code displays 0 then).  The kernel handles one message at a time, so each
handler is one action: `Select` (with `SelectFails`), `Deselect` (the filter box and
the first entry), `ChooseRule`, `Run`, `RunFails`, and the two cells `Load` and
`Render`.  A DataFrame stays with the files its table had when it was loaded, so that a
loading cell that stops half-way leaves old and new tables side by side.  The table of
rules is made from the row of pandas that was selected (`OfPandas`), a discovery from a
row of Spark that is fetched again by its `evaluation_id` (`OfSpark`): the first that
comes, and `gold/evaluation` may hold one id several times, as it is partitioned by
`event_date` (`EvaluationETL.py:264`).  A null amount is NaN in the first and 0 in the
second.  Amounts, and years of birth, are any numbers.  Dates of birth are years and days
of the year.

### NiFi provisioning

`pc` is the request that comes next.  `Then` lets the script go on, or lose the answer
of a request that has been carried out; `RequestFails` is one that has not.  A PUT is
accepted iff its revision is the present one, the bits `changed` and `moved`.  Of a
parameter in `Sensitive` NiFi shows a mask (`Shown`), which `Update` puts back like any
value.  That NiFi then takes the mask for the new value is an assumption about NiFi,
which is not in `src/`; `OperatorValuesKept` says nothing of these parameters.  `Apply`
and `ApplyRefused` go on alike, since the status is not looked at (`init.sh:215`);
`UploadUnreadable` is an upload whose answer has no id that the script finds.
`Restart` is `restart: on-failure`, `UpAgain` another `docker compose up`.

## 3. What is checked

| Run | Instance | Shows |
| --- | --- | --- |
| `orchestrator` | 3 workers, 2 tables, 3 jobs, 1 failing view, 1 crash | `UnfinishedCountsWork`, `NoEtlDuringViewBuild`, `BuildSeesOneLake`, `NoStaleTableForgotten`; refinement of `EtlViewGate`; `JobsAreDone`, `ViewsCatchUp` |
| `doc_pipeline_safety` | 2 documents, 2 runs, 2 faults, 2 CMS writes, 1 crash, 3 attempts | `CompletedIsIndexed`, `CmsFieldsSurvive`, `CompletedIsFinal`, `RedeliveryHasACause`, `ArchivedForwardedAtMostOnce` |
| `doc_pipeline_liveness` | 3 documents, the first poisoned, window 2; 1 fault, 1 CMS write, 1 crash; cron on and off | `HealthyDocsSettle` |
| `doc_pipeline_forwarded` | 1 document, 1 fault | `CompletedWasForwarded` is violated |
| `doc_pipeline_starvation` | window 1, first of 2 documents poisoned, no faults | `AllHealthyDocsSettle` is violated |
| `etl_layers` | every class, 2 ids with 2 revisions, 2 items, 3 loads of up to 2 rows, 1 failure | `GoldShowsLastLoad`, `GoldHoldsLastLoad`, `ConditionsAccumulate`, `NetworkMapKeepsUp`, `PromisedIsKept` |
| `etl_alerts_quarantine` | alerts, 2 malformed ones of one type, without an evaluation id | `PromisedIsKept` is violated |
| `lakehouse` | 17 requests; a warehouse that is empty, has what the views read, lacks one class of it, or has every class; 2 jobs, 1 fault | `BuildIsComplete`, `TablesSuitTheViews`, `OneKindPerTable` |
| `lakehouse_available` | full warehouse, 1 job, no fault | `AvailableViewsAreBuilt` is violated |
| `query_api` | 2 statements of 2 tenants, 1 plain query; the query and a statement may hang; 2 threads, 2 tables, 1 without a `tenant_id`, 1 lost session, 1 `/health` | `SqlSeesOwnTenant`, `AnswersAreFinal`, `EveryoneAnswered`, `JobsEnd` |
| `rule_discovery` | 3 rows of 2 evaluations, 4 contents of the warehouse, 9 rules to choose from, all 15 replayed; 2 loads, 1 fault | `DiscoveryFitsAlert`, `TableMatchesDiscovery`, `RulesAgree`, `DebtorGapsAgree`, `OldAlertsKeepTheirReplay` |
| `nifi_provisioning` | 3 parameters, 1 of them sensitive, 2 faults, 2 changes by operators, 1 rerun | `EndsConfigured`, `OperatorValuesKept`, `ProvisioningCompletes` |

Every passing run but the liveness one checks the type invariant of its module too.

**Bounds.**  *Orchestrator*: three workers are the least with one that builds, one that
waits at the gate and one that is between `task_done` and `COMPLETED_TABLES.add`, each
with a job; two tables let one be rewritten while another is read.  *Pipeline*: two
documents let a run be on one while an update of the other, not awaited, is still on
its way; two faults let that update fail or race while the run itself fails; two CMS
writes and a fork exhaust the three attempts; two runs are what a second tick needs.
`FindLimit` is 2 (1 in the starvation run) instead of 1000: only its relation to the
number of poisoned documents matters.  *ETL*: three loads are a first one, one that
fails half-way and one after it; two rows let a batch hold two revisions of an id, or
two ids that share a key.  *Lakehouse*: the second job brings a table that was missing,
or makes stale what the first build has made; one fault is enough to hit any load,
write or job of either build.  *Query API*: two threads, of which one or both may be lost
to jobs that hang, one of these with `_sql_lock`; a third request has to share what is
left.  *Rule Discovery*: one evaluation has a second row, the other no amount; the
contents hold a transaction of another tenant, one at the time of the alert, later ones
of both sides, a row that is revised, and configurations with, without and with a
newer range.  *Provisioning*: two faults let an attempt fail in another's wake.  The
proofs below need no bound.

**Symmetry** is used in `doc_pipeline_safety`: runs are only compared for equality.
Documents, ids and revisions are ordered.

**Deadlock** is checked in `rule_discovery` alone: elsewhere clients, sources,
operators and faults may fall silent for ever, and then nothing is left to do.

**Fairness.**  *Orchestrator*: weak fairness of each worker thread: the interpreter
schedules every runnable thread, an ETL job and a view build return or raise, and a
thread woken by `notify_all` gets the lock.  Nothing obliges a client to submit.
*Pipeline*: cron ticks, the container is restarted, each request is answered with
success or an error, the event loop runs what is ready.  Ticks come again and again
because `node-cron` schedules for the life of the process; restarts because of
`restart: unless-stopped`.  That each request is answered is the one assumption the
code does not enforce: the calls to CouchDB and Solr carry no timeout, and one that
hangs would keep `running` set until a restart.  *Query API*: the event loop and each
thread of the pool go on as long as they can, but nothing obliges a job to end that
hangs (`Hang`), or one for which such jobs leave no core, the count of `/health`
included (`NoCore`, `full`).  *Provisioning*: the script goes on, and is restarted after a failure.
Faults, crashes, and what clients, operators and the CMS do are never obliged to happen.

**Disagreements found, each with a run.**

1. `CompletedWasForwarded`: a failed send is swallowed (`job.ts:151-157`); its
   ERROR update is not awaited, and the COMPLETED update of line 162 is made all
   the same.  A document NiFi never had can end up COMPLETED, and is then never
   selected again.  `unstructured-pipeline/README.md:105-106` has "Forward"
   before "Mark document as COMPLETED".
2. `AllHealthyDocsSettle`: `_find` is limited to 1000 documents in a fixed
   order, without paging, and failed documents stay eligible.  A thousand
   hopeless ones starve those that sort after them, where README.md:100 and
   `job.spec.ts:156` speak of all unprocessed documents.  `HealthyDocsSettle`
   is what does hold.
3. `PromisedIsKept` in `etl_alerts_quarantine`: malformed alerts without an evaluation
   id share the transaction type as the key of the quarantine, and overwrite one another.
4. `AvailableViewsAreBuilt`: `ConditionsTimelineView.py:102` asks `gold/transactions` for
   columns that `TransactionsETL` does not write, so that the view is never built
   although `run_all` says that all available ones are.

**Met while modelling, without a run of their own** (the properties except them, or the
model holds them as they are):

* `init.sh:227` reports the parameter context as applied whatever NiFi has answered
  (`ignored` in `EndsConfigured`), and takes a 409 of the instantiation for a success.
* Every attempt that reaches the instantiation adds a copy of the flow.
* An alert of bronze that `ALertsETL.silver()` cannot take makes every later job of
  alerts raise as well.
* With more than one worker two jobs of one table may overlap.  `BaseETL.hudi_opts`
  configures no concurrency control, and what two Hudi writers then do is not modelled.
* A view whose keys are made of what it shows keeps the rows of a degraded build, or of
  an earlier state of its tables, beside those of the next (`left` in `Lakehouse`).
* A table without a `tenant_id` is registered and read unfiltered
  (`lakehouse_query_api.py:434-436`), and `gold/transactions` is one: `TransactionsETL`
  writes `tenantid`.  The docstring of `_execute_sql_sync` (lines 424-426) speaks of views
  filtered by tenant.  `SqlSeesOwnTenant` is about the others.
* A statement that hangs keeps `_sql_lock`, and requests that time out leave their
  threads to it (`HangsInTheWay`).
* `/health` runs a Spark job on the event loop (`lakehouse_query_api.py:500`): behind jobs
  that hang on every core it blocks the loop, and then nobody gets even a 504
  (`LoopIsStuck`).
* `transaction_history_view.py:411` joins on `case_id`, which only `gold/alerts` brings:
  with cases and without alerts it raises.
* Rule Discovery: an exit condition is displayed as 0; windowed rules in the table of
  rules always show the recorded value, because the time is a string there; rules 083
  and 084 count rows, not accounts, and have no upper bound in time; rule 076 takes the
  newest row for the evaluated one (`DebtorGapsAgree` says when that is right); the range
  of a window is that of the newest configuration, not that of the time of the alert; a
  null amount is NaN in the table of rules and 0 in the discovery; of an evaluation with
  several rows the discovery may take another than the one selected.
* `init.sh:115-166` puts all parameters back as it has read them, for a sensitive one the
  mask that NiFi shows, when any parameter is missing.
* `display_rule_discovery` orders the configurations by `as_of_date` (line 1329 of the
  notebook), a column that `gold/rule` has no more (its line 593 says so), and a bare
  `except` takes the error: the header of a result always reads "Full history".

## 4. What is proved

Theorems are about `Spec` for all values of the constants that satisfy the named
assumptions: finitely many workers and a `NoTable` that is no table
(`Orchestrator`), positive `N`, `FindLimit` and `Retries` and runs that are not
fork numbers (`DocPipeline`).

*Orchestrator* (`OrchestratorProofs`).  Three invariants, each inductive given
the ones before it:

* `CountInv`: types, and `unfinished` is the length of the queue plus the number
  of workers between `get` and `task_done`.  The cardinality lemmas `TakeCounts`,
  `DoneCounts` and `NothingHeld` use the finite-set theorems of the library.
  Gives `TypeCorrect`.
* `GateInv`: nobody runs a job while the flag is set, the flag is set while a
  worker builds, only one does.  `NoEtlDuringViewBuild` alone is not inductive:
  that no job is *already* running when a build starts comes from counting.
  Gives `ViewBuildExcludesEtl`.
* `LakeInv`: what the build has read is what the lake holds, nothing is left to
  read at `release`, `skipped` is empty without failures, views never run ahead
  of the lake.  Gives `ViewsAreConsistent`, that the late `clear()` is harmless.
* `OrchestratorImplementsGate`: initial states map to initial states and every
  step to a step of `EtlViewGate` or a stutter, under the three invariants.

*Pipeline*.

* `Inv` (`DocPipelineProofs`): types; a frame that is at work belongs to the
  run's current point and document (`CallInv`), or to a fork, which writes ERROR
  and exists only after a fault; `running` covers every run in progress
  (`FlightInv`).  Gives `TypeCorrect` and `RunsDoNotOverlap`.
* `IndexedInv`: a run that has come past Solr has its document there.  With
  `CallInv` only such a run can write COMPLETED.  Gives `CompletedImpliesIndexed`.
* `BodyInv`: a PUT that will be accepted carries the body that is there.  Gives
  `CmsWritesAreKept`.
* `FinalInv`: what a run has found unprocessed stays so until the run gets to
  it, since runs do not overlap and forks only write ERROR; on its way to ERROR a
  document is COMPLETED only after a fault.  Gives `CompletedStays`, an action
  property.
* `LateInv` (`DocPipelineStoreProofs`): a document archived during a run is sent at most
  once more by it, and a run that starts later does not select it.  Gives
  `ArchivedIsForwardedOnce`.
* `CauseInv`: each delivery of a document, each update not awaited that may still write
  ERROR, and the document's being open to another delivery, has a fault, a crash or a CMS
  write of its own.  The forks are counted as a finite set, so that one that starts
  (`ForksAreFew`) is paid for by the failed send that started it.  Gives
  `EveryRedeliveryHasACause`.

*ETL layers* (`EtlLayersProofs`), for any ids, revisions, loads and failures.

* `TypeInv`: the tables hold rows of the source; `CatalogRuns` goes through the classes
  once, so that the rest speaks of three or four writes and not of 22 classes.
* `KeyInv`: the table a writer is about to commit has one row per key, by `UpsertIsKeyed`
  about `HudiTable`.  The invariants below need it.
* `PromisesAreKept`: with classes that key every layer by the id, an id that a finished
  job has brought is in every layer for good (`UpsertKeepsIds`).  The hypothesis is what
  `etl_alerts_quarantine` violates.
* `ShownInv`: bronze, the table below a job at work and what the job has
  merged show the last load of each id, and rows of any other load of that id, in any
  table, have older stamps; so the last load wins wherever they meet.  `ShowingRuns` gives
  what this needs of each write of the 19 classes.  Gives `GoldIsAtTheLastLoad`, that the
  one row of an id in the 14 replacing classes is of its last load, and `GoldHasTheLastLoad`
  for the five accumulating ones, where the row must not be lost to another id: the
  hypothesis is that identifiers inside payloads tell ids apart (evaluations).
* `CoverInv`: a class whose keys are hashes of the content in every layer never takes a row for
  another.  Gives `AllConditionsAreInGold`.

*Query API* (`QueryApiProofs`), for any requests, tenants, tables and threads.

* `JobInv`: a request is in the queue or on one thread, once.  Gives `AnswersStay`.
* `ViewInv`: `_sql_lock` is held from registration to the end, and the view of a table
  with a `tenant_id` that is not left to register is of the tenant at work or not there,
  since a table that has a view has a directory.  Gives `StatementsAreIsolated`.

*Lakehouse* (`LakehouseProofs`), for any deliveries, warehouses, jobs and faults.  `Builders`
goes through `ViewCatalog` once: each builder loads what its outputs are made of, asks
for columns that are there wherever a loss would go unnoticed (`_safe_load`), and reads
no view that it or a later builder writes (`ViewsInOrder`).

* `BuildInv`: the builders behind `run_all` have written their views from what is there;
  the one at work has loaded exactly the tables that are there and made the outputs before
  its next.  A write disturbs neither, since no earlier builder reads that view
  (`WriteKeeps`).  `LeftInv`: no view that is keyed by ids is in `left`, in this build or
  ever.  Gives `BuildsAreComplete`.
* `SuitInv`: without faults nothing is lost and only the conditions timeline raises.  With
  `ClassesWrite`, which names the class behind every table that views or the API read,
  it gives `TablesAndViewsFit`.

*Rule Discovery* (`RuleDiscoveryProofs`): all six properties, for any warehouses of finite
tables, any evaluations and any number of loads.  Times are natural numbers; amounts,
which may be null, and years are any integers.

* `LoadedInv`: each loaded table is that of some warehouse, not all of the same one.
* `RulesAlwaysAgree` and `DebtorGapsAlwaysAgree` compare sets of rows: a subset has no more
  elements (finite-set theorems), no later minimum and no greater maximum.  That a finite
  set of times has a minimum is the well-foundedness of the naturals, and the maximum is
  one of the distances from the alert.
* `ReplayIsStable`: each query reads `pacs002` through `UpTo` or `Before` only.
* `SteadyInv` and `DiscoveryInv`: what the table and the discovery were computed from.
  The typed rows differ in the amount alone, which only rule 091 reads
  (`AmountsAside`), so `TableAlwaysMatches` needs its exceptions and no others.

*Provisioning* (`NifiProvisioningProofs`): `ProgressInv` says what an attempt has reached
at each step, whoever did it, and `KnownInv` that the parameters to be written back are
those that NiFi shows, until somebody writes; they are those that are there unless
sensitive.  Gives `EndIsConfigured` and `OperatorsWin`.

Only model-checked: the liveness properties (`JobsAreDone`, `ViewsCatchUp`,
`HealthyDocsSettle`, `EveryoneAnswered`, `JobsEnd`, `ProvisioningCompletes`), which are out
of this prover's reach, as is `ENABLED`; `OneKindPerTable`, which depends on the names and
paths of `MCLakehouse`; and `NetworkMapKeepsUp`.  Every other property of a passing run is
stated by a theorem.

Two theorems have hypotheses beyond the named assumptions.  `GoldHasTheLastLoad` wants
identifiers in payloads that tell ids apart, as those of `etl_layers` do;
`PromisesAreKept` leaves out the alerts and the evaluations, which are keyed by such
identifiers, and of which only the run speaks.  The code enforces neither;
`etl_alerts_quarantine` shows what happens without them.

## 5. Not modelled

* The NiFi flow: generated XML of a product.  The names and paths it sends are the
  requests of `MCLakehouse`.
* The dashboards of JupyterHub: charts over tables that are loaded once.  They keep no
  state that a later step depends on, and their arithmetic is what they are.
* `jupyterhub_config.py` and the deployment files: configuration.  Restart policies
  appear as `Start`, `Crash`, `Restart` and `UpAgain`.
* What the SQL of the views computes, casts, formatting, and the JSON schema cache of the
  query API, which no endpoint uses.
* Composition of all parts in one state space.  The parts meet in few words: a job is a
  table, a build reads tables, a query reads directories; each module has those words of
  its neighbours as its environment.

Open for later work: a theorem that composes `EtlLayers` with `Lakehouse`, so that a view
is made of the last loads and not only of present tables.
