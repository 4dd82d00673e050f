----------------------------- MODULE Lakehouse -----------------------------
(***************************************************************************)
(* From a delivered file to the views that show it: a job is routed to its *)
(* ETL class and writes the layers of its table; when no job is left,      *)
(* ViewsOrchestrator.run_all goes through the builders.  Jobs and builds   *)
(* never overlap: that is what Orchestrator.tla is about.                  *)
(*                                                                         *)
(* A fault is an error of Spark or of the storage, or the death of the     *)
(* process, at any point of a job or of a build.                           *)
(***************************************************************************)
EXTENDS EtlRouting, ViewCatalog

CONSTANTS Deliveries,  \* requests to consider
          Warehouses,  \* sets of classes that may have been ingested before
          MaxJobs,     \* bound: jobs
          MaxFaults    \* bound: faults

ASSUME BoundsAssumption == MaxJobs \in Nat /\ MaxFaults \in Nat

VARIABLES
  lake,      \* tables and views that exist, of those that somebody reads
  fresh,     \* the tables of each view that its last rows were made from, as they are now
  left,      \* views that may also hold rows an earlier build wrote under other keys
  at,        \* the builder of RunAll at work, 0 outside of a build
  step,      \* its next output, 0 before it has loaded its tables
  loaded,    \* the tables it has loaded
  raised,    \* builders that raised in this build
  degraded,  \* builders whose _safe_load lost a table that exists
  todo,      \* a job has ended well since the last build began
  ended,     \* a build has run to its end and no job has come since
  went,      \* history: kinds of files and where they went
  jobs, faults  \* counters of the bounds above

progress == <<at, step, loaded>>
vars == <<lake, fresh, left, progress, raised, degraded, todo, ended, went, jobs, faults>>

(* GOLD_PATHS: what the query API answers from, tables and views *)
Served ==
  {<<"gold", t>> : t \in {"alerts", "cases", "tasks", "transactions", "network_map", "rule",
     "condition", "pacs008", "account_holder", "evaluation", "entity", "comments",
     "typologies"}}
  \cup {<<"bronze", t>> : t \in {"rule", "typologies", "alerts"}}
  \cup {<<"views", v>> : v \in {"alert_navigator/header",
     "alert_navigator/typologies_triggered", "alert_navigator/rules_triggered",
     "vw_transaction_detail", "vw_transaction_history", "conditions_timeline",
     "vw_tx_network_accounts_edges", "vw_tx_network_counterparties_edges",
     "vw_counterparty_account_links"}}

(* What the first k writes of a class leave behind, of the tables somebody reads *)
Written(class, dir, k) ==
  {<<Catalog[class][i].to>> \o dir : i \in 1..k} \cap (Sources \cup Served)

Ingested(classes) ==
  UNION {Written(c, Directory(c), Len(Catalog[c])) : c \in classes}

Init ==
  /\ lake \in {Ingested(C) : C \in Warehouses}
  /\ fresh = [v \in Views |-> {}]
  /\ left = {}
  /\ at = 0 /\ step = 0 /\ loaded = {}
  /\ raised = {} /\ degraded = {}
  /\ todo = FALSE /\ ended = FALSE
  /\ went = {}
  /\ jobs = 0 /\ faults = 0

(* What is made from tables that are written anew is behind them *)
Behind(tables) == [v \in Views |-> fresh[v] \ tables]
-----------------------------------------------------------------------------
(* _normalized_request: a job enters the queue under the name of its table *)
Normalized(req) == [req EXCEPT !.table = ResolveTable(req)]

(* A job: its class writes layer after layer, and a fault may end it early.  *)
(* Only a job that runs to its end asks for the views.                       *)
Job(req) ==
  LET r == Route(Normalized(req))
  IN  /\ at = 0
      /\ jobs < MaxJobs
      /\ jobs' = jobs + 1
      /\ went' = went \cup {<<req.kind, r.dir>>}
      /\ IF r = Raises
         THEN UNCHANGED <<lake, fresh, todo, ended, faults>>
         ELSE \E k \in 0..Len(Catalog[r.class]) :
                LET whole == k = Len(Catalog[r.class])
                    tables == Written(r.class, r.dir, k)
                IN  /\ whole \/ faults < MaxFaults
                    /\ faults' = IF whole THEN faults ELSE faults + 1
                    /\ lake' = lake \cup tables
                    /\ fresh' = Behind(tables)
                    /\ todo' = (todo \/ whole)
                    /\ ended' = FALSE
      /\ UNCHANGED <<left, progress, raised, degraded>>

(* run_all begins *)
Begin ==
  /\ at = 0 /\ todo
  /\ at' = 1
  /\ todo' = FALSE /\ ended' = FALSE
  /\ raised' = {} /\ degraded' = {}
  /\ UNCHANGED <<lake, fresh, left, step, loaded, went, jobs, faults>>

Now == RunAll[at]
Ready(builder) == builder.gate \subseteq lake

\* Variant: a builder that raises ends the build.
PassOnUnlessRaised ==
  /\ at' = IF raised' # raised THEN Len(RunAll) + 1 ELSE at + 1
  /\ step' = 0 /\ loaded' = {}

\* Variant: the next builder goes on at the output where this one stopped.
PassOnMidway == at' = at + 1 /\ step' = step /\ loaded' = {}

(* On to the next builder; _run_view has caught whatever this one raised *)
PassOn == at' = at + 1 /\ step' = 0 /\ loaded' = {}

Building == at \in DOMAIN RunAll

Skip ==
  /\ Building /\ step = 0
  /\ ~Ready(Now)
  /\ UNCHANGED <<lake, fresh, left, raised, degraded, todo, ended, went, jobs, faults>>
  /\ PassOn

(* The loads that answer, when those of lost fail *)
Answered(builder, lost) ==
  {l \in builder.loads : l.from \in lake \ lost /\ l.cols \subseteq Schema[l.from]}

(* What makes a builder raise before it writes anything *)
Resolves(builder, answers) ==
  /\ \A l \in builder.loads : l.safe \/ l \in answers
  /\ \A l \in answers : /\ l.after \subseteq Schema[l.from]
                        /\ l.keyedBy \subseteq {a.from : a \in answers}

(* A builder loads its tables; a fault may strike one load.  _safe_load      *)
(* takes whatever goes wrong for a table that does not exist.                *)
LoadTables ==
  /\ Building /\ step = 0
  /\ Ready(Now)
  /\ \E lost \in {{}} \cup {{l.from} : l \in {m \in Now.loads : m.from \in lake}} :
       LET answers == Answered(Now, lost)
       IN  /\ lost # {} => faults < MaxFaults
           /\ faults' = IF lost = {} THEN faults ELSE faults + 1
           /\ degraded' = IF lost = {} THEN degraded ELSE degraded \cup {Now.name}
           /\ IF Resolves(Now, answers)
              THEN /\ loaded' = {l.from : l \in answers} /\ step' = 1
                   /\ UNCHANGED <<at, raised>>
              ELSE raised' = raised \cup {Now.name} /\ PassOn
  /\ UNCHANGED <<lake, fresh, left, todo, ended, went, jobs>>

(* The keys of an output come out as they did when it was last written *)
KeysAgain(o) == o.keys \cap lake \subseteq fresh[o.to] \cap loaded

(* The next output is upserted, if it is due: rows with the keys of this    *)
(* time replace those with the same keys, and any others stay.              *)
Write ==
  LET o == Now.outputs[step]
      due == o.due \subseteq loaded
  IN  /\ Building /\ step > 0
      /\ lake' = IF due THEN lake \cup {o.to} ELSE lake
      /\ fresh' = IF due THEN [Behind({o.to}) EXCEPT ![o.to] = o.uses \cap loaded] ELSE fresh
      /\ left' = IF due /\ o.to \in lake /\ ~KeysAgain(o) THEN left \cup {o.to} ELSE left
      /\ UNCHANGED <<raised, degraded, todo, ended, went, jobs, faults>>
      /\ IF step = Len(Now.outputs) THEN PassOn
         ELSE step' = step + 1 /\ UNCHANGED <<at, loaded>>

(* A write fails, after those before it *)
WriteFails ==
  /\ Building /\ step > 0
  /\ faults < MaxFaults
  /\ faults' = faults + 1
  /\ raised' = raised \cup {Now.name}
  /\ PassOn
  /\ UNCHANGED <<lake, fresh, left, degraded, todo, ended, went, jobs>>

End ==
  /\ at = Len(RunAll) + 1
  /\ at' = 0
  /\ ended' = TRUE
  /\ UNCHANGED <<lake, fresh, left, step, loaded, raised, degraded, todo, went, jobs, faults>>

(* The process dies in the middle of a build and starts again *)
Crash ==
  /\ at # 0
  /\ faults < MaxFaults
  /\ faults' = faults + 1
  /\ at' = 0 /\ step' = 0 /\ loaded' = {}
  /\ UNCHANGED <<lake, fresh, left, raised, degraded, todo, ended, went, jobs>>

Next ==
  \/ \E req \in Deliveries : Job(req)
  \/ Begin \/ Skip \/ LoadTables \/ Write \/ WriteFails \/ End \/ Crash

Spec == Init /\ [][Next]_vars
-----------------------------------------------------------------------------
(* Type correctness *)
Names == {RunAll[b].name : b \in DOMAIN RunAll}

TypeOK ==
  /\ lake \subseteq Sources \cup Served \cup Views
  /\ fresh \in [Views -> SUBSET (Sources \cup Views)]
  /\ left \subseteq Views
  /\ at \in 0..Len(RunAll) + 1
  /\ step \in 0..4 /\ (step > 0 => Building /\ step <= Len(Now.outputs))
  /\ loaded \subseteq Sources \cup Views
  /\ raised \subseteq Names /\ degraded \subseteq Names
  /\ todo \in BOOLEAN /\ ended \in BOOLEAN
  /\ jobs \in 0..MaxJobs /\ faults \in 0..MaxFaults

(* All the outputs of a builder that it can make are there, and their last  *)
(* rows were made from the present content of all its tables that exist.    *)
(* Rows of other keys may be left over from earlier builds, but none in a   *)
(* view whose keys are the ids of a table.                                  *)
UpToDate(builder) ==
  \A o \in OutputsOf(builder) : o.due \subseteq lake =>
    /\ o.to \in lake /\ fresh[o.to] = o.uses \cap lake
    /\ o.keys = {} => o.to \notin left

(* When a build has ended, every view whose tables exist has been written   *)
(* from all of them as they are, in all its outputs and also from the views *)
(* of the same build that it reads, but for the builders that raised or     *)
(* lost a table themselves: no failure reaches another view, and what an    *)
(* earlier build has missed is there after the next one (run_all,           *)
(* _run_view).  What an earlier build has written too much stays, where the *)
(* keys of the rows differ (write_hudi).                                    *)
BuildIsComplete ==
  ended => \A b \in DOMAIN RunAll :
    Ready(RunAll[b]) /\ RunAll[b].name \notin raised \cup degraded => UpToDate(RunAll[b])

(* Without faults, once all tables are there, all builders but the          *)
(* conditions timeline find the tables and the columns they ask for; and    *)
(* once every class has been at work, the query API finds all it serves but  *)
(* that timeline: the contract of the ETL classes, the views and the API.    *)
TablesSuitTheViews ==
  ended /\ faults = 0 =>
    /\ Sources \subseteq lake => raised \subseteq {"conditions_timeline"}
    /\ Ingested(DOMAIN Catalog) \subseteq lake =>
         Served \ {<<"views", "conditions_timeline">>} \subseteq lake

(* Files of different kinds are never written into one table, whether the   *)
(* request names the table, an alias of it, or only the path of the file    *)
(* (_resolve_table_name, _ETL_REGISTRY, DynamicETL.hudi_table_name).        *)
OneKindPerTable ==
  \A w, u \in went : w[2] = u[2] /\ w[2] # <<>> => w[1] = u[1]

(* views_orchestrator.py:61 of run_all: "Create all views whose upstream    *)
(* tables are available."                                                   *)
AvailableViewsAreBuilt ==
  ended /\ faults = 0 =>
    \A b \in DOMAIN RunAll : Ready(RunAll[b]) =>
      \A o \in OutputsOf(RunAll[b]) : o.due \subseteq lake => o.to \in lake
=============================================================================
