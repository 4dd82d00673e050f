------------------------------ MODULE QueryApi ------------------------------
(***************************************************************************)
(* The query API of datalakehouse-api/lakehouse_query_api.py: an event     *)
(* loop answers requests, and gives their Spark jobs to a pool of threads. *)
(* A job asks get_spark for the one Spark session; /query then reads its   *)
(* table, /execute_sql takes _sql_lock, registers a temporary view per     *)
(* table, filtered for its tenant if the table has a tenant_id, and runs   *)
(* its statement over them.  The views belong to the session and outlive   *)
(* the job.  A request that waits too long is answered 504, but a job that *)
(* runs cannot be stopped.                                                 *)
(***************************************************************************)
EXTENDS Naturals, Sequences, FiniteSets

CONSTANTS Requests,       \* requests the clients send, each once
          Sql,            \* those to /execute_sql; the others are to /query
          Slow,           \* those whose job may last for ever
          Tenants, TenantOf,
          Tables,         \* GOLD_PATHS
          Filtered,       \* those with a tenant_id column
          Everyone,       \* what the view of another table is filtered for
          Threads,        \* the threads of _executor
          None,           \* no request, no thread, no tenant
          MaxDeaths,      \* bound: times the Spark session is lost
          MaxHealth       \* bound: requests to /health

ASSUME RequestsAssumption == Sql \subseteq Requests /\ Slow \subseteq Requests
ASSUME TenantsAssumption ==
  TenantOf \in [Requests -> Tenants] /\ None \notin Tenants /\ Everyone \notin Tenants \cup {None}
ASSUME TablesAssumption == Filtered \subseteq Tables
ASSUME NoneAssumption == None \notin Requests \cup Threads
ASSUME BoundsAssumption == MaxDeaths \in Nat /\ MaxHealth \in Nat

VARIABLES
  queue,       \* the work queue of _executor
  future,      \* of each request, the state of its future
  answer,      \* of each request, what the client got
  pc, work,    \* where each thread is, and with which request
  todo,        \* tables a thread has yet to register
  hung,        \* threads whose Spark job never returns
  full,        \* their tasks hold every core of Spark (local[2])
  stale,       \* threads whose session is gone
  sqlLock,     \* the thread that holds _sql_lock
  views,       \* the tenant each temporary view is filtered for
  spark,       \* the session: "up", "lost" when _jvm is None, "dead" otherwise
  sparkLock,   \* the thread, or "loop", inside get_spark with the lock
  loop,        \* what the event loop is busy with
  deaths, healths    \* counters of the bounds above

clientVars == <<queue, future, answer>>
threadVars == <<pc, work, todo, hung, stale>>
viewVars == <<sqlLock, views>>
sparkVars == <<spark, sparkLock, full>>
boundVars == <<deaths, healths>>
vars == <<clientVars, threadVars, viewVars, sparkVars, boundVars, loop>>

(* "spark" and "build" are inside get_spark, "read" inside the rest of      *)
(* _get_hudi_data_sync, "lock" before _sql_lock in _execute_sql_sync,       *)
(* "register" and "execute" under it.                                       *)
Points == {"free", "spark", "build", "read", "lock", "register", "execute"}

Init ==
  /\ queue = <<>>
  /\ future = [r \in Requests |-> "none"]
  /\ answer = [r \in Requests |-> "none"]
  /\ pc = [t \in Threads |-> "free"]
  /\ work = [t \in Threads |-> None]
  /\ todo = [t \in Threads |-> {}]
  /\ hung = {}
  /\ full = FALSE
  /\ stale = {}
  /\ sqlLock = None
  /\ views = [b \in Tables |-> None]
  /\ spark \in {"up", "lost"}
  /\ sparkLock = None
  /\ loop = "free"
  /\ deaths = 0
  /\ healths = 0

Goto(t, p) == pc' = [pc EXCEPT ![t] = p]
-----------------------------------------------------------------------------
(* The event loop *)

(* verify_jwt: no valid token, or one without claim or tenant *)
Refuse(r) ==
  /\ loop = "free" /\ answer[r] = "none" /\ future[r] = "none"
  /\ answer' = [answer EXCEPT ![r] = "refused"]
  /\ UNCHANGED <<queue, future, threadVars, viewVars, sparkVars, boundVars, loop>>

(* execute_sql: the statement is not a SELECT *)
RefuseStatement(r) ==
  /\ r \in Sql
  /\ loop = "free" /\ answer[r] = "none" /\ future[r] = "none"
  /\ answer' = [answer EXCEPT ![r] = "refused"]
  /\ UNCHANGED <<queue, future, threadVars, viewVars, sparkVars, boundVars, loop>>

(* run_in_executor *)
Submit(r) ==
  /\ loop = "free" /\ answer[r] = "none" /\ future[r] = "none"
  /\ queue' = Append(queue, r)
  /\ future' = [future EXCEPT ![r] = "queued"]
  /\ UNCHANGED <<answer, threadVars, viewVars, sparkVars, boundVars, loop>>

\* Variant: the job's result is sent whenever it comes.
DeliverLate(r) ==
  /\ loop = "free"
  /\ future[r] = "ended"
  /\ answer' = [answer EXCEPT ![r] = "result"]
  /\ UNCHANGED <<queue, future, threadVars, viewVars, sparkVars, boundVars, loop>>

(* The job has ended before the timeout: its rows, or its error as 404 or 500 *)
Deliver(r) ==
  /\ loop = "free" /\ answer[r] = "none"
  /\ future[r] = "ended"
  /\ answer' = [answer EXCEPT ![r] = "result"]
  /\ UNCHANGED <<queue, future, threadVars, viewVars, sparkVars, boundVars, loop>>

\* Variant: only jobs in the queue are given up.
TimeOutQueued(r) ==
  /\ loop = "free" /\ answer[r] = "none"
  /\ future[r] = "queued"
  /\ answer' = [answer EXCEPT ![r] = "timeout"]
  /\ future' = [future EXCEPT ![r] = "cancelled"]
  /\ UNCHANGED <<queue, threadVars, viewVars, sparkVars, boundVars, loop>>

(* asyncio.wait_for gives up, SPARK_JOB_TIMEOUT after the submission, be    *)
(* that in the queue, before a lock or in Spark.  It cancels the future: a  *)
(* job in the queue will not run, one that runs is not disturbed.           *)
TimeOut(r) ==
  /\ loop = "free" /\ answer[r] = "none"
  /\ future[r] \in {"queued", "running"}
  /\ answer' = [answer EXCEPT ![r] = "timeout"]
  /\ future' = IF future[r] = "queued" THEN [future EXCEPT ![r] = "cancelled"] ELSE future
  /\ UNCHANGED <<queue, threadVars, viewVars, sparkVars, boundVars, loop>>

(* /health calls get_spark and runs a job on the event loop itself, which   *)
(* serves nobody else meanwhile.                                            *)
Health ==
  /\ loop = "free" /\ healths < MaxHealth
  /\ healths' = healths + 1
  /\ loop' = "health"
  /\ UNCHANGED <<clientVars, threadVars, viewVars, sparkVars, deaths>>

HealthSpark ==
  /\ loop = "health" /\ sparkLock = None
  /\ IF spark = "lost" THEN loop' = "build" /\ sparkLock' = "loop"
                       ELSE loop' = "count" /\ UNCHANGED sparkLock
  /\ UNCHANGED <<clientVars, threadVars, viewVars, spark, full, boundVars>>

HealthBuilt ==
  /\ loop = "build"
  /\ sparkLock' = None
  /\ \/ spark' = "up" /\ loop' = "count"
     \/ spark' = spark /\ loop' = "free"
  /\ UNCHANGED <<clientVars, threadVars, viewVars, full, boundVars>>

(* The count needs a core like any other job, and has no timeout. *)
HealthDone ==
  /\ loop = "count" /\ ~full
  /\ loop' = "free"
  /\ UNCHANGED <<clientVars, threadVars, viewVars, sparkVars, boundVars>>
-----------------------------------------------------------------------------
(* The threads of the pool *)

(* A thread takes the oldest job; a cancelled one is dropped. *)
Take(t) ==
  /\ pc[t] = "free" /\ queue # <<>>
  /\ queue' = Tail(queue)
  /\ IF future[Head(queue)] = "cancelled"
     THEN UNCHANGED <<future, pc, work>>
     ELSE /\ future' = [future EXCEPT ![Head(queue)] = "running"]
          /\ work' = [work EXCEPT ![t] = Head(queue)]
          /\ Goto(t, "spark")
  /\ UNCHANGED <<answer, todo, hung, stale, viewVars, sparkVars, boundVars, loop>>

(* The job returns or raises, and gives back _sql_lock if it holds it, also *)
(* when its client has long been answered 504.                              *)
End(t) ==
  /\ future' = [future EXCEPT ![work[t]] = "ended"]
  /\ work' = [work EXCEPT ![t] = None]
  /\ todo' = [todo EXCEPT ![t] = {}]
  /\ Goto(t, "free")
  /\ sqlLock' = IF sqlLock = t THEN None ELSE sqlLock
  /\ stale' = stale \ {t}
  /\ UNCHANGED <<queue, answer, hung>>

Served(t) == IF work[t] \in Sql THEN "lock" ELSE "read"

(* get_spark: the session is checked, and built, under _spark_lock.  One    *)
(* that died with its _jvm still set is taken for alive.                    *)
GetSpark(t) ==
  /\ pc[t] = "spark" /\ sparkLock = None
  /\ IF spark = "lost" THEN Goto(t, "build") /\ sparkLock' = t
                       ELSE Goto(t, Served(t)) /\ UNCHANGED sparkLock
  /\ stale' = IF spark = "dead" THEN stale \cup {t} ELSE stale
  /\ UNCHANGED <<clientVars, work, todo, hung, viewVars, spark, full, boundVars, loop>>

BuildSpark(t) ==
  /\ pc[t] = "build"
  /\ sparkLock' = None
  /\ \/ /\ spark' = "up"
        /\ Goto(t, Served(t))
        /\ UNCHANGED <<clientVars, work, todo, hung, stale, viewVars>>
     \/ End(t) /\ UNCHANGED <<spark, views>>
  /\ UNCHANGED <<full, boundVars, loop>>

(* _get_hudi_data_sync, from the load on, until it returns rows or raises:  *)
(* an unknown table or column, a limit above MAX_ROWS, a job that fails, or *)
(* a session that is gone.                                                  *)
Read(t) ==
  /\ pc[t] = "read" /\ t \notin hung
  /\ End(t)
  /\ UNCHANGED <<views, sparkVars, boundVars, loop>>

\* Variant: nothing keeps two statements apart.
TakeSqlLockShared(t) ==
  /\ pc[t] = "lock"
  /\ sqlLock' = t
  /\ todo' = [todo EXCEPT ![t] = Tables]
  /\ Goto(t, "register")
  /\ UNCHANGED <<clientVars, work, hung, stale, views, sparkVars, boundVars, loop>>

TakeSqlLock(t) ==
  /\ pc[t] = "lock" /\ sqlLock = None
  /\ sqlLock' = t
  /\ todo' = [todo EXCEPT ![t] = Tables]
  /\ Goto(t, "register")
  /\ UNCHANGED <<clientVars, work, hung, stale, views, sparkVars, boundVars, loop>>

\* Variant: the view is filtered for the wrong thing.
ViewOfRequest(t, b) == IF b \in Filtered THEN work[t] ELSE Everyone

(* A table without a tenant_id shows the rows of all tenants. *)
View(t, b) == IF b \in Filtered THEN TenantOf[work[t]] ELSE Everyone

(* The next table of GOLD_PATHS: one whose directory is not there is passed *)
(* over.  Directories only ever appear: one that has a view has a directory. *)
Register(t, b) ==
  /\ pc[t] = "register" /\ b \in todo[t]
  /\ \/ t \notin stale /\ views' = [views EXCEPT ![b] = View(t, b)]
     \/ views[b] = None /\ views' = views
  /\ todo' = [todo EXCEPT ![t] = @ \ {b}]
  /\ UNCHANGED <<clientVars, pc, work, hung, stale, sqlLock, sparkVars, boundVars, loop>>

\* Variant: _sql_lock is released behind the statement, and not by a "with".
RegisterFailsHolding(t) ==
  /\ pc[t] = "register" /\ todo[t] # {}
  /\ future' = [future EXCEPT ![work[t]] = "ended"]
  /\ work' = [work EXCEPT ![t] = None]
  /\ todo' = [todo EXCEPT ![t] = {}]
  /\ Goto(t, "free")
  /\ stale' = stale \ {t}
  /\ UNCHANGED <<queue, answer, hung, viewVars, sparkVars, boundVars, loop>>

(* A table whose load fails ends the job with its views half replaced. *)
RegisterFails(t) ==
  /\ pc[t] = "register" /\ todo[t] # {}
  /\ End(t)
  /\ UNCHANGED <<views, sparkVars, boundVars, loop>>

StartSql(t) ==
  /\ pc[t] = "register" /\ todo[t] = {}
  /\ Goto(t, "execute")
  /\ UNCHANGED <<clientVars, work, todo, hung, stale, viewVars, sparkVars, boundVars, loop>>

Execute(t) ==
  /\ pc[t] = "execute" /\ t \notin hung
  /\ End(t)
  /\ UNCHANGED <<views, sparkVars, boundVars, loop>>
-----------------------------------------------------------------------------
(* A Spark job that never ends, with some or all of the cores *)
Hang(t) ==
  /\ pc[t] \in {"read", "execute"} /\ work[t] \in Slow /\ t \notin hung \cup stale
  /\ hung' = hung \cup {t}
  /\ full' \in {full, TRUE}
  /\ UNCHANGED <<clientVars, pc, work, todo, stale, viewVars, spark, sparkLock, boundVars, loop>>

(* The session ends, its temporary views with it; jobs that use it    *)
(* raise, those that last for ever included.                                *)
SparkDies ==
  /\ spark = "up" /\ deaths < MaxDeaths
  /\ deaths' = deaths + 1
  /\ spark' \in {"lost", "dead"}
  /\ views' = [b \in Tables |-> None]
  /\ stale' = {t \in Threads : pc[t] \in {"read", "lock", "register", "execute"}}
  /\ hung' = {} /\ full' = FALSE
  /\ UNCHANGED <<clientVars, pc, work, todo, sqlLock, sparkLock, healths, loop>>

Loop == (\E r \in Requests : Deliver(r) \/ TimeOut(r)) \/ HealthSpark \/ HealthBuilt \/ HealthDone

Run(t) ==
  \/ Take(t) \/ GetSpark(t) \/ BuildSpark(t) \/ Read(t) \/ TakeSqlLock(t)
  \/ (\E b \in Tables : Register(t, b)) \/ RegisterFails(t) \/ StartSql(t) \/ Execute(t)

Next ==
  \/ \E r \in Requests : Refuse(r) \/ RefuseStatement(r) \/ Submit(r)
  \/ Loop \/ Health
  \/ \E t \in Threads : Run(t) \/ Hang(t)
  \/ SparkDies

(* A collect for which there is no core *)
NoCore(t) == full /\ pc[t] \in {"read", "execute"} /\ t \notin stale

(* The event loop and the threads go on, but for a job without a core. *)
Fairness == WF_vars(Loop) /\ \A t \in Threads : WF_vars(Run(t) /\ ~NoCore(t))

Spec == Init /\ [][Next]_vars
FairSpec == Spec /\ Fairness
-----------------------------------------------------------------------------
TypeOK ==
  /\ queue \in Seq(Requests)
  /\ future \in [Requests -> {"none", "queued", "running", "ended", "cancelled"}]
  /\ answer \in [Requests -> {"none", "result", "timeout", "refused"}]
  /\ pc \in [Threads -> Points]
  /\ work \in [Threads -> Requests \cup {None}]
  /\ todo \in [Threads -> SUBSET Tables]
  /\ hung \subseteq Threads /\ stale \subseteq Threads /\ full \in BOOLEAN
  /\ sqlLock \in Threads \cup {None}
  /\ views \in [Tables -> Tenants \cup {None, Everyone}]
  /\ spark \in {"up", "lost", "dead"} /\ sparkLock \in Threads \cup {None, "loop"}
  /\ loop \in {"free", "health", "build", "count"}
  /\ deaths \in 0..MaxDeaths /\ healths \in 0..MaxHealth

(* Of tables with a tenant_id a statement sees the rows of its own tenant   *)
(* alone: the views are shared by all jobs of the session and may be left   *)
(* over, half replaced, from a job of another tenant that raised.           *)
SqlSeesOwnTenant ==
  \A t \in Threads : pc[t] = "execute" =>
    \A b \in Filtered : views[b] \in {None, TenantOf[work[t]]}

(* A job cancelled by its timeout never starts, and a job that was running  *)
(* when its client gave up changes nothing about the answer.                *)
AnswersAreFinal ==
  [][\A r \in Requests :
       /\ answer[r] # "none" => answer'[r] = answer[r]
       /\ future[r] = "cancelled" => future'[r] = "cancelled"]_vars

(* /health counts on the event loop, and the hung jobs have every core. *)
LoopIsStuck == loop = "count" /\ full

(* Every request is answered, with a 504 at the latest, whatever jobs hang   *)
(* and although /health keeps the event loop to itself, unless its count is *)
(* behind jobs that hold all of Spark: then nobody is answered any more.     *)
EveryoneAnswered == \A r \in Requests : future[r] = "queued" ~> answer[r] # "none" \/ LoopIsStuck

(* A job that hangs is in the way of others on the cores of Spark and in     *)
(* front of _sql_lock.                                                      *)
HangsInTheWay(r) ==
  \/ full
  \/ r \in Sql /\ sqlLock \in hung
  \/ \E t \in hung : work[t] = r

(* The job of every request ends, or is cancelled in the queue, whoever      *)
(* timed out, failed or lost the session before it, unless a job that hangs *)
(* is in its way: no lock and no thread is left behind.                     *)
JobsEnd ==
  \A r \in Requests : future[r] \in {"queued", "running"} ~>
    future[r] \in {"ended", "cancelled"} \/ HangsInTheWay(r)

=============================================================================
