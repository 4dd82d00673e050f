---------------------------- MODULE Orchestrator ----------------------------
(***************************************************************************)
(* The automation orchestrator of automation-orchestrator/                 *)
(* automation_orchestrator_api.py: an in-memory job queue filled by the    *)
(* HTTP endpoint /checksubmit, worker threads that run one ETL job at a    *)
(* time, and a view build that a worker runs itself once the queue has     *)
(* drained, while a condition variable keeps the other workers from        *)
(* starting new ETL work.                                                  *)
(*                                                                         *)
(* A job is the table it is routed to.  NoTable stands for a request whose *)
(* table name resolves to the empty string, which DynamicETL may run with  *)
(* success but which never enters COMPLETED_TABLES.                        *)
(***************************************************************************)
EXTENDS Naturals, Sequences, FiniteSets

CONSTANTS Workers,        \* the worker threads, NUM_WORKERS of them
          Tables,         \* the tables ETL jobs write and views read
          NoTable,        \* the job whose table name is empty
          MaxJobs,        \* bound: requests the clients submit
          MaxViewFailures,\* bound: exceptions raised while a view is built
          MaxCrashes      \* bound: deaths of the API process

ASSUME WorkersAssumption == IsFiniteSet(Workers)
ASSUME TablesAssumption == NoTable \notin Tables
ASSUME BoundsAssumption ==
  MaxJobs \in Nat /\ MaxViewFailures \in Nat /\ MaxCrashes \in Nat

Jobs == Tables \cup {NoTable}

VARIABLES
  job_queue,        \* the requests waiting in queue.Queue
  unfinished,       \* queue.Queue.unfinished_tasks: put but not task_done
  viewBuild,        \* VIEW_BUILD_IN_PROGRESS
  completed,        \* COMPLETED_TABLES
  pc,               \* where each worker is in its loop
  req,              \* the request each worker holds
  success,          \* job_success of each worker
  lake,             \* for each table, the number of ETL jobs that changed it
  torn,             \* history: tables a failed job has changed since they were
                    \* last viewed or written by a job that succeeded
  views,            \* for each table, the value of lake the views were built from
  todo,             \* tables the view build in progress has yet to read
  skipped,          \* tables whose view failed in the view build in progress
  submitted, viewFailures, crashes    \* counters of the bounds above

queueVars == <<job_queue, unfinished, submitted>>
threadVars == <<pc, req, success>>
gateVars == <<viewBuild, completed>>
lakeVars == <<lake, torn, views, todo, skipped>>
boundVars == <<viewFailures, crashes>>
vars == <<queueVars, threadVars, gateVars, lakeVars, boundVars>>

(* "get" waits in job_queue.get; "gate" is about to test the flag, "wait"   *)
(* is inside STATE_COND.wait; "run" is inside run_job; "finish" is before   *)
(* task_done; "add" is before COMPLETED_TABLES.add; "check" is about to     *)
(* enter maybe_run_views_after_full_pipeline; "build" is inside             *)
(* ViewsOrchestrator.run; "release" is before its finally clause.           *)
Points == {"get", "gate", "wait", "run", "finish", "add", "check", "build", "release"}

Goto(w, p) == pc' = [pc EXCEPT ![w] = p]

Init ==
  /\ job_queue = <<>>
  /\ unfinished = 0
  /\ viewBuild = FALSE
  /\ completed = {}
  /\ pc = [w \in Workers |-> "get"]
  /\ req = [w \in Workers |-> NoTable]
  /\ success = [w \in Workers |-> FALSE]
  /\ todo = {}
  /\ skipped = {}
  /\ lake = [t \in Tables |-> 0]
  /\ torn = {}
  /\ views = [t \in Tables |-> 0]
  /\ submitted = 0
  /\ viewFailures = 0
  /\ crashes = 0
-----------------------------------------------------------------------------
(* POST /checksubmit: the job is queued and the client is told so. *)
Submit(j) ==
  /\ submitted < MaxJobs
  /\ submitted' = submitted + 1
  /\ job_queue' = Append(job_queue, j)
  /\ unfinished' = unfinished + 1
  /\ UNCHANGED <<threadVars, gateVars, lakeVars, boundVars>>

(* job_queue.get *)
Take(w) ==
  /\ pc[w] = "get"
  /\ job_queue # <<>>
  /\ req' = [req EXCEPT ![w] = Head(job_queue)]
  /\ job_queue' = Tail(job_queue)
  /\ Goto(w, "gate")
  /\ UNCHANGED <<success, unfinished, submitted, gateVars, lakeVars, boundVars>>

(* while VIEW_BUILD_IN_PROGRESS: STATE_COND.wait(), with the lock held *)
WaitAtGate(w) ==
  /\ pc[w] = "gate"
  /\ viewBuild
  /\ Goto(w, "wait")
  /\ UNCHANGED <<req, success, queueVars, gateVars, lakeVars, boundVars>>

\* Variant: the gate is not tested before the job runs.
PassGateUntested(w) ==
  /\ pc[w] = "gate"
  /\ success' = [success EXCEPT ![w] = FALSE]
  /\ Goto(w, "run")
  /\ UNCHANGED <<req, queueVars, gateVars, lakeVars, boundVars>>

PassGate(w) ==
  /\ pc[w] = "gate"
  /\ ~viewBuild
  /\ success' = [success EXCEPT ![w] = FALSE]
  /\ Goto(w, "run")
  /\ UNCHANGED <<req, queueVars, gateVars, lakeVars, boundVars>>

Rewrite(t) == lake' = [u \in Tables |-> IF u = t THEN lake[u] + 1 ELSE lake[u]]

(* run_job returns: the table's bronze, silver and gold layers are written. *)
EtlSucceeds(w) ==
  /\ pc[w] = "run"
  /\ success' = [success EXCEPT ![w] = TRUE]
  /\ Rewrite(req[w])
  /\ torn' = torn \ {req[w]}
  /\ Goto(w, "finish")
  /\ UNCHANGED <<req, queueVars, gateVars, views, todo, skipped, boundVars>>

\* Variant: task_done is skipped when the job raises.
EtlFailsUncounted(w) ==
  /\ pc[w] = "run"
  /\ Goto(w, "check")
  /\ UNCHANGED <<req, success, queueVars, gateVars, lakeVars, boundVars>>

(* run_job raises: the exception is printed and the job is dropped.  Some  *)
(* of the table's layers may have been written before, and stay written.   *)
EtlFails(w) ==
  /\ pc[w] = "run"
  /\ \/ UNCHANGED <<lake, torn>>
     \/ req[w] \in Tables /\ Rewrite(req[w]) /\ torn' = torn \cup {req[w]}
  /\ Goto(w, "finish")
  /\ UNCHANGED <<req, success, queueVars, gateVars, views, todo, skipped, boundVars>>

\* Variant: a success is recorded even when it has no table name.
TaskDoneUnnamed(w) ==
  /\ pc[w] = "finish"
  /\ unfinished' = unfinished - 1
  /\ Goto(w, IF success[w] THEN "add" ELSE "check")
  /\ UNCHANGED <<job_queue, submitted, req, success, gateVars, lakeVars, boundVars>>

\* Variant: views are considered only after a job that succeeded.
TaskDoneNoCheck(w) ==
  /\ pc[w] = "finish"
  /\ unfinished' = unfinished - 1
  /\ Goto(w, IF success[w] /\ req[w] # NoTable THEN "add" ELSE "get")
  /\ UNCHANGED <<job_queue, submitted, req, success, gateVars, lakeVars, boundVars>>

TaskDone(w) ==
  /\ pc[w] = "finish"
  /\ unfinished' = unfinished - 1
  /\ Goto(w, IF success[w] /\ req[w] # NoTable THEN "add" ELSE "check")
  /\ UNCHANGED <<job_queue, submitted, req, success, gateVars, lakeVars, boundVars>>

AddCompleted(w) ==
  /\ pc[w] = "add"
  /\ completed' = completed \cup {req[w]}
  /\ Goto(w, "check")
  /\ UNCHANGED <<req, success, queueVars, viewBuild, lakeVars, boundVars>>

(* The first critical section of maybe_run_views_after_full_pipeline.  The *)
(* three tests and the assignment are one step: they hold STATE_LOCK, and  *)
(* a put that slips between them commutes with the assignment.             *)
\* Variants: without the first test, and without the second.
ViewsDueDuringBuild == unfinished = 0 /\ completed # {}
ViewsDueWithWork == ~viewBuild /\ completed # {}

ViewsDue == ~viewBuild /\ unfinished = 0 /\ completed # {}

SkipViews(w) ==
  /\ pc[w] = "check"
  /\ ~ViewsDue
  /\ Goto(w, "get")
  /\ UNCHANGED <<req, success, queueVars, gateVars, lakeVars, boundVars>>

StartViews(w) ==
  /\ pc[w] = "check"
  /\ ViewsDue
  /\ viewBuild' = TRUE
  /\ todo' = Tables
  /\ skipped' = {}
  /\ Goto(w, "build")
  /\ UNCHANGED <<req, success, queueVars, completed, lake, torn, views, boundVars>>

(* ViewsOrchestrator.run reads the tables one after the other... *)
BuildView(w, t) ==
  /\ pc[w] = "build"
  /\ t \in todo
  /\ views' = [views EXCEPT ![t] = lake[t]]
  /\ torn' = torn \ {t}
  /\ todo' = todo \ {t}
  /\ UNCHANGED <<threadVars, queueVars, gateVars, lake, skipped, boundVars>>

(* ... and _run_view swallows the exception of a view that fails. *)
ViewFails(w, t) ==
  /\ pc[w] = "build"
  /\ t \in todo
  /\ viewFailures < MaxViewFailures
  /\ viewFailures' = viewFailures + 1
  /\ todo' = todo \ {t}
  /\ skipped' = skipped \cup {t}
  /\ UNCHANGED <<threadVars, queueVars, gateVars, lake, torn, views, crashes>>

ViewsDone(w) ==
  /\ pc[w] = "build"
  /\ todo = {}
  /\ Goto(w, "release")
  /\ UNCHANGED <<req, success, queueVars, gateVars, lakeVars, boundVars>>

\* Variant: nobody is notified.
ReleaseUnnotified(w) ==
  /\ pc[w] = "release"
  /\ viewBuild' = FALSE
  /\ completed' = {}
  /\ Goto(w, "get")
  /\ UNCHANGED <<req, success, queueVars, lakeVars, boundVars>>

(* The finally clause: the flag is dropped, COMPLETED_TABLES cleared and   *)
(* every thread in STATE_COND.wait woken.                                  *)
Release(w) ==
  /\ pc[w] = "release"
  /\ viewBuild' = FALSE
  /\ completed' = {}
  /\ pc' = [v \in Workers |->
              IF v = w THEN "get" ELSE IF pc[v] = "wait" THEN "gate" ELSE pc[v]]
  /\ UNCHANGED <<req, success, queueVars, lakeVars, boundVars>>

(* The process dies and the container restarts it: the queue, the flag and *)
(* COMPLETED_TABLES live in memory only, the lake and the views on disk.   *)
Crash ==
  /\ crashes < MaxCrashes
  /\ crashes' = crashes + 1
  /\ job_queue' = <<>>
  /\ unfinished' = 0
  /\ viewBuild' = FALSE
  /\ completed' = {}
  /\ pc' = [w \in Workers |-> "get"]
  /\ req' = [w \in Workers |-> NoTable]
  /\ success' = [w \in Workers |-> FALSE]
  /\ todo' = {}
  /\ skipped' = {}
  /\ UNCHANGED <<lake, torn, views, submitted, viewFailures>>
-----------------------------------------------------------------------------
Work(w) ==
  \/ Take(w) \/ WaitAtGate(w) \/ PassGate(w)
  \/ EtlSucceeds(w) \/ EtlFails(w)
  \/ TaskDone(w) \/ AddCompleted(w)
  \/ SkipViews(w) \/ StartViews(w)
  \/ \E t \in Tables : BuildView(w, t) \/ ViewFails(w, t)
  \/ ViewsDone(w) \/ Release(w)

Next ==
  \/ \E j \in Jobs : Submit(j)
  \/ \E w \in Workers : Work(w)
  \/ Crash

Spec == Init /\ [][Next]_vars

(* Every thread that can take a step eventually takes it.  Nothing obliges *)
(* a client to submit a job or the process to crash.                       *)
FairSpec == Spec /\ \A w \in Workers : WF_vars(Work(w))
-----------------------------------------------------------------------------
TypeOK ==
  /\ job_queue \in Seq(Jobs)
  /\ unfinished \in Nat
  /\ submitted \in 0 .. MaxJobs
  /\ viewBuild \in BOOLEAN
  /\ completed \in SUBSET Tables
  /\ pc \in [Workers -> Points]
  /\ req \in [Workers -> Jobs]
  /\ success \in [Workers -> BOOLEAN]
  /\ lake \in [Tables -> Nat]
  /\ torn \in SUBSET Tables
  /\ views \in [Tables -> Nat]
  /\ todo \in SUBSET Tables
  /\ skipped \in SUBSET Tables
  /\ viewFailures \in 0 .. MaxViewFailures
  /\ crashes \in 0 .. MaxCrashes

(* The workers holding a job that is not task_done yet *)
Holders == {w \in Workers : pc[w] \in {"gate", "wait", "run", "finish"}}

(* unfinished_tasks, which the gate decides on, counts the queued jobs and *)
(* the jobs the workers hold, whatever path a job took.                    *)
UnfinishedCountsWork ==
  unfinished = Len(job_queue) + Cardinality(Holders)

(* "Block new ETL work while views are being built" (line 269): no ETL job *)
(* runs while a view build does, whichever came first and however many     *)
(* workers there are.                                                      *)
NoEtlDuringViewBuild == viewBuild => \A w \in Workers : pc[w] # "run"

(* At most one thread is inside ViewsOrchestrator.run. *)
OneViewBuild ==
  \A v, w \in Workers :
    pc[v] \in {"build", "release"} /\ pc[w] \in {"build", "release"} => v = w

(* All views of one build are built from one state of the lake: a table    *)
(* already read has not been rewritten when the build ends.                *)
BuildSeesOneLake ==
  viewBuild => \A t \in Tables \ (todo \cup skipped) : views[t] = lake[t]

(* Clearing COMPLETED_TABLES loses nothing: a table the views lag behind   *)
(* is either still in COMPLETED_TABLES or about to be added by the worker  *)
(* that wrote it, unless the job that changed it last has failed, a view   *)
(* failed or the process died.                                             *)
Carries(w, t) == req[w] = t /\ success[w] /\ pc[w] \in {"finish", "add"}

NoStaleTableForgotten ==
  viewFailures = 0 /\ crashes = 0 =>
    \A t \in Tables \ torn : views[t] # lake[t] =>
      t \in completed \/ \E w \in Workers : Carries(w, t)

(* Every submitted job is eventually done (or lost in a crash): no worker  *)
(* sleeps at the gate for ever.                                            *)
JobsAreDone == unfinished # 0 ~> unfinished = 0

(* The views catch up with every table an ETL job wrote, once the clients  *)
(* stop submitting, unless the job failed, a view did or the process died. *)
ViewsCatchUp ==
  \A t \in Tables :
    views[t] # lake[t] ~>
      views[t] = lake[t] \/ t \in torn \/ viewFailures > 0 \/ crashes > 0
-----------------------------------------------------------------------------
(* The abstract specification this one implements. *)
Gate == INSTANCE EtlViewGate
          WITH running <- {w \in Workers : pc[w] = "run"},
               building <- viewBuild,
               stale <- {t \in Tables : views[t] # lake[t]}

(* Queue, lock, condition variable and the late clearing of                *)
(* COMPLETED_TABLES together keep what EtlViewGate promises.               *)
ImplementsGate == Gate!Spec
=============================================================================
