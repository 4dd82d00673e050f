------------------------- MODULE OrchestratorProofs -------------------------
(***************************************************************************)
(* Theorems about Orchestrator, for any number of workers, tables, jobs,   *)
(* view failures and crashes.  The invariants build on one another:        *)
(* counting (CountInv) shows that nothing runs when a view build starts,   *)
(* the gate (GateInv) keeps it so, and therefore the lake stands still     *)
(* while the views are read from it (LakeInv).                             *)
(***************************************************************************)
EXTENDS Orchestrator, FiniteSetTheorems, TLAPS

USE DEF Points, Jobs

(* What TypeOK needs of the control flow: a nameless job is never added. *)
CountInv ==
  /\ TypeOK
  /\ \A w \in Workers : pc[w] = "add" => req[w] \in Tables
  /\ UnfinishedCountsWork

GateInv ==
  /\ NoEtlDuringViewBuild
  /\ \A w \in Workers : pc[w] \in {"build", "release"} => viewBuild
  /\ OneViewBuild

LakeInv ==
  /\ BuildSeesOneLake
  /\ \A w \in Workers : pc[w] = "release" => todo = {}
  /\ viewFailures = 0 => skipped = {}
  /\ \A t \in Tables : views[t] <= lake[t]
  /\ NoStaleTableForgotten
-----------------------------------------------------------------------------
LEMMA HoldersFinite == IsFiniteSet(Holders) /\ Cardinality(Holders) \in Nat
<1>1. Holders \subseteq Workers
  BY DEF Holders
<1>2. IsFiniteSet(Holders)
  BY <1>1, WorkersAssumption, FS_Subset
<1> QED
  BY <1>2, FS_CardinalityType

LEMMA TakeCounts ==
  ASSUME CountInv, NEW w \in Workers, Take(w)
  PROVE  Cardinality(Holders') = Cardinality(Holders) + 1
<1>1. w \notin Holders /\ Holders' = Holders \cup {w}
  BY DEF CountInv, TypeOK, Take, Goto, Holders
<1> QED
  BY <1>1, HoldersFinite, FS_AddElement

LEMMA DoneCounts ==
  ASSUME CountInv, NEW w \in Workers, pc[w] \in {"gate", "wait", "run", "finish"},
         pc' = [pc EXCEPT ![w] = IF success[w] /\ req[w] # NoTable THEN "add" ELSE "check"]
  PROVE  /\ Cardinality(Holders') = Cardinality(Holders) - 1
         /\ Cardinality(Holders) > 0
<1>1. w \in Holders /\ Holders' = Holders \ {w}
  BY DEF CountInv, TypeOK, Holders
<1>2. Cardinality(Holders) # 0
  BY <1>1, HoldersFinite, FS_EmptySet
<1> QED
  BY <1>1, <1>2, HoldersFinite, FS_RemoveElement

LEMMA NothingHeld ==
  ASSUME CountInv, unfinished = 0
  PROVE  \A w \in Workers : pc[w] \notin {"gate", "wait", "run", "finish"}
<1>1. Len(job_queue) \in Nat
  BY DEF CountInv, TypeOK
<1>2. Cardinality(Holders) = 0
  BY <1>1, HoldersFinite DEF CountInv, UnfinishedCountsWork
<1> QED
  BY <1>2, HoldersFinite, FS_EmptySet DEF Holders
-----------------------------------------------------------------------------
LEMMA CountInit == Init => CountInv
<1> SUFFICES ASSUME Init PROVE CountInv
  OBVIOUS
<1> USE DEF Init
<1>1. TypeOK
  <2>1. success \in [Workers -> BOOLEAN]
    OBVIOUS
  <2>2. job_queue \in Seq(Jobs)
    OBVIOUS
  <2>3. pc \in [Workers -> Points] /\ req \in [Workers -> Jobs]
    OBVIOUS
  <2>4. lake \in [Tables -> Nat] /\ views \in [Tables -> Nat] /\ torn \in SUBSET Tables
    OBVIOUS
  <2>5. submitted \in 0 .. MaxJobs /\ viewFailures \in 0 .. MaxViewFailures
        /\ crashes \in 0 .. MaxCrashes
    BY BoundsAssumption
  <2> HIDE DEF Points, Jobs
  <2> QED
    BY <2>1, <2>2, <2>3, <2>4, <2>5 DEF TypeOK
<1>2. \A w \in Workers : pc[w] # "add"
  OBVIOUS
<1>3. Holders = {} /\ Len(job_queue) = 0
  BY DEF Holders
<1>4. UnfinishedCountsWork
  BY <1>3, FS_EmptySet DEF UnfinishedCountsWork
<1> QED
  BY <1>1, <1>2, <1>4 DEF CountInv

LEMMA CountNext == CountInv /\ [Next]_vars => CountInv'
<1> SUFFICES ASSUME CountInv, [Next]_vars PROVE CountInv'
  OBVIOUS
<1> USE DEF CountInv, TypeOK, UnfinishedCountsWork, Goto,
            queueVars, threadVars, gateVars, lakeVars, boundVars
<1>1. ASSUME NEW j \in Jobs, Submit(j) PROVE CountInv'
  <2>1. Holders' = Holders /\ Len(job_queue') = Len(job_queue) + 1
    BY <1>1 DEF Submit, Holders
  <2>2. TypeOK'
    BY <1>1, BoundsAssumption DEF Submit
  <2> QED
    BY <1>1, <2>1, <2>2, HoldersFinite DEF Submit
<1>2. ASSUME NEW w \in Workers, Take(w) PROVE CountInv'
  <2>1. Len(job_queue') = Len(job_queue) - 1 /\ Len(job_queue) \in Nat
    BY <1>2 DEF Take
  <2>2. Cardinality(Holders') = Cardinality(Holders) + 1
    BY <1>2, TakeCounts
  <2>3. TypeOK'
    BY <1>2 DEF Take
  <2> QED
    BY <1>2, <2>1, <2>2, <2>3, HoldersFinite DEF Take
<1>3. ASSUME NEW w \in Workers, WaitAtGate(w) \/ PassGate(w) \/ EtlSucceeds(w) \/ EtlFails(w)
      PROVE  CountInv'
  <2>1. Holders' = Holders
    BY <1>3 DEF WaitAtGate, PassGate, EtlSucceeds, EtlFails, Holders
  <2>2. TypeOK'
    <3>1. CASE WaitAtGate(w) \/ PassGate(w)
      BY <3>1 DEF WaitAtGate, PassGate
    <3>2. CASE EtlSucceeds(w) \/ EtlFails(w)
      <4>1. lake' \in [Tables -> Nat]
        BY <3>2 DEF EtlSucceeds, EtlFails, Rewrite
      <4> QED
        BY <3>2, <4>1 DEF EtlSucceeds, EtlFails
    <3> QED
      BY <1>3, <3>1, <3>2
  <2> QED
    BY <1>3, <2>1, <2>2 DEF WaitAtGate, PassGate, EtlSucceeds, EtlFails
<1>4. ASSUME NEW w \in Workers, TaskDone(w) PROVE CountInv'
  <2>1. /\ Cardinality(Holders') = Cardinality(Holders) - 1
        /\ Cardinality(Holders) > 0
    BY <1>4, DoneCounts DEF TaskDone
  <2>2. Len(job_queue) \in Nat
    OBVIOUS
  <2>3. unfinished > 0
    BY <2>1, <2>2, HoldersFinite
  <2>4. TypeOK'
    BY <1>4, <2>3 DEF TaskDone
  <2> QED
    BY <1>4, <2>1, <2>2, <2>4, HoldersFinite DEF TaskDone
<1>5. ASSUME NEW w \in Workers, AddCompleted(w) \/ SkipViews(w) \/ StartViews(w) \/ ViewsDone(w)
      PROVE  CountInv'
  <2>1. Holders' = Holders
    BY <1>5 DEF AddCompleted, SkipViews, StartViews, ViewsDone, Holders
  <2>2. TypeOK'
    BY <1>5 DEF AddCompleted, SkipViews, StartViews, ViewsDone
  <2> QED
    BY <1>5, <2>1, <2>2 DEF AddCompleted, SkipViews, StartViews, ViewsDone
<1>6. ASSUME NEW w \in Workers, NEW t \in Tables, BuildView(w, t) \/ ViewFails(w, t)
      PROVE  CountInv'
  <2>1. Holders' = Holders
    BY <1>6 DEF BuildView, ViewFails, Holders
  <2>2. TypeOK'
    <3>1. CASE BuildView(w, t)
      BY <3>1 DEF BuildView
    <3>2. CASE ViewFails(w, t)
      BY <3>2, BoundsAssumption DEF ViewFails
    <3> QED
      BY <1>6, <3>1, <3>2
  <2> QED
    BY <1>6, <2>1, <2>2 DEF BuildView, ViewFails
<1>7. ASSUME NEW w \in Workers, Release(w) PROVE CountInv'
  <2>1. Holders' = Holders
    BY <1>7 DEF Release, Holders
  <2>2. TypeOK'
    BY <1>7 DEF Release
  <2> QED
    BY <1>7, <2>1, <2>2 DEF Release
<1>8. CASE Crash
  <2>1. Holders' = {} /\ Len(job_queue') = 0
    BY <1>8 DEF Crash, Holders
  <2>2. TypeOK'
    <3>1. success' \in [Workers -> BOOLEAN]
      BY <1>8 DEF Crash
    <3>2. job_queue' \in Seq(Jobs)
      BY <1>8 DEF Crash
    <3>3. pc' \in [Workers -> Points] /\ req' \in [Workers -> Jobs]
      BY <1>8 DEF Crash
    <3>4. crashes' \in 0 .. MaxCrashes
      BY <1>8, BoundsAssumption DEF Crash
    <3>5. unfinished' \in Nat /\ todo' = {} /\ skipped' = {} /\ completed' = {} /\ viewBuild' = FALSE
      BY <1>8 DEF Crash
    <3>6. UNCHANGED <<lake, torn, views, submitted, viewFailures>>
      BY <1>8 DEF Crash
    <3> HIDE DEF Points, Jobs
    <3> QED
      BY <3>1, <3>2, <3>3, <3>4, <3>5, <3>6
  <2> QED
    BY <1>8, <2>1, <2>2, FS_EmptySet DEF Crash
<1>9. CASE UNCHANGED vars
  BY <1>9 DEF vars, Holders
<1> QED
  BY <1>1, <1>2, <1>3, <1>4, <1>5, <1>6, <1>7, <1>8, <1>9 DEF Next, Work

(* The queue's counter and every variable of the workers keep their types, *)
(* and unfinished_tasks counts the queued jobs and those the workers hold. *)
THEOREM TypeCorrect == Spec => [](TypeOK /\ UnfinishedCountsWork)
<1>1. Spec => []CountInv
  BY CountInit, CountNext, PTL DEF Spec
<1>2. CountInv => TypeOK /\ UnfinishedCountsWork
  BY DEF CountInv
<1> QED
  BY <1>1, <1>2, PTL

(* The first half by itself: types (automation_orchestrator_api.py) *)
COROLLARY TypesAreKept == Spec => []TypeOK
BY TypeCorrect, PTL
-----------------------------------------------------------------------------
LEMMA GateInit == Init => GateInv
BY DEF Init, GateInv, NoEtlDuringViewBuild, OneViewBuild

LEMMA GateNext == CountInv /\ GateInv /\ [Next]_vars => GateInv'
<1> SUFFICES ASSUME CountInv, GateInv, [Next]_vars PROVE GateInv'
  OBVIOUS
<1>0. pc \in [Workers -> Points]
  BY DEF CountInv, TypeOK
<1> USE <1>0 DEF GateInv, NoEtlDuringViewBuild, OneViewBuild, Goto,
                 queueVars, threadVars, gateVars, lakeVars, boundVars
<1>1. ASSUME NEW j \in Jobs, Submit(j) PROVE GateInv'
  BY <1>1 DEF Submit
<1>2. ASSUME NEW w \in Workers,
             Take(w) \/ WaitAtGate(w) \/ PassGate(w) \/ EtlSucceeds(w) \/ EtlFails(w)
      PROVE  GateInv'
  BY <1>2 DEF Take, WaitAtGate, PassGate, EtlSucceeds, EtlFails
<1>3. ASSUME NEW w \in Workers, TaskDone(w) \/ AddCompleted(w) \/ SkipViews(w)
      PROVE  GateInv'
  BY <1>3 DEF TaskDone, AddCompleted, SkipViews
<1>4. ASSUME NEW w \in Workers, StartViews(w) PROVE GateInv'
  <2>1. \A v \in Workers : pc[v] \notin {"run", "build", "release"}
    BY <1>4, NothingHeld DEF StartViews, ViewsDue
  <2> QED
    BY <1>4, <2>1 DEF StartViews
<1>5. ASSUME NEW w \in Workers, NEW t \in Tables, BuildView(w, t) \/ ViewFails(w, t)
      PROVE  GateInv'
  BY <1>5 DEF BuildView, ViewFails
<1>6. ASSUME NEW w \in Workers, ViewsDone(w) PROVE GateInv'
  BY <1>6 DEF ViewsDone
<1>7. ASSUME NEW w \in Workers, Release(w) PROVE GateInv'
  <2>1. \A v \in Workers : pc'[v] \notin {"build", "release"}
    BY <1>7 DEF Release
  <2> QED
    BY <1>7, <2>1 DEF Release
<1>8. CASE Crash
  BY <1>8 DEF Crash
<1>9. CASE UNCHANGED vars
  BY <1>9 DEF vars
<1> QED
  BY <1>1, <1>2, <1>3, <1>4, <1>5, <1>6, <1>7, <1>8, <1>9 DEF Next, Work

(* No ETL job and view build overlap, with any number of workers.  When a  *)
(* build starts unfinished_tasks is 0, so no worker is between get and     *)
(* task_done; while it lasts the gate stops those that take a job.         *)
THEOREM ViewBuildExcludesEtl == Spec => [](NoEtlDuringViewBuild /\ OneViewBuild)
<1>1. Spec => []CountInv
  BY CountInit, CountNext, PTL DEF Spec
<1>2. Spec => []GateInv
  BY <1>1, GateInit, GateNext, PTL DEF Spec
<1>3. GateInv => NoEtlDuringViewBuild /\ OneViewBuild
  BY DEF GateInv
<1> QED
  BY <1>2, <1>3, PTL

(* Two builds never overlap, although several workers may find the queue   *)
(* drained at once (maybe_run_views).                                      *)
COROLLARY BuildsDoNotOverlap == Spec => []OneViewBuild
BY ViewBuildExcludesEtl, PTL
-----------------------------------------------------------------------------
LEMMA LakeInit == Init => LakeInv
<1> SUFFICES ASSUME Init PROVE LakeInv
  OBVIOUS
<1>1. viewBuild = FALSE /\ skipped = {} /\ (\A w \in Workers : pc[w] = "get")
  BY DEF Init
<1>2. \A t \in Tables : views[t] = lake[t] /\ views[t] <= lake[t]
  BY DEF Init
<1> QED
  BY <1>1, <1>2 DEF LakeInv, BuildSeesOneLake, NoStaleTableForgotten

LEMMA LakeNext == CountInv /\ GateInv /\ LakeInv /\ [Next]_vars => LakeInv'
<1> SUFFICES ASSUME CountInv, GateInv, LakeInv, [Next]_vars PROVE LakeInv'
  OBVIOUS
<1>0. /\ pc \in [Workers -> Points] /\ req \in [Workers -> Jobs]
      /\ success \in [Workers -> BOOLEAN] /\ completed \in SUBSET Tables
      /\ lake \in [Tables -> Nat] /\ views \in [Tables -> Nat]
      /\ todo \in SUBSET Tables /\ skipped \in SUBSET Tables
      /\ viewFailures \in Nat /\ crashes \in Nat
  BY BoundsAssumption DEF CountInv, TypeOK
<1> USE <1>0 DEF LakeInv, BuildSeesOneLake, NoStaleTableForgotten, Carries, Goto,
                 queueVars, threadVars, gateVars, lakeVars, boundVars
<1>1. ASSUME NEW j \in Jobs, Submit(j) PROVE LakeInv'
  BY <1>1 DEF Submit
<1>2. ASSUME NEW w \in Workers, Take(w) PROVE LakeInv'
  BY <1>2 DEF Take
<1>3. ASSUME NEW w \in Workers, WaitAtGate(w) \/ PassGate(w) PROVE LakeInv'
  BY <1>3 DEF WaitAtGate, PassGate
<1>4. ASSUME NEW w \in Workers, EtlSucceeds(w) \/ EtlFails(w) PROVE LakeInv'
  <2>1. /\ ~viewBuild /\ UNCHANGED viewBuild
        /\ UNCHANGED <<views, todo, skipped, completed, boundVars>>
        /\ pc' = [pc EXCEPT ![w] = "finish"] /\ req' = req
    BY <1>4 DEF EtlSucceeds, EtlFails, GateInv, NoEtlDuringViewBuild
  <2>2. \A t \in Tables : views'[t] <= lake'[t]
    BY <1>4 DEF EtlSucceeds, EtlFails, Rewrite
  <2>3. \A v \in Workers, t \in Tables : Carries(v, t) => Carries(v, t)'
    BY <1>4 DEF EtlSucceeds, EtlFails
  <2>4. NoStaleTableForgotten'
    <3>1. CASE EtlSucceeds(w)
      <4>1. \A t \in Tables : t # req[w] => lake'[t] = lake[t] /\ (t \in torn' <=> t \in torn)
        BY <3>1 DEF EtlSucceeds, Rewrite
      <4>2. req'[w] = req[w] /\ success'[w] = TRUE /\ pc'[w] = "finish"
        BY <3>1 DEF EtlSucceeds
      <4> QED
        BY <2>1, <2>3, <4>1, <4>2
    <3>2. CASE EtlFails(w)
      <4>1. \A t \in Tables \ torn' : lake'[t] = lake[t] /\ t \notin torn
        BY <3>2 DEF EtlFails, Rewrite
      <4> QED
        BY <2>1, <2>3, <4>1
    <3> QED
      BY <1>4, <3>1, <3>2
  <2> QED
    BY <2>1, <2>2, <2>4
<1>5. ASSUME NEW w \in Workers, TaskDone(w) PROVE LakeInv'
  <2>1. \A v \in Workers, t \in Tables : Carries(v, t) => Carries(v, t)'
    BY <1>5, TablesAssumption DEF TaskDone
  <2> QED
    BY <1>5, <2>1 DEF TaskDone
<1>6. ASSUME NEW w \in Workers, AddCompleted(w) PROVE LakeInv'
  <2>1. \A v \in Workers, t \in Tables : Carries(v, t) => Carries(v, t)' \/ t \in completed'
    BY <1>6 DEF AddCompleted
  <2> QED
    BY <1>6, <2>1 DEF AddCompleted
<1>7. ASSUME NEW w \in Workers, SkipViews(w) PROVE LakeInv'
  BY <1>7 DEF SkipViews
<1>8. ASSUME NEW w \in Workers, StartViews(w) PROVE LakeInv'
  <2>1. \A v \in Workers : pc'[v] # "release"
    BY <1>8 DEF StartViews, ViewsDue, GateInv
  <2> QED
    BY <1>8, <2>1 DEF StartViews
<1>9. ASSUME NEW w \in Workers, NEW t \in Tables, BuildView(w, t) PROVE LakeInv'
  <2>1. views'[t] = lake[t] /\ \A u \in Tables \ {t} : views'[u] = views[u]
    BY <1>9 DEF BuildView
  <2> QED
    BY <1>9, <2>1 DEF BuildView
<1>10. ASSUME NEW w \in Workers, NEW t \in Tables, ViewFails(w, t) PROVE LakeInv'
  BY <1>10 DEF ViewFails
<1>11. ASSUME NEW w \in Workers, ViewsDone(w) PROVE LakeInv'
  BY <1>11 DEF ViewsDone
<1>12. ASSUME NEW w \in Workers, Release(w) PROVE LakeInv'
  <2>1. viewFailures = 0 => \A t \in Tables : views[t] = lake[t]
    BY <1>12 DEF Release, GateInv
  <2>2. \A v \in Workers : pc'[v] # "release"
    BY <1>12 DEF Release, GateInv, OneViewBuild
  <2> QED
    BY <1>12, <2>1, <2>2 DEF Release
<1>13. CASE Crash
  <2>1. crashes' # 0
    BY <1>13 DEF Crash
  <2> QED
    BY <1>13, <2>1 DEF Crash
<1>14. CASE UNCHANGED vars
  BY <1>14 DEF vars
<1> QED
  BY <1>1, <1>2, <1>3, <1>4, <1>5, <1>6, <1>7, <1>8, <1>9, <1>10, <1>11, <1>12,
     <1>13, <1>14 DEF Next, Work

LEMMA AllInv == Spec => [](CountInv /\ GateInv /\ LakeInv)
<1>1. Spec => []CountInv
  BY CountInit, CountNext, PTL DEF Spec
<1>2. Spec => []GateInv
  BY <1>1, GateInit, GateNext, PTL DEF Spec
<1>3. Spec => []LakeInv
  BY <1>1, <1>2, LakeInit, LakeNext, PTL DEF Spec
<1> QED
  BY <1>1, <1>2, <1>3, PTL

(* One view build reads one state of the lake, and clearing                *)
(* COMPLETED_TABLES at its end forgets no table the views lag behind.      *)
THEOREM ViewsAreConsistent == Spec => [](BuildSeesOneLake /\ NoStaleTableForgotten)
<1>1. LakeInv => BuildSeesOneLake /\ NoStaleTableForgotten
  BY DEF LakeInv
<1> QED
  BY <1>1, AllInv, PTL

(* All views of one build come from one state of the lake (run_views_only). *)
COROLLARY ViewsShareOneLake == Spec => []BuildSeesOneLake
BY ViewsAreConsistent, PTL
-----------------------------------------------------------------------------
LEMMA GateSpecInit == Init => Gate!Init
BY DEF Init, Gate!Init

LEMMA GateSpecNext ==
  CountInv /\ GateInv /\ LakeInv /\ [Next]_vars => [Gate!Next]_(Gate!vars)
<1> SUFFICES ASSUME CountInv, GateInv, LakeInv, [Next]_vars
             PROVE  Gate!Next \/ UNCHANGED Gate!vars
  OBVIOUS
<1>0. /\ pc \in [Workers -> Points] /\ req \in [Workers -> Jobs]
      /\ lake \in [Tables -> Nat] /\ views \in [Tables -> Nat]
  BY DEF CountInv, TypeOK
<1> DEFINE running == {w \in Workers : pc[w] = "run"}
           stale == {t \in Tables : views[t] # lake[t]}
<1>a. ASSUME running' = running, viewBuild' = viewBuild, stale' = stale
      PROVE  UNCHANGED Gate!vars
  BY <1>a DEF Gate!vars
<1> USE <1>0 DEF Goto, queueVars, threadVars, gateVars, lakeVars, boundVars
<1>1. ASSUME NEW j \in Jobs, Submit(j) PROVE UNCHANGED Gate!vars
  BY <1>1, <1>a DEF Submit
<1>2. ASSUME NEW w \in Workers, Take(w) \/ WaitAtGate(w) \/ TaskDone(w) \/ AddCompleted(w)
                                \/ SkipViews(w) \/ ViewsDone(w)
      PROVE  UNCHANGED Gate!vars
  <2>1. running' = running
    BY <1>2 DEF Take, WaitAtGate, TaskDone, AddCompleted, SkipViews, ViewsDone
  <2>2. viewBuild' = viewBuild /\ stale' = stale
    BY <1>2 DEF Take, WaitAtGate, TaskDone, AddCompleted, SkipViews, ViewsDone
  <2> QED
    BY <2>1, <2>2, <1>a
<1>3. ASSUME NEW w \in Workers, PassGate(w) PROVE Gate!StartEtl(w)
  BY <1>3 DEF PassGate, Gate!StartEtl
<1>4. ASSUME NEW w \in Workers, EtlSucceeds(w) \/ EtlFails(w) PROVE Gate!EndEtl(w)
  <2>1. w \in running /\ running' = running \ {w} /\ viewBuild' = viewBuild
    BY <1>4 DEF EtlSucceeds, EtlFails
  <2>2. stale' = stale \/ \E t \in Tables : stale' = stale \cup {t}
    <3>1. CASE UNCHANGED lake
      BY <1>4, <3>1 DEF EtlSucceeds, EtlFails
    <3>2. CASE Rewrite(req[w]) /\ req[w] \notin Tables
      BY <1>4, <3>2 DEF EtlSucceeds, EtlFails, Rewrite
    <3>3. CASE Rewrite(req[w]) /\ req[w] \in Tables
      <4>1. /\ views' = views
            /\ \A t \in Tables : lake'[t] = IF t = req[w] THEN lake[t] + 1 ELSE lake[t]
        BY <1>4, <3>3 DEF EtlSucceeds, EtlFails, Rewrite
      <4>2. views[req[w]] <= lake[req[w]]
        BY <3>3 DEF LakeInv
      <4>3. stale' = stale \cup {req[w]}
        BY <4>1, <4>2, <3>3
      <4> QED
        BY <4>3, <3>3
    <3> QED
      BY <1>4, <3>1, <3>2, <3>3 DEF EtlSucceeds, EtlFails
  <2> QED
    BY <2>1, <2>2 DEF Gate!EndEtl
<1>5. ASSUME NEW w \in Workers, StartViews(w) PROVE Gate!StartBuild
  <2>1. running = {}
    BY <1>5, NothingHeld DEF StartViews, ViewsDue
  <2>2. running' = running /\ stale' = stale
    BY <1>5 DEF StartViews
  <2> QED
    BY <1>5, <2>1, <2>2 DEF StartViews, ViewsDue, Gate!StartBuild
<1>6. ASSUME NEW w \in Workers, NEW t \in Tables, BuildView(w, t) PROVE Gate!Refresh(t)
  <2>1. viewBuild /\ running' = running /\ viewBuild' = viewBuild
    BY <1>6 DEF BuildView, GateInv
  <2>2. stale' = stale \ {t}
    BY <1>6 DEF BuildView
  <2> QED
    BY <2>1, <2>2 DEF Gate!Refresh
<1>7. ASSUME NEW w \in Workers, NEW t \in Tables, ViewFails(w, t) PROVE UNCHANGED Gate!vars
  BY <1>7, <1>a DEF ViewFails
<1>8. ASSUME NEW w \in Workers, Release(w) PROVE Gate!EndBuild
  <2>1. viewBuild /\ running' = running
    BY <1>8 DEF Release, GateInv
  <2>2. stale' = stale /\ viewBuild' = FALSE
    BY <1>8 DEF Release
  <2> QED
    BY <2>1, <2>2 DEF Gate!EndBuild
<1>9. ASSUME Crash PROVE Gate!Crash
  BY <1>9 DEF Crash, Gate!Crash
<1>10. ASSUME UNCHANGED vars PROVE UNCHANGED Gate!vars
  BY <1>10, <1>a DEF vars
<1> QED
  BY <1>1, <1>2, <1>3, <1>4, <1>5, <1>6, <1>7, <1>8, <1>9, <1>10
  DEF Next, Work, Gate!Next

(* The orchestrator implements EtlViewGate: each of its steps is one step  *)
(* of the abstract specification or changes nothing that one speaks of.    *)
THEOREM OrchestratorImplementsGate == Spec => ImplementsGate
<1>1. Spec => [](CountInv /\ GateInv /\ LakeInv)
  BY AllInv
<1>2. Init => Gate!Init
  BY GateSpecInit
<1>3. CountInv /\ GateInv /\ LakeInv /\ [Next]_vars => [Gate!Next]_(Gate!vars)
  BY GateSpecNext
<1> QED
  BY <1>1, <1>2, <1>3, PTL DEF Spec, ImplementsGate, Gate!Spec
=============================================================================
