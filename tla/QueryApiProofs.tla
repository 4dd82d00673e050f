--------------------------- MODULE QueryApiProofs ---------------------------
(***************************************************************************)
(* Theorems about QueryApi, for any number of requests, tenants, tables    *)
(* and threads.  JobInv says that a request is at one place, in the queue  *)
(* or on one thread, which makes answers final; ViewInv says that _sql_lock *)
(* and the order of registration make the filtered views those of one      *)
(* tenant.                                                                 *)
(***************************************************************************)
EXTENDS QueryApi, TLAPS

USE DEF Points, Goto, clientVars, threadVars, viewVars, sparkVars, boundVars

JobInv ==
  /\ \A i \in 1..Len(queue) : future[queue[i]] \in {"queued", "cancelled"}
  /\ \A i, j \in 1..Len(queue) : queue[i] = queue[j] => i = j
  /\ \A t \in Threads : pc[t] # "free" => work[t] \in Requests /\ future[work[t]] = "running"
  /\ \A t, u \in Threads : pc[t] # "free" /\ pc[u] # "free" /\ work[t] = work[u] => t = u

Cleared(t, b) == views[b] \in {None, TenantOf[work[t]]}

ViewInv ==
  /\ \A t \in Threads : pc[t] \in {"register", "execute"} => sqlLock = t
  /\ \A t \in Threads : pc[t] = "execute" => todo[t] = {}
  /\ \A t \in Threads : pc[t] \in {"register", "execute"} =>
       \A b \in Filtered \ todo[t] : Cleared(t, b)
-----------------------------------------------------------------------------
LEMMA TypeInit == Init => TypeOK
<1> SUFFICES ASSUME Init PROVE TypeOK
  OBVIOUS
<1> USE DEF Init
<1>1. queue \in Seq(Requests)
  OBVIOUS
<1>2. deaths \in 0..MaxDeaths /\ healths \in 0..MaxHealth
  BY BoundsAssumption
<1>3. /\ future \in [Requests -> {"none", "queued", "running", "ended", "cancelled"}]
      /\ answer \in [Requests -> {"none", "result", "timeout", "refused"}]
      /\ pc \in [Threads -> Points] /\ work \in [Threads -> Requests \cup {None}]
      /\ todo \in [Threads -> SUBSET Tables]
  OBVIOUS
<1>4. /\ hung \subseteq Threads /\ stale \subseteq Threads /\ sqlLock \in Threads \cup {None}
      /\ views \in [Tables -> Tenants \cup {None, Everyone}] /\ full \in BOOLEAN
      /\ spark \in {"up", "lost", "dead"} /\ sparkLock \in Threads \cup {None, "loop"}
      /\ loop \in {"free", "health", "build", "count"}
  OBVIOUS
<1> QED
  BY <1>1, <1>2, <1>3, <1>4 DEF TypeOK

(* End leaves every variable it assigns in its type. *)
LEMMA EndTypes ==
  ASSUME TypeOK, NEW t \in Threads, pc[t] # "free", JobInv, End(t)
  PROVE  /\ queue' = queue /\ answer' = answer /\ hung' = hung
         /\ future' \in [Requests -> {"none", "queued", "running", "ended", "cancelled"}]
         /\ pc' \in [Threads -> Points] /\ work' \in [Threads -> Requests \cup {None}]
         /\ todo' \in [Threads -> SUBSET Tables] /\ stale' \subseteq Threads
         /\ sqlLock' \in Threads \cup {None}
BY DEF End, TypeOK, JobInv

LEMMA TypeNext == TypeOK /\ JobInv /\ [Next]_vars => TypeOK'
<1> SUFFICES ASSUME TypeOK, JobInv, [Next]_vars PROVE TypeOK'
  OBVIOUS
<1> USE DEF TypeOK
<1>1. ASSUME NEW r \in Requests, Refuse(r) PROVE TypeOK'
  BY <1>1 DEF Refuse
<1>2. ASSUME NEW r \in Requests, RefuseStatement(r) PROVE TypeOK'
  BY <1>2 DEF RefuseStatement
<1>3. ASSUME NEW r \in Requests, Submit(r) PROVE TypeOK'
  BY <1>3 DEF Submit
<1>4. ASSUME NEW r \in Requests, Deliver(r) PROVE TypeOK'
  BY <1>4 DEF Deliver
<1>5. ASSUME NEW r \in Requests, TimeOut(r) PROVE TypeOK'
  BY <1>5 DEF TimeOut
<1>6. ASSUME Health PROVE TypeOK'
  BY <1>6, BoundsAssumption DEF Health
<1>7. CASE HealthSpark
  BY <1>7 DEF HealthSpark
<1>8. CASE HealthBuilt
  BY <1>8 DEF HealthBuilt
<1>9. CASE HealthDone
  BY <1>9 DEF HealthDone
<1>10. ASSUME NEW t \in Threads, Take(t) PROVE TypeOK'
  <2>1. Head(queue) \in Requests /\ Tail(queue) \in Seq(Requests)
    BY <1>10 DEF Take
  <2> QED
    BY <1>10, <2>1 DEF Take
<1>11. ASSUME NEW t \in Threads, GetSpark(t) PROVE TypeOK'
  BY <1>11 DEF GetSpark, Served
<1>12. ASSUME NEW t \in Threads, BuildSpark(t) PROVE TypeOK'
  <2>1. CASE End(t) /\ UNCHANGED <<spark, views>>
    <3>1. pc[t] # "free"
      BY <1>12 DEF BuildSpark
    <3> HIDE DEF Points
    <3> QED
      BY <1>12, <2>1, <3>1, EndTypes DEF BuildSpark
  <2>2. CASE spark' = "up" /\ Goto(t, Served(t))
             /\ UNCHANGED <<clientVars, work, todo, hung, stale, viewVars>>
    BY <1>12, <2>2 DEF BuildSpark, Served
  <2> QED
    BY <1>12, <2>1, <2>2 DEF BuildSpark
<1>13. ASSUME NEW t \in Threads, Read(t) PROVE TypeOK'
  <2>1. End(t)
    BY <1>13 DEF Read
  <2>2. pc[t] # "free"
    BY <1>13 DEF Read
  <2> HIDE DEF Points
  <2> QED
    BY <1>13, <2>1, <2>2, EndTypes DEF Read
<1>14. ASSUME NEW t \in Threads, TakeSqlLock(t) PROVE TypeOK'
  BY <1>14 DEF TakeSqlLock
<1>15. ASSUME NEW t \in Threads, NEW b \in Tables, Register(t, b) PROVE TypeOK'
  <2>1. work[t] \in Requests /\ TenantOf[work[t]] \in Tenants
    BY <1>15, TenantsAssumption DEF Register, JobInv
  <2>2. views' \in [Tables -> Tenants \cup {None, Everyone}]
    BY <1>15, <2>1 DEF Register, View
  <2>3. todo' \in [Threads -> SUBSET Tables]
    BY <1>15 DEF Register
  <2> QED
    BY <1>15, <2>2, <2>3 DEF Register
<1>16. ASSUME NEW t \in Threads, RegisterFails(t) PROVE TypeOK'
  <2>1. pc[t] # "free" /\ End(t)
    BY <1>16 DEF RegisterFails
  <2> HIDE DEF Points
  <2> QED
    BY <1>16, <2>1, EndTypes DEF RegisterFails
<1>17. ASSUME NEW t \in Threads, StartSql(t) PROVE TypeOK'
  BY <1>17 DEF StartSql
<1>18. ASSUME NEW t \in Threads, Execute(t) PROVE TypeOK'
  <2>1. End(t)
    BY <1>18 DEF Execute
  <2>2. pc[t] # "free"
    BY <1>18 DEF Execute
  <2> HIDE DEF Points
  <2> QED
    BY <1>18, <2>1, <2>2, EndTypes DEF Execute
<1>19. ASSUME NEW t \in Threads, Hang(t) PROVE TypeOK'
  BY <1>19 DEF Hang
<1>20. CASE SparkDies
  <2>1. UNCHANGED <<clientVars, pc, work, todo, sqlLock, sparkLock, healths, loop>>
    BY <1>20 DEF SparkDies
  <2>2. deaths' \in 0..MaxDeaths
    BY <1>20, BoundsAssumption DEF SparkDies
  <2>3. /\ views' \in [Tables -> Tenants \cup {None, Everyone}]
        /\ spark' \in {"up", "lost", "dead"} /\ hung' = {} /\ full' = FALSE /\ stale' \subseteq Threads
    BY <1>20 DEF SparkDies
  <2> QED
    BY <2>1, <2>2, <2>3
<1>21. CASE UNCHANGED vars
  BY <1>21 DEF vars
<1> HIDE DEF TypeOK
<1> QED
  BY <1>1, <1>2, <1>3, <1>4, <1>5, <1>6, <1>7, <1>8, <1>9, <1>10, <1>11, <1>12, <1>13,
     <1>14, <1>15, <1>16, <1>17, <1>18, <1>19, <1>20, <1>21 DEF Next, Loop, Run
-----------------------------------------------------------------------------
(* A thread that ends its job leaves the others where they are. *)
LEMMA EndKeepsJobs ==
  ASSUME TypeOK, JobInv, NEW t \in Threads, pc[t] # "free", End(t)
  PROVE  JobInv'
<1>1. work[t] \in Requests /\ future[work[t]] = "running"
  BY DEF JobInv
<1>2. pc' = [pc EXCEPT ![t] = "free"] /\ work' = [work EXCEPT ![t] = None]
      /\ future' = [future EXCEPT ![work[t]] = "ended"] /\ queue' = queue
  BY DEF End
<1>3. ASSUME NEW i \in 1..Len(queue) PROVE future'[queue[i]] \in {"queued", "cancelled"}
  BY <1>1, <1>2 DEF TypeOK, JobInv
<1>4. ASSUME NEW u \in Threads, pc'[u] # "free"
      PROVE  u # t /\ pc[u] # "free" /\ work'[u] = work[u]
  BY <1>2, <1>4 DEF TypeOK
<1>5. ASSUME NEW u \in Threads, pc'[u] # "free"
      PROVE  work'[u] \in Requests /\ future'[work'[u]] = "running"
  BY <1>1, <1>2, <1>4, <1>5 DEF TypeOK, JobInv
<1>6. ASSUME NEW u \in Threads, NEW v \in Threads, pc'[u] # "free", pc'[v] # "free",
             work'[u] = work'[v]
      PROVE  u = v
  BY <1>4, <1>6 DEF JobInv
<1> QED
  BY <1>2, <1>3, <1>5, <1>6 DEF JobInv

LEMMA JobNext == TypeOK /\ JobInv /\ [Next]_vars => JobInv'
<1> SUFFICES ASSUME TypeOK, JobInv, [Next]_vars PROVE JobInv'
  OBVIOUS
<1> USE DEF TypeOK
<1>1. CASE UNCHANGED <<queue, future, pc, work>>
  BY <1>1 DEF JobInv
<1>2. ASSUME NEW r \in Requests, Submit(r) PROVE JobInv'
  <2>1. queue' = Append(queue, r) /\ future' = [future EXCEPT ![r] = "queued"]
        /\ pc' = pc /\ work' = work /\ future[r] = "none"
    BY <1>2 DEF Submit
  <2>2. Len(queue') = Len(queue) + 1 /\ queue'[Len(queue) + 1] = r
        /\ \A i \in 1..Len(queue) : queue'[i] = queue[i] /\ queue[i] \in Requests /\ queue[i] # r
    BY <2>1, SMTT(30) DEF JobInv
  <2>3. \A t \in Threads : pc[t] # "free" => work[t] \in Requests /\ work[t] # r
    BY <2>1 DEF JobInv
  <2> QED
    BY <2>1, <2>2, <2>3 DEF JobInv
<1>3. ASSUME NEW r \in Requests, TimeOut(r) PROVE JobInv'
  BY <1>3 DEF TimeOut, JobInv
<1>4. ASSUME NEW t \in Threads, Take(t) PROVE JobInv'
  <2> DEFINE r == Head(queue)
  <2>1. /\ queue # <<>> /\ queue' = Tail(queue) /\ r \in Requests /\ r = queue[1]
        /\ Len(queue') = Len(queue) - 1 /\ Len(queue) \in Nat
        /\ \A i \in 1..Len(queue') : i + 1 \in 1..Len(queue) /\ queue'[i] = queue[i + 1]
    BY <1>4 DEF Take
  <2>2. 1 \in 1..Len(queue) /\ future[r] \in {"queued", "cancelled"}
    BY <2>1 DEF JobInv
  <2>3. CASE future[r] = "cancelled"
    <3>1. UNCHANGED <<future, pc, work>>
      BY <1>4, <2>3 DEF Take
    <3> QED
      BY <2>1, <3>1 DEF JobInv
  <2>4. CASE future[r] # "cancelled"
    <3>1. /\ future' = [future EXCEPT ![r] = "running"] /\ work' = [work EXCEPT ![t] = r]
          /\ pc' = [pc EXCEPT ![t] = "spark"]
      BY <1>4, <2>4 DEF Take
    <3>2. \A i \in 1..Len(queue') : queue'[i] # r /\ queue'[i] \in Requests
                                    /\ future[queue'[i]] \in {"queued", "cancelled"}
      BY <2>1, <2>2 DEF JobInv
    <3>3. \A i, j \in 1..Len(queue') : queue'[i] = queue'[j] => i = j
      BY <2>1 DEF JobInv
    <3>4. \A u \in Threads \ {t} : pc'[u] = pc[u] /\ work'[u] = work[u]
      BY <3>1
    <3>5. \A u \in Threads \ {t} : pc[u] # "free" => work[u] \in Requests /\ work[u] # r
      BY <2>2 DEF JobInv
    <3>6. work'[t] = r
      BY <3>1
    <3> QED
      BY <2>1, <3>1, <3>2, <3>3, <3>4, <3>5, <3>6 DEF JobInv
  <2> QED
    BY <2>3, <2>4
<1>5. ASSUME NEW t \in Threads, pc[t] # "free", UNCHANGED <<queue, future, work>>,
             NEW p \in Points, pc' = [pc EXCEPT ![t] = p]
      PROVE  JobInv'
  BY <1>5 DEF JobInv
<1>6. ASSUME NEW t \in Threads, pc[t] # "free", End(t)
      PROVE  JobInv'
  BY <1>6, EndKeepsJobs
<1>7. ASSUME NEW t \in Threads, Run(t) PROVE JobInv'
  <2>1. CASE GetSpark(t)
    BY <1>5, <2>1 DEF GetSpark, Served
  <2>2. CASE BuildSpark(t)
    BY <1>5, <1>6, <2>2 DEF BuildSpark, Served
  <2>3. CASE Read(t)
    BY <1>6, <2>3 DEF Read
  <2>4. CASE TakeSqlLock(t)
    BY <1>5, <2>4 DEF TakeSqlLock
  <2>5. ASSUME NEW b \in Tables, Register(t, b) PROVE JobInv'
    BY <1>1, <2>5 DEF Register
  <2>6. CASE RegisterFails(t)
    BY <1>6, <2>6 DEF RegisterFails
  <2>7. CASE StartSql(t)
    BY <1>5, <2>7 DEF StartSql
  <2>8. CASE Execute(t)
    BY <1>6, <2>8 DEF Execute
  <2> QED
    BY <1>4, <1>7, <2>1, <2>2, <2>3, <2>4, <2>5, <2>6, <2>7, <2>8 DEF Run
<1> QED
  BY <1>1, <1>2, <1>3, <1>7
  DEF Next, Loop, Refuse, RefuseStatement, Deliver, Health, HealthSpark, HealthBuilt,
      HealthDone, Hang, SparkDies, vars
-----------------------------------------------------------------------------
LEMMA ViewNext == TypeOK /\ JobInv /\ ViewInv /\ [Next]_vars => ViewInv'
<1> SUFFICES ASSUME TypeOK, JobInv, ViewInv, [Next]_vars PROVE ViewInv'
  OBVIOUS
<1> USE DEF TypeOK, ViewInv, Cleared
<1>1. CASE UNCHANGED <<pc, work, todo, sqlLock, views>>
  BY <1>1
<1>2. ASSUME NEW t \in Threads, pc[t] # "free", End(t), UNCHANGED views
      PROVE  ViewInv'
  <2>1. /\ pc' = [pc EXCEPT ![t] = "free"] /\ work' = [work EXCEPT ![t] = None]
        /\ todo' = [todo EXCEPT ![t] = {}] /\ sqlLock' = IF sqlLock = t THEN None ELSE sqlLock
    BY <1>2 DEF End
  <2>2. \A u \in Threads : pc'[u] \in {"register", "execute"} =>
          u # t /\ pc[u] = pc'[u] /\ work'[u] = work[u] /\ todo'[u] = todo[u] /\ sqlLock' = u
    BY <2>1
  <2> QED
    BY <1>2, <2>2
<1>3. ASSUME NEW t \in Threads, NEW p \in Points \ {"register", "execute"},
             pc' = [pc EXCEPT ![t] = p], UNCHANGED <<todo, sqlLock, views>>,
             \A u \in Threads \ {t} : work'[u] = work[u]
      PROVE  ViewInv'
  BY <1>3
<1>4. ASSUME NEW t \in Threads, Take(t) PROVE ViewInv'
  <2>1. CASE future[Head(queue)] = "cancelled"
    BY <1>1, <1>4, <2>1 DEF Take
  <2>2. CASE future[Head(queue)] # "cancelled"
    BY <1>3, <1>4, <2>2, SMTT(60) DEF Take
  <2> QED
    BY <2>1, <2>2
<1>5. ASSUME NEW t \in Threads, TakeSqlLock(t) PROVE ViewInv'
  <2>1. /\ sqlLock = None /\ sqlLock' = t /\ todo' = [todo EXCEPT ![t] = Tables]
        /\ pc' = [pc EXCEPT ![t] = "register"] /\ UNCHANGED <<work, views>>
    BY <1>5 DEF TakeSqlLock
  <2>2. \A u \in Threads : pc[u] \notin {"register", "execute"}
    BY <2>1, NoneAssumption
  <2> QED
    BY <2>1, <2>2, TablesAssumption
<1>6. ASSUME NEW t \in Threads, NEW b \in Tables, Register(t, b) PROVE ViewInv'
  <2>1. /\ pc[t] = "register" /\ todo' = [todo EXCEPT ![t] = todo[t] \ {b}]
        /\ UNCHANGED <<pc, work, sqlLock>>
        /\ \A c \in Tables \ {b} : views'[c] = views[c]
        /\ b \in Filtered => views'[b] \in {None, TenantOf[work[t]]}
    BY <1>6 DEF Register, View
  <2>2. \A u \in Threads \ {t} : pc[u] \notin {"register", "execute"}
    BY <2>1
  <2>3. todo'[t] = todo[t] \ {b}
    BY <2>1
  <2> QED
    BY <2>1, <2>2, <2>3, TablesAssumption
<1>7. ASSUME NEW t \in Threads, StartSql(t) PROVE ViewInv'
  BY <1>7 DEF StartSql
<1>8. CASE SparkDies
  <2>1. UNCHANGED <<pc, work, todo, sqlLock>> /\ \A b \in Tables : views'[b] = None
    BY <1>8 DEF SparkDies
  <2> QED
    BY <2>1, TablesAssumption
<1>9. ASSUME NEW t \in Threads, Run(t) PROVE ViewInv'
  <2>1. CASE GetSpark(t)
    BY <1>3, <2>1 DEF GetSpark, Served
  <2>2. CASE BuildSpark(t)
    BY <1>2, <1>3, <2>2 DEF BuildSpark, Served
  <2>3. CASE Read(t)
    BY <1>2, <2>3 DEF Read
  <2>4. CASE RegisterFails(t)
    BY <1>2, <2>4 DEF RegisterFails
  <2>5. CASE Execute(t)
    BY <1>2, <2>5 DEF Execute
  <2> QED
    BY <1>4, <1>5, <1>6, <1>7, <1>9, <2>1, <2>2, <2>3, <2>4, <2>5 DEF Run
<1> QED
  BY <1>1, <1>8, <1>9
  DEF Next, Loop, Refuse, RefuseStatement, Submit, Deliver, TimeOut, Health, HealthSpark,
      HealthBuilt, HealthDone, Hang, vars
-----------------------------------------------------------------------------
LEMMA AllInv == Spec => [](TypeOK /\ JobInv /\ ViewInv)
<1>1. Init => TypeOK /\ JobInv /\ ViewInv
  <2>1. Init => JobInv /\ ViewInv
    BY TablesAssumption DEF Init, JobInv, ViewInv, Cleared
  <2> QED
    BY <2>1, TypeInit
<1>2. TypeOK /\ JobInv /\ ViewInv /\ [Next]_vars => (TypeOK /\ JobInv /\ ViewInv)'
  BY TypeNext, JobNext, ViewNext
<1> QED
  BY <1>1, <1>2, PTL DEF Spec

(* The variables of the API keep their types, for any number of requests,   *)
(* threads and tables (lakehouse_query_api.py).                             *)
THEOREM TypeCorrect == Spec => []TypeOK
BY AllInv, PTL

(* Whatever fails and however jobs interleave, the views of tables with a   *)
(* tenant_id that a statement runs over are filtered for its own tenant     *)
(* (_execute_sql_sync under _sql_lock).                                     *)
THEOREM StatementsAreIsolated == Spec => []SqlSeesOwnTenant
<1>1. ViewInv => SqlSeesOwnTenant
  BY DEF ViewInv, Cleared, SqlSeesOwnTenant
<1> QED
  BY <1>1, AllInv, PTL

(* An answer is never changed, and a job cancelled in the queue never runs  *)
(* (run_in_executor).                                                       *)
THEOREM AnswersStay == Spec => AnswersAreFinal
<1> DEFINE Final(r) == /\ answer[r] # "none" => answer'[r] = answer[r]
                       /\ future[r] = "cancelled" => future'[r] = "cancelled"
<1>1. TypeOK /\ JobInv /\ [Next]_vars => [\A r \in Requests : Final(r)]_vars
  <2> SUFFICES ASSUME TypeOK, JobInv, [Next]_vars, NEW r \in Requests PROVE Final(r)
    OBVIOUS
  <2> USE DEF TypeOK
  <2>1. CASE UNCHANGED <<answer, future>>
    BY <2>1
  <2>2. ASSUME NEW q \in Requests,
               Refuse(q) \/ RefuseStatement(q) \/ Submit(q) \/ Deliver(q) \/ TimeOut(q)
        PROVE  Final(r)
    BY <2>2 DEF Refuse, RefuseStatement, Submit, Deliver, TimeOut
  <2>3. ASSUME NEW t \in Threads, Take(t) PROVE Final(r)
    <3>1. Head(queue) \in Requests
      BY <2>3 DEF Take
    <3> QED
      BY <2>3, <3>1 DEF Take
  <2>4. ASSUME NEW t \in Threads, pc[t] # "free", End(t)
        PROVE  Final(r)
    BY <2>4 DEF End, JobInv
  <2>5. ASSUME NEW t \in Threads, Run(t) PROVE Final(r)
    <3>1. CASE BuildSpark(t)
      BY <2>1, <2>4, <3>1 DEF BuildSpark
    <3>2. CASE Read(t)
      BY <2>4, <3>2 DEF Read
    <3>3. CASE RegisterFails(t)
      BY <2>4, <3>3 DEF RegisterFails
    <3>4. CASE Execute(t)
      BY <2>4, <3>4 DEF Execute
    <3>5. CASE GetSpark(t) \/ TakeSqlLock(t) \/ StartSql(t) \/ \E b \in Tables : Register(t, b)
      BY <2>1, <3>5 DEF GetSpark, TakeSqlLock, StartSql, Register
    <3> QED
      BY <2>3, <2>5, <3>1, <3>2, <3>3, <3>4, <3>5 DEF Run
  <2> QED
    BY <2>1, <2>2, <2>5
    DEF Next, Loop, Health, HealthSpark, HealthBuilt, HealthDone, Hang, SparkDies, vars
<1> QED
  BY <1>1, AllInv, PTL DEF Spec, AnswersAreFinal
=============================================================================
