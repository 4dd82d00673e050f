----------------------- MODULE DocPipelineStoreProofs -----------------------
(***************************************************************************)
(* What the stores of DocPipeline agree on: theorems that build on the     *)
(* types and the ownership of calls proved in DocPipelineProofs.           *)
(***************************************************************************)
EXTENDS DocPipelineProofs, FiniteSetTheorems

(* A run that has indexed its document may complete it. *)
IndexedInv ==
  /\ CompletedIsIndexed
  /\ \A r \in Runs : pc[r] \in {"nifi", "complete"} => doc[r] \in solr

(* A PUT that will be accepted carries the body that is there. *)
BodyInv ==
  /\ CmsFieldsSurvive
  /\ \A u \in Updaters : upd[u].phase = "put" /\ upd[u].fresh =>
       upd[u].body = body[upd[u].doc]
-----------------------------------------------------------------------------
(* A run changes no document in CouchDB by itself: it starts and ends      *)
(* calls of updateStatus, of its own or not awaited.                       *)
LEMMA RunEffects ==
  ASSUME Inv, NEW r \in Runs, Tick(r) \/ RunStep(r)
  PROVE  /\ UNCHANGED <<status, body, cms>>
         /\ solr \subseteq solr'
         /\ \A u \in Updaters : upd'[u] = upd[u] \/ upd'[u].phase \in {"off", "get"}
<1> USE DEF storeVars, sinkVars, runVars, boundVars
<1>1. upd \in [Updaters -> Frames] /\ r \in Updaters
      /\ \A q \in Runs : pc[q] \in Busy => doc[q] \in Docs
  BY DEF Inv, TypeOK, CallInv, Updaters
<1>2. \A d \in Docs : \A s \in {"PROCESSING", "COMPLETED", "ERROR"} : Call(d, s).phase = "get"
  BY FrameTypes DEF Statuses
<1>3. NoCall.phase = "off"
  BY FrameTypes
<1>4. CASE Tick(r) \/ Find(r) \/ FindFails(r) \/ RunDone(r) \/ Extract(r) \/ Index(r)
  BY <1>4 DEF Tick, Find, FindFails, RunDone, Extract, Index
<1>5. CASE Begin(r)
  <2>1. batch[r] \subseteq Docs
    BY DEF Inv, TypeOK
  <2> QED
    BY <1>1, <1>2, <1>5, <2>1 DEF Begin
<1>6. CASE Marked(r) \/ DocDone(r)
  BY <1>1, <1>3, <1>6 DEF Marked, DocDone
<1>7. CASE ExtractFails(r) \/ IndexFails(r) \/ UpdateThrew(r)
  BY <1>1, <1>2, <1>7 DEF ExtractFails, IndexFails, UpdateThrew, Fail, Update, Busy
<1>8. CASE Forward(r)
  BY <1>1, <1>2, <1>8 DEF Forward, Update, Busy
<1>9. CASE ForwardFails(r)
  BY <1>1, <1>2, <1>9 DEF ForwardFails, Busy, Updaters
<1> QED
  BY <1>4, <1>5, <1>6, <1>7, <1>8, <1>9 DEF RunStep

(* An accepted PUT writes the status of the run's point, or ERROR. *)
LEMMA WriteStatus ==
  ASSUME Inv, NEW u \in Updaters, NEW p, Write(u, p)
  PROVE  /\ upd[u].doc \in Docs
         /\ status' = [status EXCEPT ![upd[u].doc] = upd[u].status]
         /\ \/ u \in Forks /\ upd[u].status = "ERROR" /\ faults > 0
            \/ /\ u \in Runs /\ pc[u] \in {"mark", "complete", "fail"}
               /\ upd[u].doc = doc[u] /\ upd[u].status = StatusAt(pc[u])
BY DEF Inv, CallInv, Write, Updaters, Busy
-----------------------------------------------------------------------------
LEMMA IndexedNext == Inv /\ IndexedInv /\ [Next]_vars => IndexedInv'
<1> SUFFICES ASSUME Inv, IndexedInv, [Next]_vars PROVE IndexedInv'
  OBVIOUS
<1> USE DEF storeVars, sinkVars, runVars, boundVars
<1>1. pc \in [Runs -> Points] /\ doc \in [Runs -> 0 .. N] /\ status \in [Docs -> Statuses]
  BY DEF Inv, TypeOK
<1>2. ASSUME NEW r \in Runs, Tick(r) \/ RunStep(r) PROVE IndexedInv'
  <2>1. UNCHANGED status /\ solr \subseteq solr'
    BY <1>2, RunEffects
  <2>2. pc'[r] \in {"nifi", "complete"} => doc'[r] \in solr'
    BY <1>1, <1>2 DEF Tick, SafeRun, RunStep, Find, FindFails, RunDone, EndRun, Begin,
         Marked, Extract, ExtractFails, Index, IndexFails, Forward, ForwardFails,
         UpdateThrew, DocDone, Goto, Update, Fail, IndexedInv
  <2>3. \A q \in Runs : q # r => pc'[q] = pc[q] /\ doc'[q] = doc[q]
    BY <1>1, <1>2 DEF Tick, SafeRun, RunStep, Find, FindFails, RunDone, EndRun, Begin,
         Marked, Extract, ExtractFails, Index, IndexFails, Forward, ForwardFails,
         UpdateThrew, DocDone, Goto, Update, Fail
  <2> QED
    BY <2>1, <2>2, <2>3 DEF IndexedInv, CompletedIsIndexed
<1>3. ASSUME NEW u \in Updaters, Request(u) PROVE IndexedInv'
  <2>1. UNCHANGED <<solr, pc, doc>>
    BY <1>3, RequestCalls
  <2>2. CompletedIsIndexed'
    <3>1. CASE UNCHANGED status
      BY <2>1, <3>1 DEF IndexedInv, CompletedIsIndexed
    <3>2. ASSUME NEW p, Write(u, p) PROVE CompletedIsIndexed'
      BY <1>1, <2>1, <3>2, WriteStatus DEF StatusAt, IndexedInv, CompletedIsIndexed
    <3> QED
      BY <1>3, <3>1, <3>2 DEF Request, Get, Put, PutAnswerLost, PutConflict, RequestFails
  <2> QED
    BY <2>1, <2>2 DEF IndexedInv
<1>4. ASSUME Die PROVE IndexedInv'
  BY <1>4 DEF Die, IndexedInv, CompletedIsIndexed
<1>5. ASSUME NEW f \in Forks, ForkStep(f) PROVE IndexedInv'
  BY <1>4, <1>5 DEF ForkStep, ForkDone, ForkThrew, IndexedInv, CompletedIsIndexed
<1>6. CASE Boot
  BY <1>1, <1>6 DEF Boot, Exit, Start, SafeRun, Goto, IndexedInv, CompletedIsIndexed
<1>7. CASE Crash
  BY <1>4, <1>7 DEF Crash
<1>8. ASSUME NEW d \in Docs, NEW archived \in BOOLEAN, CmsWrite(d, archived) PROVE IndexedInv'
  BY <1>8 DEF CmsWrite, IndexedInv, CompletedIsIndexed
<1>9. CASE UNCHANGED vars
  BY <1>9 DEF vars, IndexedInv, CompletedIsIndexed
<1> QED
  BY <1>2, <1>3, <1>5, <1>6, <1>7, <1>8, <1>9 DEF Next

(* A document is never COMPLETED without its text in Solr: a failed update *)
(* of Solr is rethrown before COMPLETED is asked for, and the updates that *)
(* nobody awaits write ERROR only.                                         *)
THEOREM CompletedImpliesIndexed == Spec => []CompletedIsIndexed
<1>1. Init => IndexedInv
  BY DEF Init, IndexedInv, CompletedIsIndexed
<1>2. IndexedInv => CompletedIsIndexed
  BY DEF IndexedInv
<1> QED
  BY <1>1, <1>2, InvInit, InvNext, IndexedNext, PTL DEF Spec
-----------------------------------------------------------------------------
LEMMA BodyNext == Inv /\ BodyInv /\ [Next]_vars => BodyInv'
<1> SUFFICES ASSUME Inv, BodyInv, [Next]_vars PROVE BodyInv'
  OBVIOUS
<1> USE DEF storeVars, sinkVars, runVars, boundVars
<1>1. upd \in [Updaters -> Frames] /\ body \in [Docs -> Bodies] /\ TypeOK
  BY DEF Inv, TypeOK
<1>2. ASSUME UNCHANGED <<body, cms>>,
             \A u \in Updaters : upd'[u] = upd[u] \/ upd'[u].phase # "put"
      PROVE  BodyInv'
  BY <1>2 DEF BodyInv, CmsFieldsSurvive
<1>3. ASSUME NEW r \in Runs, Tick(r) \/ RunStep(r) PROVE BodyInv'
  BY <1>2, <1>3, RunEffects
<1>4. ASSUME NEW u \in Updaters, Request(u) PROVE BodyInv'
  <2>1. CASE Get(u)
    BY <1>1, <2>1 DEF Get, BodyInv, CmsFieldsSurvive, Frames
  <2>2. ASSUME NEW p \in {"ok", "threw"}, Write(u, p) PROVE BodyInv'
    <3>1. upd[u].body = body[upd[u].doc] /\ upd[u].doc \in Docs
      BY <2>2, WriteStatus DEF Write, BodyInv
    <3>2. body' = body /\ cms' = cms
      BY <1>1, <2>2, <3>1 DEF Write
    <3>3. /\ upd'[u].phase # "put"
          /\ \A v \in Updaters : v # u => upd'[v] = Outdated(upd[u].doc)[v]
      BY <1>1, <2>2, FrameTypes, OutdatedFrames DEF Write, Phases
    <3> QED
      BY <1>1, <3>2, <3>3, OutdatedFrames DEF BodyInv, CmsFieldsSurvive, Frames
  <2>3. CASE PutConflict(u)
    <3>1. upd'[u].phase # "put"
      BY <1>1, <2>3 DEF PutConflict, Frame, Outcome
    <3>2. \A v \in Updaters : v # u => upd'[v] = upd[v]
      BY <1>1, <2>3 DEF PutConflict
    <3> QED
      BY <1>2, <2>3, <3>1, <3>2 DEF PutConflict
  <2>4. CASE RequestFails(u)
    BY <1>1, <1>2, <2>4 DEF RequestFails, Frame, Outcome
  <2> QED
    BY <1>4, <2>1, <2>2, <2>3, <2>4 DEF Request, Put, PutAnswerLost
<1>5. ASSUME Die PROVE BodyInv'
  BY <1>2, <1>5, FrameTypes DEF Die
<1>6. ASSUME NEW f \in Forks, ForkStep(f) PROVE BodyInv'
  BY <1>1, <1>2, <1>5, <1>6, FrameTypes DEF ForkStep, ForkDone, ForkThrew
<1>7. CASE Boot
  BY <1>2, <1>7 DEF Boot, Exit, Start
<1>8. CASE Crash
  BY <1>5, <1>8 DEF Crash
<1>9. ASSUME NEW d \in Docs, NEW archived \in BOOLEAN, CmsWrite(d, archived) PROVE BodyInv'
  <2>1. cms' = body' /\ upd' = Outdated(d)
        /\ \A e \in Docs : e # d => body'[e] = body[e]
    BY <1>1, <1>9 DEF CmsWrite
  <2>2. ASSUME NEW u \in Updaters, upd'[u].phase = "put", upd'[u].fresh
        PROVE  upd'[u].body = body'[upd'[u].doc]
    <3>1. upd[u].doc # d /\ upd'[u] = upd[u]
      BY <1>1, <2>1, <2>2, OutdatedFrames
    <3>2. upd[u].doc \in Docs
      BY <2>2, <3>1 DEF Inv, CallInv, Updaters, Busy
    <3> QED
      BY <2>1, <2>2, <3>1, <3>2 DEF BodyInv
  <2> QED
    BY <2>1, <2>2 DEF BodyInv, CmsFieldsSurvive
<1>10. CASE UNCHANGED vars
  BY <1>2, <1>10 DEF vars
<1> QED
  BY <1>3, <1>4, <1>6, <1>7, <1>8, <1>9, <1>10 DEF Next

(* The read, the revision check and the retries of updateStatus lose no    *)
(* write of case management, whoever writes in between.                    *)
THEOREM CmsWritesAreKept == Spec => []CmsFieldsSurvive
<1>1. Init => BodyInv
  BY FrameTypes DEF Init, BodyInv, CmsFieldsSurvive
<1>2. BodyInv => CmsFieldsSurvive
  BY DEF BodyInv
<1> QED
  BY <1>1, <1>2, InvInit, InvNext, BodyNext, PTL DEF Spec
-----------------------------------------------------------------------------
(* A run that has yet to confirm COMPLETED *)
Pending(r) ==
  \/ pc[r] \in {"mark", "extract", "solr", "nifi"}
  \/ pc[r] = "complete" /\ upd[r].phase \in {"get", "put"}

(* A run on its way to ERROR *)
Failing(r) ==
  \/ pc[r] = "fail"
  \/ pc[r] = "complete" /\ upd[r].phase = "threw"

(* What a run has found not to be COMPLETED stays so until it gets there:  *)
(* runs do not overlap, and the updates not awaited write ERROR.           *)
FinalInv ==
  /\ \A r \in Runs : pc[r] \in {"off", "find"} => doc[r] = 0
  /\ \A r \in Runs : pc[r] \notin {"off", "find"} =>
       doc[r] \notin batch[r] /\ \A d \in batch[r] : status[d] # "COMPLETED"
  /\ \A r \in Runs : Pending(r) => status[doc[r]] # "COMPLETED"
  /\ \A r \in Runs : Failing(r) /\ status[doc[r]] = "COMPLETED" => faults > 0

LEMMA RunIsLocal ==
  ASSUME Inv, NEW r \in Runs, Tick(r) \/ RunStep(r), NEW q \in Runs, q # r
  PROVE  pc'[q] = pc[q] /\ doc'[q] = doc[q] /\ batch'[q] = batch[q] /\ upd'[q] = upd[q]
<1>1. /\ pc \in [Runs -> Points] /\ doc \in [Runs -> 0 .. N] /\ batch \in [Runs -> SUBSET Docs]
      /\ upd \in [Updaters -> Frames] /\ q \in Updaters /\ q \notin Forks
  BY ConstAssumption DEF Inv, TypeOK, Updaters
<1> QED
  BY <1>1 DEF Tick, SafeRun, RunStep, Find, FindFails, RunDone, EndRun, Begin,
     Marked, Extract, ExtractFails, Index, IndexFails, Forward, ForwardFails,
     UpdateThrew, DocDone, Goto, Update, Fail, runVars

LEMMA FinalRun ==
  ASSUME Inv, FinalInv, NEW r \in Runs, Tick(r) \/ RunStep(r)
  PROVE  FinalInv'
<1> USE DEF storeVars, sinkVars, runVars, boundVars, Goto
<1>1. /\ pc \in [Runs -> Points] /\ doc \in [Runs -> 0 .. N] /\ batch \in [Runs -> SUBSET Docs]
      /\ upd \in [Updaters -> Frames] /\ r \in Updaters /\ r \notin Forks
  BY ConstAssumption DEF Inv, TypeOK, Updaters
<1>2. faults \in Nat /\ faults' \in Nat /\ faults' >= faults
  <2>1. faults \in Nat
    BY ConstAssumption DEF Inv, TypeOK
  <2> QED
    BY <2>1 DEF Tick, SafeRun, RunStep, Find, FindFails, RunDone, Begin,
       Marked, Extract, ExtractFails, Index, IndexFails, Forward, ForwardFails,
       UpdateThrew, DocDone, Fault
<1>3. UNCHANGED status
  BY RunEffects
<1>4. ASSUME pc'[r] \in {"off", "find"} => doc'[r] = 0,
             pc'[r] \notin {"off", "find"} =>
               doc'[r] \notin batch'[r] /\ \A d \in batch'[r] : status[d] # "COMPLETED",
             Pending(r)' => status[doc'[r]] # "COMPLETED",
             Failing(r)' /\ status[doc'[r]] = "COMPLETED" => faults' > 0
      PROVE  FinalInv'
  <2>1. \A q \in Runs : q # r => /\ pc'[q] = pc[q] /\ doc'[q] = doc[q]
                                 /\ batch'[q] = batch[q] /\ upd'[q] = upd[q]
    BY RunIsLocal
  <2> QED
    BY <1>2, <1>3, <1>4, <2>1 DEF FinalInv, Pending, Failing
<1>5. /\ pc[r] \in {"off", "find"} => doc[r] = 0
      /\ pc[r] \notin {"off", "find"} =>
           doc[r] \notin batch[r] /\ \A d \in batch[r] : status[d] # "COMPLETED"
      /\ Pending(r) => status[doc[r]] # "COMPLETED"
      /\ Failing(r) /\ status[doc[r]] = "COMPLETED" => faults > 0
  BY DEF FinalInv
<1>6. CASE Tick(r)
  BY <1>1, <1>4, <1>5, <1>6 DEF Tick, SafeRun, Pending, Failing
<1>7. CASE FindFails(r) \/ RunDone(r)
  BY <1>1, <1>4, <1>7 DEF FindFails, RunDone, EndRun, Pending, Failing
<1>8. CASE Find(r)
  <2>1. /\ pc'[r] = "next" /\ doc'[r] = 0
        /\ batch'[r] \subseteq Unprocessed
    BY <1>1, <1>5, <1>8 DEF Find
  <2>2. 0 \notin batch'[r] /\ \A d \in batch'[r] : status[d] # "COMPLETED"
    BY <2>1, ConstAssumption DEF Unprocessed, Docs
  <2> QED
    BY <1>4, <2>1, <2>2 DEF Pending, Failing
<1>9. CASE Begin(r)
  <2>1. /\ pc'[r] = "mark" /\ doc'[r] \in batch[r] /\ batch'[r] = batch[r] \ {doc'[r]}
        /\ pc[r] = "next"
    BY <1>1, <1>9 DEF Begin
  <2> QED
    BY <1>4, <1>5, <2>1 DEF Pending, Failing
<1>10. CASE Marked(r) \/ Extract(r) \/ Index(r)
  BY <1>1, <1>4, <1>5, <1>10 DEF Marked, Extract, Index, Pending, Failing
<1>11. CASE Forward(r) \/ ForwardFails(r)
  <2>1. /\ pc[r] = "nifi" /\ pc'[r] = "complete" /\ UNCHANGED <<doc, batch>>
    BY <1>1, <1>11 DEF Forward, ForwardFails, Update
  <2>2. upd'[r] = Call(doc[r], "COMPLETED")
    BY <1>1, <1>11 DEF Forward, ForwardFails, Update, Updaters
  <2>3. upd'[r].phase = "get"
    BY <2>2 DEF Call, Frame
  <2> QED
    BY <1>4, <1>5, <2>1, <2>3 DEF Pending, Failing
<1>12. CASE ExtractFails(r) \/ IndexFails(r) \/ UpdateThrew(r)
  <2>1. /\ pc'[r] = "fail" /\ UNCHANGED <<doc, batch>>
        /\ pc[r] \in {"mark", "extract", "solr", "complete"}
        /\ pc[r] = "complete" => upd[r].phase = "threw"
    BY <1>1, <1>12 DEF ExtractFails, IndexFails, UpdateThrew, Fail, Update
  <2> QED
    BY <1>2, <1>4, <1>5, <2>1 DEF Pending, Failing
<1>13. CASE DocDone(r)
  BY <1>1, <1>4, <1>5, <1>13 DEF DocDone, Pending, Failing
<1> QED
  BY <1>6, <1>7, <1>8, <1>9, <1>10, <1>11, <1>12, <1>13 DEF RunStep

LEMMA FinalRequest ==
  ASSUME Inv, FinalInv, NEW u \in Updaters, Request(u)
  PROVE  FinalInv'
<1> USE DEF storeVars, sinkVars, runVars, boundVars
<1>1. /\ upd \in [Updaters -> Frames] /\ status \in [Docs -> Statuses]
      /\ batch \in [Runs -> SUBSET Docs]
      /\ faults \in Nat /\ faults' \in Nat /\ faults' >= faults
      /\ UNCHANGED <<pc, doc, batch>>
      /\ SingleFlight
  BY RequestCalls, ConstAssumption DEF Inv, TypeOK, FlightInv
<1>2. Fault => faults' > 0
  BY <1>1 DEF Fault
<1>3. \A r \in Runs : Pending(r)' => Pending(r)
  BY <1>1, RequestCalls DEF Pending, Updaters
<1>4. \A r \in Runs : pc[r] \notin {"off", "find"} =>
        \A d \in batch[r] : status'[d] # "COMPLETED"
  <2>1. CASE UNCHANGED status
    BY <2>1 DEF FinalInv
  <2>2. ASSUME NEW p, Write(u, p) PROVE <1>4
    <3> SUFFICES ASSUME NEW r \in Runs, pc[r] \notin {"off", "find"}, NEW d \in batch[r]
                 PROVE  status'[d] # "COMPLETED"
      OBVIOUS
    <3>1. status[d] # "COMPLETED" /\ d \in Docs /\ doc[r] # d
      BY <1>1 DEF FinalInv
    <3>2. CASE upd[u].status = "ERROR"
      BY <1>1, <2>2, <3>1, <3>2, WriteStatus
    <3>3. CASE u \in Runs /\ pc[u] \in {"mark", "complete", "fail"} /\ upd[u].doc = doc[u]
      <4>1. u = r
        BY <1>1, <3>3 DEF SingleFlight
      <4> QED
        BY <1>1, <2>2, <3>1, <3>3, <4>1, WriteStatus
    <3> QED
      BY <2>2, <3>2, <3>3, WriteStatus
  <2> QED
    BY <2>1, <2>2 DEF Request, Get, Put, PutAnswerLost, PutConflict, RequestFails
<1>5. ASSUME NEW p \in {"ok", "threw"}, Write(u, p),
             p = "threw" => Fault,
             NEW r \in Runs
      PROVE  /\ Pending(r) /\ Pending(r)' => status'[doc[r]] # "COMPLETED"
             /\ Failing(r)' /\ status'[doc[r]] = "COMPLETED" => faults' > 0
  <2>1. upd'[u].phase = p
    BY <1>1, <1>5, FrameTypes, OutdatedFrames DEF Write, Phases, Inv
  <2>2. CASE u \in Forks /\ upd[u].status = "ERROR" /\ faults > 0
    <3>1. Pending(r) => doc[r] \in Docs
      BY DEF Pending, Inv, CallInv, Busy
    <3> QED
      BY <1>1, <1>5, <2>2, <3>1, WriteStatus DEF FinalInv
  <2>3. CASE u \in Runs /\ u # r
    <3>1. pc[r] = "off"
      BY <1>1, <1>5, <2>3, ConstAssumption, WriteStatus DEF SingleFlight, Updaters
    <3> QED
      BY <1>1, <3>1 DEF Pending, Failing
  <2>4. CASE u = r
    <3>1. /\ pc[r] \in {"mark", "complete", "fail"} /\ upd[r].phase = "put"
          /\ doc[r] \in Docs /\ status'[doc[r]] = StatusAt(pc[r])
      BY <1>1, <1>5, <2>4, ConstAssumption, WriteStatus DEF Write
    <3>2. upd'[r].phase = p
      BY <2>1, <2>4
    <3> QED
      BY <1>1, <1>2, <1>5, <3>1, <3>2 DEF Pending, Failing, StatusAt
  <2> QED
    BY <1>5, <2>2, <2>3, <2>4, WriteStatus DEF Updaters
<1>6. ASSUME UNCHANGED status, NEW r \in Runs, Failing(r)', status'[doc[r]] = "COMPLETED",
             ~Failing(r)
      PROVE  faults' > 0
  <2>1. pc[r] = "complete" /\ upd'[r].phase = "threw" /\ upd[r].phase # "threw"
    BY <1>1, <1>6 DEF Failing
  <2>2. u = r /\ (PutConflict(u) \/ RequestFails(u) \/ Put(u) \/ PutAnswerLost(u))
    <3>1. ~Get(u)
      <4> SUFFICES ASSUME Get(u) PROVE FALSE
        OBVIOUS
      <4>1. CASE u = r
        BY <1>1, <2>1, <4>1 DEF Get, Frames
      <4>2. CASE u # r
        BY <1>1, <2>1, <4>2 DEF Get, Updaters
      <4> QED
        BY <4>1, <4>2
    <3>2. CASE u # r
      BY <1>1, <2>1, <3>1, <3>2, OutdatedFrames
         DEF Request, Put, PutAnswerLost, Write, PutConflict, RequestFails, Updaters, Inv
    <3> QED
      BY <3>1, <3>2 DEF Request
  <2>3. upd[r].phase \in {"get", "put"}
    BY <2>2 DEF PutConflict, RequestFails, Put, PutAnswerLost, Write
  <2> QED
    BY <1>6, <2>1, <2>3 DEF FinalInv, Pending
<1>7. ASSUME NEW r \in Runs
      PROVE  /\ Pending(r)' => status'[doc[r]] # "COMPLETED"
             /\ Failing(r)' /\ status'[doc[r]] = "COMPLETED" => faults' > 0
  <2>1. CASE UNCHANGED status
    BY <1>1, <1>3, <1>6, <2>1 DEF FinalInv
  <2>2. CASE Put(u) \/ PutAnswerLost(u)
    BY <1>3, <1>5, <2>2 DEF Put, PutAnswerLost
  <2> QED
    BY <2>1, <2>2 DEF Request, Get, PutConflict, RequestFails
<1> QED
  BY <1>1, <1>4, <1>7 DEF FinalInv

LEMMA FinalNext == Inv /\ FinalInv /\ [Next]_vars => FinalInv'
<1> SUFFICES ASSUME Inv, FinalInv, [Next]_vars PROVE FinalInv'
  OBVIOUS
<1> USE DEF storeVars, sinkVars, runVars, boundVars
<1>1. /\ pc \in [Runs -> Points] /\ doc \in [Runs -> 0 .. N] /\ upd \in [Updaters -> Frames]
      /\ FlightInv
  BY DEF Inv, TypeOK
<1>2. ASSUME Die PROVE FinalInv'
  BY <1>2 DEF Die, FinalInv, Pending, Failing
<1>3. ASSUME UNCHANGED <<status, pc, doc, batch, faults>>,
             \A r \in Runs : upd'[r].phase = upd[r].phase
      PROVE  FinalInv'
  BY <1>3 DEF FinalInv, Pending, Failing
<1>4. ASSUME NEW f \in Forks, ForkStep(f) PROVE FinalInv'
  <2>1. CASE ForkDone(f)
    BY <1>1, <1>3, <2>1, ConstAssumption DEF ForkDone, Updaters
  <2>2. CASE ForkThrew(f)
    BY <1>2, <2>2 DEF ForkThrew
  <2> QED
    BY <1>4, <2>1, <2>2 DEF ForkStep
<1>5. CASE Exit
  BY <1>3, <1>5 DEF Exit
<1>6. ASSUME NEW r \in Runs, Start(r) PROVE FinalInv'
  <2>1. CASE UNCHANGED runVars
    BY <1>3, <1>6, <2>1 DEF Start
  <2>2. CASE SafeRun(r)
    BY <1>1, <1>6, <2>2 DEF Start, SafeRun, Goto, FinalInv, Pending, Failing
  <2> QED
    BY <1>6, <2>1, <2>2 DEF Start
<1>7. CASE Crash
  BY <1>2, <1>7 DEF Crash
<1>8. ASSUME NEW d \in Docs, NEW archived \in BOOLEAN, CmsWrite(d, archived) PROVE FinalInv'
  BY <1>3, <1>8, OutdatedFrames DEF CmsWrite, Inv, Updaters
<1>9. CASE UNCHANGED vars
  BY <1>3, <1>9 DEF vars
<1> QED
  BY <1>4, <1>5, <1>6, <1>7, <1>8, <1>9, FinalRun, FinalRequest DEF Next, Boot

(* COMPLETED is left for ERROR only, and only after a failed call: no run  *)
(* takes a COMPLETED document up again.                                    *)
THEOREM CompletedStays == Spec => CompletedIsFinal
<1> USE DEF storeVars, sinkVars, runVars, boundVars
<1>1. Init => FinalInv
  BY DEF Init, FinalInv, Pending, Failing
<1>2. ASSUME Inv, FinalInv, [Next]_vars, NEW d \in Docs,
             status[d] = "COMPLETED", status'[d] # "COMPLETED"
      PROVE  status'[d] = "ERROR" /\ faults > 0
  <2>1. PICK u \in Updaters : Put(u) \/ PutAnswerLost(u)
    <3>1. \A r \in Runs : Tick(r) \/ RunStep(r) => UNCHANGED status
      BY <1>2, RunEffects
    <3> QED
      BY <1>2, <3>1 DEF Next, Request, Get, PutConflict, RequestFails, ForkStep, ForkDone,
         ForkThrew, Die, Boot, Exit, Start, Crash, CmsWrite, vars
  <2>2. PICK p : Write(u, p)
    BY <2>1 DEF Put, PutAnswerLost
  <2>3. status \in [Docs -> Statuses] /\ upd[u].doc = d
    BY <1>2, <2>2, WriteStatus DEF Inv, TypeOK
  <2>4. CASE u \in Forks /\ upd[u].status = "ERROR" /\ faults > 0
    BY <1>2, <2>2, <2>3, <2>4, WriteStatus
  <2>5. CASE /\ u \in Runs /\ pc[u] \in {"mark", "complete", "fail"}
             /\ upd[u].doc = doc[u] /\ upd[u].status = StatusAt(pc[u])
    <3>1. pc[u] = "fail"
      BY <1>2, <2>2, <2>3, <2>5, WriteStatus DEF FinalInv, Pending, StatusAt
    <3> QED
      BY <1>2, <2>2, <2>3, <2>5, <3>1, WriteStatus DEF FinalInv, Failing, StatusAt
  <2> QED
    BY <1>2, <2>2, <2>4, <2>5, WriteStatus
<1>3. Inv /\ FinalInv /\ [Next]_vars =>
        [\A d \in Docs : status[d] = "COMPLETED" /\ status'[d] # "COMPLETED"
                           => status'[d] = "ERROR" /\ faults > 0]_vars
  BY <1>2
<1> QED
  BY <1>1, <1>3, InvInit, InvNext, FinalNext, PTL DEF Spec, CompletedIsFinal
-----------------------------------------------------------------------------
(* Run r has come past d: it will not forward it any more. *)
Past(r, d) ==
  pc[r] \notin {"off", "find"} =>
    /\ d \notin batch[r]
    /\ doc[r] = d => pc[r] \notin {"mark", "extract", "solr", "nifi"}

(* A document that was archived when NiFi got it is behind every run: it    *)
(* was forwarded from a batch found before, and no batch found since has it. *)
LateInv ==
  \A d \in Docs : late[d] # 0 =>
    late[d] = 1 /\ body[d].archived /\ \A r \in Runs : Past(r, d)

(* What a step of a run does to its place, and when NiFi gets a document *)
LEMMA RunDelivers ==
  ASSUME Inv, NEW r \in Runs, Tick(r) \/ RunStep(r)
  PROVE  /\ UNCHANGED <<sent, late>> \/ (pc[r] = "nifi" /\ Deliver(doc[r]))
         /\ pc[r] = "nifi" => pc'[r] = "complete" /\ UNCHANGED <<doc, batch>>
         /\ \/ pc'[r] \in {"off", "find"}
            \/ pc[r] = "find" /\ pc'[r] = "next" /\ batch'[r] \subseteq Unprocessed
               /\ doc'[r] = doc[r]
            \/ pc[r] = "next" /\ doc'[r] \in batch[r] /\ batch'[r] = batch[r] \ {doc'[r]}
            \/ /\ pc[r] \notin {"off", "find"} /\ doc'[r] = doc[r] /\ batch'[r] = batch[r]
               /\ \/ pc[r] \in {"mark", "extract", "solr", "nifi"}
                  \/ pc'[r] \notin {"mark", "extract", "solr", "nifi"}
<1> USE DEF storeVars, sinkVars, runVars, boundVars, Goto
<1>1. /\ pc \in [Runs -> Points] /\ doc \in [Runs -> 0 .. N] /\ batch \in [Runs -> SUBSET Docs]
  BY DEF Inv, TypeOK
<1>2. CASE Tick(r) \/ FindFails(r) \/ RunDone(r)
  BY <1>1, <1>2 DEF Tick, SafeRun, FindFails, RunDone, EndRun
<1>3. CASE Find(r)
  BY <1>1, <1>3 DEF Find
<1>4. CASE Begin(r)
  BY <1>1, <1>4 DEF Begin
<1>5. CASE Marked(r) \/ Extract(r) \/ Index(r)
  BY <1>1, <1>5 DEF Marked, Extract, Index
<1>6. CASE ExtractFails(r) \/ IndexFails(r) \/ UpdateThrew(r)
  BY <1>1, <1>6 DEF ExtractFails, IndexFails, UpdateThrew, Fail, Update
<1>7. CASE Forward(r) \/ ForwardFails(r)
  BY <1>1, <1>7 DEF Forward, ForwardFails, Update
<1>8. CASE DocDone(r)
  BY <1>1, <1>8 DEF DocDone
<1> QED
  BY <1>2, <1>3, <1>4, <1>5, <1>6, <1>7, <1>8 DEF RunStep

(* updateStatus leaves the other fields as they are. *)
LEMMA RequestKeepsBody ==
  ASSUME Inv, BodyInv, NEW u \in Updaters, Request(u)
  PROVE  body' = body
<1> USE DEF storeVars
<1>1. body \in [Docs -> Bodies]
  BY DEF Inv, TypeOK
<1>2. ASSUME NEW p, Write(u, p) PROVE body' = body
  <2>1. upd[u].body = body[upd[u].doc]
    BY <1>2 DEF Write, BodyInv
  <2> QED
    BY <1>1, <1>2, <2>1 DEF Write
<1> QED
  BY <1>2 DEF Request, Get, Put, PutAnswerLost, PutConflict, RequestFails

LEMMA LateRun ==
  ASSUME Inv, FinalInv, LateInv, NEW r \in Runs, Tick(r) \/ RunStep(r)
  PROVE  LateInv'
<1>1. /\ pc \in [Runs -> Points] /\ late \in [Docs -> Nat] /\ SingleFlight
      /\ UNCHANGED body
      /\ pc[r] = "nifi" => doc[r] \in Docs
  BY RunEffects DEF Inv, TypeOK, FlightInv, CallInv, Busy
<1>2. \A q \in Runs : q # r => pc'[q] = pc[q] /\ doc'[q] = doc[q] /\ batch'[q] = batch[q]
  BY RunIsLocal
<1>3. CASE UNCHANGED late
  <2> SUFFICES ASSUME NEW d \in Docs, late[d] # 0 PROVE Past(r, d)'
    BY <1>1, <1>2, <1>3 DEF LateInv, Past
  <2>1. body[d].archived /\ Past(r, d) /\ d # 0
    BY ConstAssumption DEF LateInv, Docs
  <2>2. pc[r] = "find" => doc[r] = 0
    BY DEF FinalInv
  <2> QED
    BY <2>1, <2>2, RunDelivers DEF Past, Unprocessed
<1>4. CASE pc[r] = "nifi" /\ Deliver(doc[r])
  <2> SUFFICES ASSUME NEW d \in Docs, late'[d] # 0
               PROVE  late'[d] = 1 /\ body[d].archived /\ \A q \in Runs : Past(q, d)'
    BY <1>1 DEF LateInv
  <2>1. pc'[r] = "complete" /\ doc'[r] = doc[r] /\ batch'[r] = batch[r]
    BY <1>4, RunDelivers
  <2>2. \A q \in Runs : q # r => pc'[q] = "off"
    BY <1>1, <1>2, <1>4 DEF SingleFlight
  <2>3. CASE d = doc[r]
    <3>1. late[d] = 0
      BY <1>4, <2>3 DEF LateInv, Past
    <3>2. d \notin batch[r]
      BY <1>4, <2>3 DEF FinalInv
    <3> QED
      BY <1>1, <1>4, <2>1, <2>2, <2>3, <3>1, <3>2 DEF Deliver, Past
  <2>4. CASE d # doc[r]
    BY <1>1, <1>4, <2>1, <2>2, <2>4 DEF Deliver, LateInv, Past
  <2> QED
    BY <2>3, <2>4
<1> QED
  BY <1>3, <1>4, RunDelivers

LEMMA LateNext == Inv /\ BodyInv /\ FinalInv /\ LateInv /\ [Next]_vars => LateInv'
<1> SUFFICES ASSUME Inv, BodyInv, FinalInv, LateInv, [Next]_vars PROVE LateInv'
  OBVIOUS
<1> USE DEF storeVars, sinkVars, runVars, boundVars
<1>1. /\ pc \in [Runs -> Points] /\ body \in [Docs -> Bodies] /\ late \in [Docs -> Nat]
  BY DEF Inv, TypeOK
<1>2. ASSUME UNCHANGED <<pc, doc, batch, body, late>> PROVE LateInv'
  BY <1>2 DEF LateInv, Past
<1>3. ASSUME NEW u \in Updaters, Request(u) PROVE LateInv'
  BY <1>2, <1>3, RequestCalls, RequestKeepsBody
<1>4. ASSUME Die PROVE LateInv'
  BY <1>4 DEF Die, LateInv, Past
<1>5. ASSUME NEW f \in Forks, ForkStep(f) PROVE LateInv'
  BY <1>2, <1>4, <1>5 DEF ForkStep, ForkDone, ForkThrew
<1>6. CASE Boot
  BY <1>1, <1>6 DEF Boot, Exit, Start, SafeRun, Goto, LateInv, Past
<1>7. CASE Crash
  BY <1>4, <1>7 DEF Crash
<1>8. ASSUME NEW d \in Docs, NEW archived \in BOOLEAN, CmsWrite(d, archived) PROVE LateInv'
  BY <1>1, <1>8 DEF CmsWrite, LateInv, Past
<1>9. CASE UNCHANGED vars
  BY <1>2, <1>9 DEF vars
<1> QED
  BY <1>3, <1>5, <1>6, <1>7, <1>8, <1>9, LateRun DEF Next

(* A document that is archived while a run has it in its batch may still be *)
(* forwarded once; no later run selects it, and none forwards it twice.     *)
THEOREM ArchivedIsForwardedOnce == Spec => []ArchivedForwardedAtMostOnce
<1>1. Init => LateInv /\ BodyInv /\ FinalInv
  BY FrameTypes DEF Init, LateInv, BodyInv, CmsFieldsSurvive, FinalInv, Pending, Failing
<1>2. Inv /\ LateInv => ArchivedForwardedAtMostOnce
  BY DEF Inv, TypeOK, LateInv, ArchivedForwardedAtMostOnce
<1> QED
  BY <1>1, <1>2, InvInit, InvNext, BodyNext, FinalNext, LateNext, PTL DEF Spec
-----------------------------------------------------------------------------
(* A run is about to write COMPLETED on d, and nothing stands in its way. *)
Settles(r, d) ==
  /\ pc[r] = "complete" /\ doc[r] = d
  /\ upd[r].phase = "get" \/ (upd[r].phase = "put" /\ upd[r].fresh)

(* d may be forwarded again without anything new going wrong. *)
Open(d) ==
  /\ \A r \in Runs : ~Settles(r, d)
  /\ status[d] # "COMPLETED" \/ \E r \in Runs : Failing(r) /\ doc[r] = d

(* Updates not awaited that may still write ERROR or end the process *)
ActiveForks == {f \in Forks : upd[f].phase \in {"get", "put", "threw"}}

(* The deliveries of d so far, the one it is open to, and the one that each *)
(* active fork may open it to, each have a cause of their own.              *)
Causes == 1 + faults + crashes + edits
CauseInv ==
  \A d \in Docs :
    sent[d] + (IF Open(d) THEN 1 ELSE 0) + Cardinality(ActiveForks) <= Causes

LEMMA CauseTypes ==
  ASSUME Inv
  PROVE  /\ sent \in [Docs -> Nat]
         /\ faults \in Nat /\ crashes \in Nat /\ edits \in Nat /\ Causes \in Nat
BY ConstAssumption DEF Inv, TypeOK, Causes

LEMMA ForksAreFew ==
  /\ IsFiniteSet(ActiveForks) /\ Cardinality(ActiveForks) \in Nat
  /\ IsFiniteSet(ActiveForks') /\ Cardinality(ActiveForks') \in Nat
<1>1. IsFiniteSet(Forks)
  BY FS_Interval, ConstAssumption DEF Forks
<1>2. ActiveForks \in SUBSET Forks /\ ActiveForks' \in SUBSET Forks
  BY DEF ActiveForks
<1> QED
  BY <1>1, <1>2, FS_Subset, FS_CardinalityType

(* The three ways in which the invariant stays true *)
LEMMA CauseKept ==
  ASSUME Inv, CauseInv, sent' = sent, Causes' = Causes, ActiveForks' = ActiveForks,
         \A d \in Docs : Open(d)' => Open(d)
  PROVE  CauseInv'
<1> SUFFICES ASSUME NEW d \in Docs
             PROVE  sent[d] + (IF Open(d)' THEN 1 ELSE 0) + Cardinality(ActiveForks) <= Causes
  BY DEF CauseInv
<1>1. Open(d)' => Open(d)
  OBVIOUS
<1> QED
  BY <1>1, CauseTypes, ForksAreFew DEF CauseInv

LEMMA CausePays ==
  ASSUME Inv, CauseInv, sent' = sent, Causes' = Causes + 1,
         Cardinality(ActiveForks') <= Cardinality(ActiveForks)
  PROVE  CauseInv'
BY CauseTypes, ForksAreFew DEF CauseInv

LEMMA ForkPays ==
  ASSUME Inv, CauseInv, sent' = sent, Causes' = Causes,
         Cardinality(ActiveForks') < Cardinality(ActiveForks)
  PROVE  CauseInv'
BY CauseTypes, ForksAreFew DEF CauseInv

(* Only one run is in progress. *)
LEMMA SoleRun ==
  ASSUME Inv, NEW r \in Runs, pc[r] # "off"
  PROVE  \A q \in Runs : q # r => pc[q] = "off"
BY DEF Inv, FlightInv, SingleFlight

(* Before a run is past its document, that document is open. *)
LEMMA PendingIsOpen ==
  ASSUME Inv, FinalInv, NEW r \in Runs,
         \/ pc[r] \in {"mark", "extract", "solr", "nifi", "fail"}
         \/ pc[r] = "complete" /\ upd[r].phase = "put" /\ ~upd[r].fresh
  PROVE  Open(doc[r])
<1>1. \A q \in Runs : q # r => pc[q] = "off"
  BY SoleRun
<1>2. \A q \in Runs : ~Settles(q, doc[r])
  BY <1>1 DEF Settles
<1>3. pc[r] = "fail" \/ status[doc[r]] # "COMPLETED"
  BY DEF FinalInv, Pending
<1> QED
  BY <1>2, <1>3 DEF Open, Failing

(* Without a delivery, a run opens no document. *)
LEMMA RunOpens ==
  ASSUME Inv, FinalInv, NEW r \in Runs, Tick(r) \/ RunStep(r),
         ~(Forward(r) \/ ForwardFails(r)), NEW d \in Docs, Open(d)'
  PROVE  Open(d)
<1> USE DEF storeVars, sinkVars, runVars, boundVars, Goto
<1>1. /\ pc \in [Runs -> Points] /\ doc \in [Runs -> 0 .. N] /\ upd \in [Updaters -> Frames]
      /\ status' = status /\ r \in Updaters
  BY RunEffects DEF Inv, TypeOK, Updaters
<1>2. \A q \in Runs : q # r => pc'[q] = pc[q] /\ doc'[q] = doc[q] /\ upd'[q] = upd[q]
  BY RunIsLocal
<1>3. ~Settles(r, d)
  <2>1. CASE Tick(r) \/ Find(r) \/ FindFails(r) \/ RunDone(r) \/ Extract(r) \/ Index(r) \/ Begin(r)
    BY <2>1 DEF Tick, SafeRun, Find, FindFails, RunDone, Extract, Index, Begin, Settles
  <2>2. CASE Marked(r) \/ ExtractFails(r) \/ IndexFails(r) \/ UpdateThrew(r) \/ DocDone(r)
    BY <2>2 DEF Marked, ExtractFails, IndexFails, UpdateThrew, DocDone, Settles
  <2> QED
    BY <2>1, <2>2 DEF RunStep
<1>4. \A q \in Runs : ~Settles(q, d)
  BY <1>2, <1>3 DEF Open, Settles
<1>5. Failing(r)' /\ doc'[r] = d => status[d] # "COMPLETED" \/ (Failing(r) /\ doc[r] = d)
  <2>1. CASE Tick(r) \/ Find(r) \/ FindFails(r) \/ RunDone(r) \/ Begin(r)
    BY <1>1, <2>1 DEF Tick, SafeRun, Find, FindFails, RunDone, EndRun, Begin, Failing
  <2>2. CASE Marked(r) \/ Extract(r) \/ Index(r) \/ DocDone(r)
    BY <1>1, <2>2 DEF Marked, Extract, Index, DocDone, Failing
  <2>3. CASE ExtractFails(r) \/ IndexFails(r) \/ UpdateThrew(r)
    BY <1>1, <2>3 DEF ExtractFails, IndexFails, UpdateThrew, Fail, Update, Failing, Pending, FinalInv
  <2> QED
    BY <2>1, <2>2, <2>3 DEF RunStep
<1> QED
  BY <1>1, <1>2, <1>4, <1>5 DEF Open, Failing

(* A delivery closes the document: it is paid for by its being open. *)
LEMMA DeliveryCloses ==
  ASSUME Inv, FinalInv, NEW r \in Runs, Forward(r) \/ ForwardFails(r)
  PROVE  \A d \in Docs : /\ Open(d)' => Open(d)
                         /\ d = doc[r] => Open(d) /\ ~Open(d)'
<1> USE DEF storeVars, sinkVars, runVars, boundVars, Goto
<1>1. /\ pc \in [Runs -> Points] /\ upd \in [Updaters -> Frames] /\ r \in Updaters /\ r \notin Forks
      /\ pc[r] = "nifi" /\ doc[r] \in Docs
  BY ConstAssumption DEF Forward, ForwardFails, Inv, TypeOK, Updaters, CallInv, Busy
<1>2. /\ pc' = [pc EXCEPT ![r] = "complete"] /\ doc' = doc /\ status' = status
      /\ upd'[r] = Call(doc[r], "COMPLETED")
  BY <1>1 DEF Forward, ForwardFails, Update, Updaters
<1>3. upd'[r].phase = "get"
  BY <1>2 DEF Call, Frame
<1>4. \A q \in Runs : q # r => pc[q] = "off"
  BY <1>1, SoleRun
<1>5. Open(doc[r])
  BY <1>1, PendingIsOpen
<1>6. ASSUME NEW d \in Docs, d = doc[r] PROVE Open(d) /\ ~Open(d)'
  BY <1>1, <1>2, <1>3, <1>5, <1>6 DEF Open, Settles
<1>7. ASSUME NEW d \in Docs, Open(d)' PROVE Open(d)
  <2>1. \A q \in Runs : ~Settles(q, d) /\ ~Failing(q)'
    BY <1>1, <1>2, <1>3, <1>4 DEF Settles, Failing
  <2> QED
    BY <1>2, <1>7, <2>1 DEF Open
<1> QED
  BY <1>1, <1>5, <1>6, <1>7

LEMMA DeliveryPaid ==
  ASSUME Inv, FinalInv, CauseInv, NEW r \in Runs, Forward(r) \/ ForwardFails(r),
         sent' = sent \/ sent' = [sent EXCEPT ![doc[r]] = @ + 1],
         Causes' - Causes = Cardinality(ActiveForks') - Cardinality(ActiveForks),
         Causes' \in Nat
  PROVE  CauseInv'
<1> SUFFICES ASSUME NEW d \in Docs
             PROVE  sent'[d] + (IF Open(d)' THEN 1 ELSE 0) + Cardinality(ActiveForks') <= Causes'
  BY DEF CauseInv
<1>1. /\ sent[d] + (IF Open(d) THEN 1 ELSE 0) + Cardinality(ActiveForks) <= Causes
      /\ sent \in [Docs -> Nat] /\ Causes \in Nat
  BY CauseTypes DEF CauseInv
<1>2. CASE d = doc[r]
  <2>1. Open(d) /\ ~Open(d)' /\ sent'[d] <= sent[d] + 1 /\ sent'[d] \in Nat
    BY <1>1, <1>2, DeliveryCloses
  <2> QED
    BY <1>1, <2>1, ForksAreFew
<1>3. CASE d # doc[r]
  <2>1. sent'[d] = sent[d] /\ (Open(d)' => Open(d))
    BY <1>1, <1>3, DeliveryCloses
  <2> QED
    BY <1>1, <2>1, ForksAreFew
<1> QED
  BY <1>2, <1>3

LEMMA CauseRun ==
  ASSUME Inv, FinalInv, CauseInv, NEW r \in Runs, Tick(r) \/ RunStep(r)
  PROVE  CauseInv'
<1> USE DEF storeVars, sinkVars, runVars, boundVars
<1>1. /\ upd \in [Updaters -> Frames] /\ r \in Updaters /\ r \notin Forks
      /\ \A f \in Forks : f \in Updaters
  BY ConstAssumption DEF Inv, TypeOK, Updaters
<1>2. Fault => Causes' = Causes + 1
  BY CauseTypes DEF Fault, Causes
<1>3. CASE ~(Forward(r) \/ ForwardFails(r))
  <2>1. \A d \in Docs : Open(d)' => Open(d)
    BY <1>3, RunOpens
  <2>2. sent' = sent
    BY <1>3 DEF Tick, RunStep, Find, FindFails, RunDone, Begin, Marked, Extract, ExtractFails,
       Index, IndexFails, UpdateThrew, DocDone
  <2>3. \A f \in Forks : upd'[f] = upd[f]
    BY <1>1, <1>3 DEF Tick, RunStep, Find, FindFails, RunDone, Begin, Marked, Extract,
       ExtractFails, Index, IndexFails, UpdateThrew, DocDone, Fail, Update
  <2>4. ActiveForks' = ActiveForks
    BY <2>3 DEF ActiveForks
  <2>5. Causes' = Causes \/ Causes' = Causes + 1
    BY <1>2, <1>3 DEF Tick, RunStep, Find, FindFails, RunDone, Begin, Marked, Extract,
       ExtractFails, Index, IndexFails, UpdateThrew, DocDone, Causes
  <2> QED
    BY <2>1, <2>2, <2>4, <2>5, CauseKept, CausePays, ForksAreFew
<1>4. CASE Forward(r)
  <2>1. ActiveForks' = ActiveForks /\ Causes' = Causes
    BY <1>1, <1>4 DEF Forward, Update, ActiveForks, Causes
  <2>2. sent' = [sent EXCEPT ![doc[r]] = @ + 1] /\ Causes' - Causes = 0
        /\ Cardinality(ActiveForks') - Cardinality(ActiveForks) = 0 /\ Causes' \in Nat
    BY <1>4, <2>1, CauseTypes, ForksAreFew DEF Forward, Deliver
  <2> QED
    BY <1>4, <2>1, <2>2, DeliveryPaid
<1>5. CASE ForwardFails(r)
  <2>1. PICK f \in Forks : /\ upd[f].phase = "off"
                           /\ upd' = [upd EXCEPT ![f] = Call(doc[r], "ERROR"),
                                                 ![r] = Call(doc[r], "COMPLETED")]
    BY <1>5 DEF ForwardFails
  <2>2. Call(doc[r], "ERROR").phase = "get"
    BY DEF Call, Frame
  <2>3. ActiveForks' = ActiveForks \cup {f} /\ f \notin ActiveForks
    BY <1>1, <2>1, <2>2 DEF ActiveForks
  <2>4. /\ Causes' - Causes = 1 /\ Causes' \in Nat
        /\ Cardinality(ActiveForks') - Cardinality(ActiveForks) = 1
    BY <1>2, <1>5, <2>3, FS_AddElement, ForksAreFew, CauseTypes DEF ForwardFails
  <2>5. sent' = sent \/ sent' = [sent EXCEPT ![doc[r]] = @ + 1]
    BY <1>5 DEF ForwardFails, Deliver
  <2> QED
    BY <1>5, <2>4, <2>5, DeliveryPaid
<1> QED
  BY <1>3, <1>4, <1>5

(* A request without a fault opens a document only when a fork is done. *)
LEMMA WriteOpens ==
  ASSUME Inv, FinalInv, NEW u \in Updaters, Put(u), NEW d \in Docs, Open(d)', ~Open(d)
  PROVE  u \in Forks
<1> SUFFICES ASSUME u \in Runs PROVE FALSE
  BY DEF Updaters
<1> USE DEF storeVars, sinkVars, runVars, boundVars
<1>1. /\ status \in [Docs -> Statuses] /\ upd \in [Updaters -> Frames]
      /\ UNCHANGED <<pc, doc>> /\ Write(u, "ok") /\ u \notin Forks
  BY ConstAssumption DEF Inv, TypeOK, Put, Write
<1>2. /\ pc[u] \in {"mark", "complete", "fail"} /\ doc[u] \in Docs
      /\ status' = [status EXCEPT ![doc[u]] = StatusAt(pc[u])]
  BY <1>1, WriteStatus
<1>3. \A q \in Runs : q # u => pc[q] = "off"
  BY <1>2, SoleRun
<1>4. d = doc[u] \/ status[d] # "COMPLETED"
  BY <1>1, <1>2, <1>3 DEF Open, Failing
<1>5. CASE pc[u] = "complete"
  <2>1. upd'[u].phase = "ok"
    BY <1>1, FrameTypes, OutdatedFrames DEF Write, Phases, Inv
  <2>2. \A q \in Runs : ~Failing(q)'
    BY <1>1, <1>3, <1>5, <2>1 DEF Failing
  <2>3. d # doc[u]
    BY <1>1, <1>2, <1>5, <2>2 DEF Open, StatusAt
  <2>4. \A q \in Runs : ~Settles(q, d)
    BY <1>3, <2>3 DEF Settles
  <2> QED
    BY <1>4, <2>3, <2>4 DEF Open
<1>6. CASE pc[u] # "complete"
  <2>1. \A q \in Runs : ~Settles(q, d)
    BY <1>3, <1>6 DEF Settles
  <2>2. Open(doc[u])
    BY <1>2, <1>6, PendingIsOpen
  <2> QED
    BY <1>4, <2>1, <2>2 DEF Open
<1> QED
  BY <1>5, <1>6

LEMMA ConflictOpens ==
  ASSUME Inv, FinalInv, NEW u \in Updaters, Get(u) \/ PutConflict(u), NEW d \in Docs, Open(d)'
  PROVE  Open(d)
<1> USE DEF storeVars, sinkVars, runVars, boundVars
<1>1. /\ upd \in [Updaters -> Frames] /\ UNCHANGED <<status, pc, doc>>
      /\ \A v \in Updaters : v # u => upd'[v] = upd[v]
      /\ \A q \in Runs : q \in Updaters
  BY DEF Inv, TypeOK, Get, PutConflict, Updaters
<1>2. CASE u \notin Runs
  <2>1. \A q \in Runs : upd'[q] = upd[q]
    BY <1>1, <1>2
  <2> QED
    BY <1>1, <2>1 DEF Open, Settles, Failing
<1>3. CASE u \in Runs /\ Get(u)
  <2>1. /\ upd[u].phase = "get" /\ upd'[u].phase = "put" /\ upd'[u].fresh
    BY <1>1, <1>3 DEF Get, Frames
  <2>2. \A q \in Runs : (Settles(q, d)' <=> Settles(q, d)) /\ (Failing(q)' <=> Failing(q))
    BY <1>1, <1>3, <2>1 DEF Settles, Failing
  <2> QED
    BY <1>1, <2>2 DEF Open
<1>4. CASE u \in Runs /\ PutConflict(u)
  <2>1. upd[u].phase = "put" /\ ~upd[u].fresh /\ pc[u] \in {"mark", "complete", "fail"}
    BY <1>4 DEF PutConflict, Inv, CallInv
  <2>2. Open(doc[u])
    BY <1>4, <2>1, PendingIsOpen
  <2>3. CASE d # doc[u]
    <3>1. \A q \in Runs : q # u => pc[q] = "off"
      BY <1>4, <2>1, SoleRun
    <3> QED
      BY <1>1, <2>3, <3>1 DEF Open, Settles, Failing
  <2> QED
    BY <2>2, <2>3
<1> QED
  BY <1>2, <1>3, <1>4

LEMMA CauseRequest ==
  ASSUME Inv, FinalInv, CauseInv, NEW u \in Updaters, Request(u)
  PROVE  CauseInv'
<1> USE DEF storeVars, sinkVars, runVars, boundVars
<1>1. /\ upd \in [Updaters -> Frames] /\ sent' = sent
      /\ \A f \in Forks : f \in Updaters
  BY RequestCalls DEF Inv, TypeOK, Updaters
<1>2. Fault => Causes' = Causes + 1
  BY CauseTypes DEF Fault, Causes
<1>3. CASE Get(u) \/ PutConflict(u)
  <2>1. Causes' = Causes
    BY <1>3 DEF Get, PutConflict, Causes
  <2>2. /\ \A v \in Updaters : v # u => upd'[v] = upd[v]
        /\ upd[u].phase \in {"get", "put"} /\ upd'[u].phase \in {"get", "put", "threw"}
    BY <1>1, <1>3 DEF Get, PutConflict, Frame, Outcome, Frames
  <2>3. ActiveForks' = ActiveForks
    BY <1>1, <2>2 DEF ActiveForks
  <2> QED
    BY <1>1, <1>3, <2>1, <2>3, ConflictOpens, CauseKept
<1>4. CASE Put(u)
  <2>1. Causes' = Causes
    BY <1>4 DEF Put, Causes
  <2>2. /\ upd[u].phase = "put" /\ upd'[u].phase = "ok"
        /\ \A v \in Updaters : v # u => upd'[v].phase = upd[v].phase
    BY <1>1, <1>4, FrameTypes, OutdatedFrames DEF Put, Write, Phases, Inv
  <2>3. CASE u \in Forks
    <3>1. ActiveForks' = ActiveForks \ {u} /\ u \in ActiveForks
      BY <1>1, <2>2, <2>3 DEF ActiveForks
    <3>2. Cardinality(ActiveForks') < Cardinality(ActiveForks)
      BY <3>1, FS_RemoveElement, ForksAreFew
    <3> QED
      BY <1>1, <2>1, <3>2, ForkPays
  <2>4. CASE u \notin Forks
    <3>1. ActiveForks' = ActiveForks
      BY <1>1, <2>2, <2>4 DEF ActiveForks
    <3>2. \A d \in Docs : Open(d)' => Open(d)
      BY <1>4, <2>4, WriteOpens
    <3> QED
      BY <1>1, <2>1, <3>1, <3>2, CauseKept
  <2> QED
    BY <2>3, <2>4
<1>5. CASE PutAnswerLost(u) \/ RequestFails(u)
  <2>1. Causes' = Causes + 1
    BY <1>2, <1>5 DEF PutAnswerLost, RequestFails
  <2>2. /\ upd[u].phase \in {"get", "put"}
        /\ \A v \in Updaters : v # u => upd'[v].phase = upd[v].phase
    BY <1>1, <1>5, OutdatedFrames DEF PutAnswerLost, RequestFails, Write, Inv
  <2>3. ActiveForks' \subseteq ActiveForks
    BY <1>1, <2>2 DEF ActiveForks
  <2>4. Cardinality(ActiveForks') <= Cardinality(ActiveForks)
    BY <2>3, FS_Subset, ForksAreFew
  <2> QED
    BY <1>1, <2>1, <2>4, CausePays
<1> QED
  BY <1>3, <1>4, <1>5 DEF Request

LEMMA CauseNext == Inv /\ FinalInv /\ CauseInv /\ [Next]_vars => CauseInv'
<1> SUFFICES ASSUME Inv, FinalInv, CauseInv, [Next]_vars PROVE CauseInv'
  OBVIOUS
<1> USE DEF storeVars, sinkVars, runVars, boundVars
<1>1. /\ upd \in [Updaters -> Frames] /\ pc \in [Runs -> Points]
      /\ \A r \in Runs : r \in Updaters
  BY DEF Inv, TypeOK, Updaters
<1>2. ASSUME Die PROVE ActiveForks' = {} /\ Cardinality(ActiveForks') = 0 /\ sent' = sent
  <2>1. ActiveForks' = {} /\ sent' = sent
    BY <1>2, FrameTypes DEF Die, ActiveForks, Updaters
  <2> QED
    BY <2>1, FS_EmptySet
<1>3. ASSUME UNCHANGED <<status, doc, sent, faults, edits, crashes>>,
             \A q \in Runs : pc'[q] = pc[q] /\ upd'[q] = upd[q],
             ActiveForks' = ActiveForks
      PROVE  CauseInv'
  <2>1. \A d \in Docs : Open(d)' => Open(d)
    BY <1>3 DEF Open, Settles, Failing
  <2>2. Causes' = Causes
    BY <1>3 DEF Causes
  <2> QED
    BY <1>3, <2>1, <2>2, CauseKept
<1>4. ASSUME NEW f \in Forks, ForkDone(f) PROVE CauseInv'
  <2>1. \A q \in Runs : upd'[q] = upd[q]
    BY <1>1, <1>4, ConstAssumption DEF ForkDone
  <2>2. ActiveForks' = ActiveForks
    BY <1>1, <1>4, FrameTypes DEF ForkDone, ActiveForks, Updaters
  <2> QED
    BY <1>3, <1>4, <2>1, <2>2 DEF ForkDone
<1>5. ASSUME NEW f \in Forks, ForkThrew(f) PROVE CauseInv'
  <2>1. f \in ActiveForks
    BY <1>5 DEF ForkThrew, ActiveForks
  <2>2. Cardinality(ActiveForks) > 0
    BY <2>1, FS_EmptySet, ForksAreFew
  <2>3. Causes' = Causes
    BY <1>5 DEF ForkThrew, Causes
  <2> QED
    BY <1>2, <1>5, <2>2, <2>3, ForkPays DEF ForkThrew
<1>6. CASE Exit
  BY <1>3, <1>6 DEF Exit, ActiveForks
<1>7. ASSUME NEW r \in Runs, Start(r) PROVE CauseInv'
  <2>1. pc'[r] \in {pc[r], "find"} /\ (pc[r] = "off" \/ pc' = pc)
    BY <1>1, <1>7 DEF Start, SafeRun, Goto
  <2>2. /\ \A q \in Runs : q # r => pc'[q] = pc[q]
        /\ UNCHANGED <<status, doc, upd, sent, faults, edits, crashes>>
    BY <1>1, <1>7 DEF Start, SafeRun, Goto
  <2>3. \A d \in Docs : Open(d)' => Open(d)
    BY <2>1, <2>2 DEF Open, Settles, Failing
  <2>4. Causes' = Causes /\ ActiveForks' = ActiveForks
    BY <2>2 DEF Causes, ActiveForks
  <2> QED
    BY <2>2, <2>3, <2>4, CauseKept
<1>8. CASE Crash
  <2>1. Causes' = Causes + 1
    BY <1>8, CauseTypes DEF Crash, Causes
  <2> QED
    BY <1>2, <1>8, <2>1, CausePays, ForksAreFew DEF Crash
<1>9. ASSUME NEW d \in Docs, NEW archived \in BOOLEAN, CmsWrite(d, archived) PROVE CauseInv'
  <2>1. Causes' = Causes + 1 /\ sent' = sent
    BY <1>9, CauseTypes DEF CmsWrite, Causes
  <2>2. ActiveForks' = ActiveForks
    BY <1>9, OutdatedFrames DEF CmsWrite, ActiveForks, Inv, Updaters
  <2> QED
    BY <2>1, <2>2, CausePays, ForksAreFew
<1>10. CASE UNCHANGED vars
  BY <1>3, <1>10 DEF vars, ActiveForks
<1> QED
  BY <1>4, <1>5, <1>6, <1>7, <1>8, <1>9, <1>10, CauseRun, CauseRequest DEF Next, ForkStep, Boot

(* Every delivery of a document but the first has a cause of its own: a     *)
(* failed call, a crash or a write of case management.                      *)
THEOREM EveryRedeliveryHasACause == Spec => []RedeliveryHasACause
<1>1. ASSUME Init PROVE CauseInv /\ FinalInv
  <2>1. ActiveForks = {}
    BY <1>1, FrameTypes DEF Init, ActiveForks, Updaters
  <2> QED
    BY <1>1, <2>1, FS_EmptySet DEF Init, CauseInv, Causes, FinalInv, Pending, Failing
<1>2. Inv /\ CauseInv => RedeliveryHasACause
  BY CauseTypes, ForksAreFew DEF CauseInv, Causes, RedeliveryHasACause
<1> QED
  BY <1>1, <1>2, InvInit, InvNext, FinalNext, CauseNext, PTL DEF Spec
=============================================================================
