------------------------- MODULE DocPipelineProofs -------------------------
(***************************************************************************)
(* Theorems about DocPipeline, for any number of documents, faults, CMS    *)
(* writes and crashes.                                                     *)
(***************************************************************************)
EXTENDS DocPipeline, TLAPS

(* The points between the choice of a document and its last outcome *)
Busy == {"mark", "extract", "solr", "nifi", "complete", "fail"}

(* Types, and whom each call in progress belongs to *)
StatusAt(p) == IF p = "mark" THEN "PROCESSING" ELSE IF p = "complete" THEN "COMPLETED" ELSE "ERROR"

CallInv ==
  /\ \A r \in Runs : pc[r] \in Busy => doc[r] \in Docs
  /\ \A r \in Runs : upd[r].phase \in {"get", "put"} =>
       /\ pc[r] \in {"mark", "complete", "fail"}
       /\ upd[r].doc = doc[r]
       /\ upd[r].status = StatusAt(pc[r])
  /\ \A f \in Forks : upd[f].phase \in {"get", "put"} =>
       /\ upd[f].doc \in Docs
       /\ upd[f].status = "ERROR"
       /\ faults > 0

FlightInv ==
  /\ ~running => \A r \in Runs : pc[r] = "off"
  /\ SingleFlight

Inv == TypeOK /\ CallInv /\ FlightInv
-----------------------------------------------------------------------------
LEMMA BodyTypes ==
  /\ FirstBody \in Bodies
  /\ \A v \in 0 .. MaxEdits, a \in BOOLEAN : [version |-> v, archived |-> a] \in Bodies
BY ConstAssumption DEF FirstBody, Bodies

LEMMA FrameTypes ==
  /\ NoCall \in Frames /\ NoCall.phase = "off"
  /\ \A d \in Docs, s \in Statuses :
       /\ Call(d, s) \in Frames
       /\ Call(d, s).phase = "get" /\ Call(d, s).doc = d /\ Call(d, s).status = s
  /\ \A p \in Phases : Outcome(p) \in Frames /\ Outcome(p).phase = p
<1>1. NoCall \in Frames /\ NoCall.phase = "off"
  BY BodyTypes, ConstAssumption DEF NoCall, Frame, Frames, Phases, Statuses
<1>2. \A d \in Docs, s \in Statuses :
       /\ Call(d, s) \in Frames
       /\ Call(d, s).phase = "get" /\ Call(d, s).doc = d /\ Call(d, s).status = s
  BY BodyTypes, ConstAssumption DEF Call, Frame, Frames, Phases, Statuses, Docs
<1>3. \A p \in Phases : Outcome(p) \in Frames /\ Outcome(p).phase = p
  BY BodyTypes, ConstAssumption DEF Outcome, Frame, Frames, Phases, Statuses
<1> QED
  BY <1>1, <1>2, <1>3

(* Outdated changes nothing but freshness. *)
LEMMA OutdatedFrames ==
  ASSUME TypeOK, NEW d
  PROVE  /\ Outdated(d) \in [Updaters -> Frames]
         /\ \A u \in Updaters :
              /\ Outdated(d)[u].phase = upd[u].phase
              /\ Outdated(d)[u].doc = upd[u].doc
              /\ Outdated(d)[u].status = upd[u].status
              /\ Outdated(d)[u].body = upd[u].body
              /\ upd[u].doc = d => ~Outdated(d)[u].fresh
              /\ upd[u].doc # d => Outdated(d)[u] = upd[u]
BY DEF TypeOK, Outdated, Frames
-----------------------------------------------------------------------------
LEMMA InvInit == Init => Inv
<1> SUFFICES ASSUME Init PROVE Inv
  OBVIOUS
<1> USE DEF Init
<1>1. TypeOK
  <2>1. /\ status \in [Docs -> Statuses] /\ solr \in SUBSET Docs
        /\ up \in BOOLEAN /\ running \in BOOLEAN
    BY DEF Statuses
  <2>2. body \in [Docs -> Bodies] /\ cms \in [Docs -> Bodies]
    BY BodyTypes
  <2>3. sent \in [Docs -> Nat] /\ late \in [Docs -> Nat]
    OBVIOUS
  <2>4. /\ pc \in [Runs -> Points] /\ batch \in [Runs -> SUBSET Docs]
        /\ doc \in [Runs -> 0 .. N]
    BY ConstAssumption DEF Points
  <2>5. upd \in [Updaters -> Frames]
    BY FrameTypes
  <2>6. faults \in 0 .. MaxFaults /\ edits \in 0 .. MaxEdits /\ crashes \in 0 .. MaxCrashes
    BY ConstAssumption
  <2> QED
    BY <2>1, <2>2, <2>3, <2>4, <2>5, <2>6 DEF TypeOK
<1>2. CallInv
  BY FrameTypes DEF CallInv, Busy, Updaters
<1>3. FlightInv
  BY DEF FlightInv, SingleFlight
<1> QED
  BY <1>1, <1>2, <1>3 DEF Inv

(* What a step of run r does to the frames *)
LEMMA RunCalls ==
  ASSUME Inv, NEW r \in Runs, NEW x \in Frames, upd' = [upd EXCEPT ![r] = x]
  PROVE  /\ upd' \in [Updaters -> Frames]
         /\ upd'[r] = x
         /\ \A u \in Updaters : u # r => upd'[u] = upd[u]
         /\ \A f \in Forks : f # r /\ upd'[f] = upd[f]
BY ConstAssumption DEF Inv, TypeOK, Updaters

(* A step of run r within processDocument or its for loop *)
LEMMA RunMoves ==
  ASSUME Inv, NEW r \in Runs, NEW p \in Busy \cup {"next"}, NEW x \in Frames,
         pc[r] \in Busy \cup {"next"},
         pc' = [pc EXCEPT ![r] = p],
         upd' = [upd EXCEPT ![r] = x],
         doc' \in [Runs -> 0 .. N],
         \A q \in Runs : q # r => doc'[q] = doc[q],
         p \in Busy => doc'[r] \in Docs,
         x.phase \in {"get", "put"} => /\ p \in {"mark", "complete", "fail"}
                                       /\ x.doc = doc'[r] /\ x.status = StatusAt(p),
         faults' \in Nat, faults' >= faults, running' = running
  PROVE  /\ upd' \in [Updaters -> Frames] /\ pc' \in [Runs -> Points]
         /\ CallInv' /\ FlightInv'
<1>1. /\ pc \in [Runs -> Points] /\ upd \in [Updaters -> Frames] /\ faults \in Nat
      /\ CallInv /\ FlightInv
  BY ConstAssumption DEF Inv, TypeOK
<1>2. /\ upd' \in [Updaters -> Frames]
      /\ upd'[r] = x
      /\ \A u \in Updaters : u # r => upd'[u] = upd[u]
      /\ \A f \in Forks : f # r /\ upd'[f] = upd[f]
  BY RunCalls
<1>3. pc' \in [Runs -> Points]
  BY <1>1 DEF Points, Busy
<1>4. CallInv'
  <2>1. \A q \in Runs : pc'[q] \in Busy => doc'[q] \in Docs
    BY <1>1 DEF CallInv
  <2>2. \A q \in Runs : upd'[q].phase \in {"get", "put"} =>
          /\ pc'[q] \in {"mark", "complete", "fail"}
          /\ upd'[q].doc = doc'[q]
          /\ upd'[q].status = StatusAt(pc'[q])
    <3> TAKE q \in Runs
    <3>1. CASE q = r
      BY <3>1, <1>1, <1>2
    <3>2. CASE q # r
      BY <3>2, <1>1, <1>2 DEF CallInv, Updaters
    <3> QED
      BY <3>1, <3>2
  <2>3. \A f \in Forks : upd'[f].phase \in {"get", "put"} =>
          upd'[f].doc \in Docs /\ upd'[f].status = "ERROR" /\ faults' > 0
    BY <1>1, <1>2 DEF CallInv
  <2> QED
    BY <2>1, <2>2, <2>3 DEF CallInv, StatusAt
<1>5. FlightInv'
  BY <1>1 DEF FlightInv, SingleFlight, Busy
<1> QED
  BY <1>2, <1>3, <1>4, <1>5

LEMMA InvRun == ASSUME Inv, NEW r \in Runs, Tick(r) \/ RunStep(r) PROVE Inv'
<1> USE DEF Goto, storeVars, sinkVars, runVars, boundVars
<1>0. /\ TypeOK /\ CallInv /\ FlightInv
      /\ pc \in [Runs -> Points] /\ doc \in [Runs -> 0 .. N] /\ batch \in [Runs -> SUBSET Docs]
      /\ upd \in [Updaters -> Frames] /\ r \in Updaters
      /\ Docs \subseteq 0 .. N
  BY ConstAssumption DEF Inv, TypeOK, Updaters, Docs
<1>f. Fault => faults' \in 0 .. MaxFaults /\ faults' > 0 /\ UNCHANGED <<cronEnabled, edits, crashes>>
  BY ConstAssumption DEF Fault, Inv, TypeOK
<1> USE <1>0 DEF Points, Busy
<1>1. ASSUME Tick(r) PROVE Inv'
  <2>1. TypeOK'
    BY <1>1 DEF Tick, SafeRun, TypeOK
  <2>2. CallInv'
    BY <1>1 DEF Tick, SafeRun, CallInv
  <2>3. FlightInv'
    BY <1>1 DEF Tick, SafeRun, FlightInv, SingleFlight
  <2> QED
    BY <2>1, <2>2, <2>3 DEF Inv
<1>2. ASSUME Find(r) PROVE Inv'
  <2>1. TypeOK'
    BY <1>2 DEF Find, Unprocessed, TypeOK
  <2>2. CallInv'
    BY <1>2 DEF Find, CallInv
  <2>3. FlightInv'
    BY <1>2 DEF Find, FlightInv, SingleFlight
  <2> QED
    BY <2>1, <2>2, <2>3 DEF Inv
<1>3. ASSUME FindFails(r) \/ RunDone(r) PROVE Inv'
  <2>0. /\ EndRun(r) /\ pc[r] \in {"find", "next"}
        /\ UNCHANGED <<storeVars, sinkVars, up, upd, cronEnabled, edits, crashes>>
        /\ faults' \in 0 .. MaxFaults /\ faults' >= faults
    BY <1>3, <1>f, ConstAssumption DEF FindFails, RunDone, TypeOK, Fault
  <2>1. TypeOK'
    <3>1. doc' \in [Runs -> 0 .. N] /\ pc' \in [Runs -> Points]
      BY <2>0, ConstAssumption DEF EndRun
    <3>2. running' = FALSE /\ UNCHANGED <<batch, storeVars, sinkVars, up, upd, cronEnabled, edits, crashes>>
      BY <2>0 DEF EndRun
    <3> QED
      BY <2>0, <3>1, <3>2 DEF TypeOK
  <2>2. CallInv'
    BY <2>0, ConstAssumption DEF EndRun, CallInv, TypeOK
  <2>3. FlightInv'
    BY <2>0 DEF EndRun, FlightInv, SingleFlight
  <2> QED
    BY <2>1, <2>2, <2>3 DEF Inv
<1>4. ASSUME Begin(r) PROVE Inv'
  <2>1. PICK d \in batch[r] : /\ doc' = [doc EXCEPT ![r] = d]
                              /\ batch' = [batch EXCEPT ![r] = @ \ {d}]
                              /\ upd' = [upd EXCEPT ![r] = Call(d, "PROCESSING")]
    BY <1>4 DEF Begin
  <2>2. d \in Docs /\ Call(d, "PROCESSING") \in Frames /\ "PROCESSING" \in Statuses
    BY FrameTypes DEF Statuses
  <2>3. /\ doc' \in [Runs -> 0 .. N] /\ doc'[r] = d
        /\ \A q \in Runs : q # r => doc'[q] = doc[q]
    BY <2>1, <2>2
  <2>4. /\ Call(d, "PROCESSING").doc = d
        /\ Call(d, "PROCESSING").status = StatusAt("mark")
    BY <2>2, FrameTypes DEF StatusAt
  <2>5. faults \in Nat
    BY ConstAssumption DEF TypeOK
  <2>p. /\ pc[r] = "next" /\ pc' = [pc EXCEPT ![r] = "mark"]
        /\ running' = running /\ faults' \in Nat /\ faults' >= faults
    BY <1>4, <2>5 DEF Begin
  <2>6. /\ upd' \in [Updaters -> Frames] /\ pc' \in [Runs -> Points]
        /\ CallInv' /\ FlightInv'
    <3> DEFINE x == Call(d, "PROCESSING")
    <3>1. /\ x \in Frames /\ x.doc = doc'[r] /\ x.status = StatusAt("mark")
          /\ upd' = [upd EXCEPT ![r] = x]
      BY <2>1, <2>2, <2>3, <2>4
    <3>2. doc'[r] \in Docs
      BY <2>2, <2>3
    <3> HIDE DEF x
    <3> QED
      BY <3>1, <3>2, <2>p, <2>3, Inv, RunMoves
  <2>7. batch' \in [Runs -> SUBSET Docs]
    BY <2>1
  <2>8. TypeOK'
    BY <1>4, <2>3, <2>6, <2>7 DEF Begin, TypeOK
  <2> QED
    BY <2>6, <2>8 DEF Inv
<1>5. ASSUME NEW p \in Busy \cup {"next"}, NEW x \in Frames,
             pc[r] \in Busy, Goto(r, p), upd' = [upd EXCEPT ![r] = x],
             x.phase \in {"get", "put"} => /\ p \in {"mark", "complete", "fail"}
                                           /\ x.doc = doc[r] /\ x.status = StatusAt(p),
             UNCHANGED <<storeVars, up, running, batch, doc>>,
             solr' \in SUBSET Docs, sent' \in [Docs -> Nat], late' \in [Docs -> Nat],
             Fault \/ UNCHANGED boundVars
      PROVE  Inv'
  <2>1. /\ faults' \in 0 .. MaxFaults /\ faults' >= faults
        /\ faults' \in Nat /\ UNCHANGED <<cronEnabled, edits, crashes>>
    BY <1>5, ConstAssumption DEF Fault, TypeOK
  <2>2. doc[r] \in Docs
    BY <1>5 DEF CallInv
  <2>3. /\ upd' \in [Updaters -> Frames] /\ pc' \in [Runs -> Points]
        /\ CallInv' /\ FlightInv'
    BY <1>5, <2>1, <2>2, RunMoves
  <2>4. TypeOK'
    BY <1>5, <2>1, <2>3 DEF TypeOK
  <2> QED
    BY <2>3, <2>4 DEF Inv
<1>6. UNCHANGED sinkVars => solr' \in SUBSET Docs /\ sent' \in [Docs -> Nat] /\ late' \in [Docs -> Nat]
  BY DEF TypeOK
<1>7. pc[r] \in Busy /\ Deliver(doc[r]) => sent' \in [Docs -> Nat] /\ late' \in [Docs -> Nat]
  BY DEF TypeOK, CallInv, Deliver
<1>8. ASSUME NEW p \in {"complete", "fail"}, pc[r] \in Busy
      PROVE  /\ Call(doc[r], StatusAt(p)) \in Frames
             /\ Call(doc[r], StatusAt(p)).doc = doc[r]
             /\ Call(doc[r], StatusAt(p)).status = StatusAt(p)
  BY <1>8, FrameTypes DEF CallInv, StatusAt, Statuses
<1>9. ASSUME Marked(r) \/ DocDone(r) PROVE Inv'
  <2>1. /\ pc[r] \in Busy /\ upd' = [upd EXCEPT ![r] = NoCall]
        /\ UNCHANGED <<storeVars, sinkVars, up, running, batch, doc, boundVars>>
    BY <1>9 DEF Marked, DocDone
  <2>2. CASE Goto(r, "extract")
    BY <2>1, <2>2, <1>5, <1>6, FrameTypes
  <2>3. CASE Goto(r, "next")
    BY <2>1, <2>3, <1>5, <1>6, FrameTypes
  <2> QED
    BY <1>9, <2>2, <2>3 DEF Marked, DocDone
<1>10. ASSUME Extract(r) \/ Index(r) PROVE Inv'
  <2>1. upd' = [upd EXCEPT ![r] = upd[r]]
    BY <1>10 DEF Extract, Index
  <2>2. upd[r].phase \notin {"get", "put"} /\ upd[r] \in Frames
    BY <1>10 DEF Extract, Index, CallInv
  <2>3. solr' \in SUBSET Docs /\ sent' \in [Docs -> Nat] /\ late' \in [Docs -> Nat]
    BY <1>10 DEF Extract, Index, CallInv, TypeOK
  <2>4. \E p \in {"solr", "nifi"} : Goto(r, p)
    BY <1>10 DEF Extract, Index
  <2> QED
    BY <1>10, <2>1, <2>2, <2>3, <2>4, <1>5 DEF Extract, Index
<1>11. ASSUME ExtractFails(r) \/ IndexFails(r) \/ UpdateThrew(r) PROVE Inv'
  <2>1. pc[r] \in Busy /\ Goto(r, "fail") /\ upd' = [upd EXCEPT ![r] = Call(doc[r], StatusAt("fail"))]
    BY <1>11 DEF ExtractFails, IndexFails, UpdateThrew, Fail, Update, StatusAt
  <2>2. Fault \/ UNCHANGED boundVars
    BY <1>11 DEF ExtractFails, IndexFails, UpdateThrew
  <2>3. UNCHANGED <<storeVars, up, running, batch, doc>>
    BY <1>11 DEF ExtractFails, IndexFails, UpdateThrew
  <2>4. solr' \in SUBSET Docs /\ sent' \in [Docs -> Nat] /\ late' \in [Docs -> Nat]
    BY <1>11, <2>1 DEF ExtractFails, IndexFails, UpdateThrew, CallInv, TypeOK
  <2> QED
    BY <2>1, <2>2, <2>3, <2>4, <1>5, <1>8
<1>12. ASSUME Forward(r) PROVE Inv'
  <2>1. Goto(r, "complete") /\ upd' = [upd EXCEPT ![r] = Call(doc[r], StatusAt("complete"))]
    BY <1>12 DEF Forward, Update, StatusAt
  <2>2. solr' \in SUBSET Docs /\ sent' \in [Docs -> Nat] /\ late' \in [Docs -> Nat]
    BY <1>12, <1>7 DEF Forward, TypeOK
  <2>3. pc[r] \in Busy /\ UNCHANGED <<storeVars, up, running, batch, doc>> /\ UNCHANGED boundVars
    BY <1>12 DEF Forward
  <2> QED
    BY <2>1, <2>2, <2>3, <1>5, <1>8
<1>13. ASSUME ForwardFails(r) PROVE Inv'
  <2>1. PICK f \in Forks : upd' = [upd EXCEPT ![f] = Call(doc[r], "ERROR"),
                                              ![r] = Call(doc[r], "COMPLETED")]
    BY <1>13 DEF ForwardFails
  <2>2. /\ faults' \in 0 .. MaxFaults /\ faults' > 0 /\ UNCHANGED <<cronEnabled, edits, crashes>>
    BY <1>13, <1>f DEF ForwardFails
  <2>3. doc[r] \in Docs /\ pc[r] = "nifi"
    BY <1>13 DEF ForwardFails, CallInv
  <2>4. /\ Call(doc[r], "ERROR") \in Frames /\ Call(doc[r], "COMPLETED") \in Frames
        /\ Call(doc[r], "ERROR").doc = doc[r] /\ Call(doc[r], "ERROR").status = "ERROR"
        /\ Call(doc[r], "COMPLETED").doc = doc[r] /\ Call(doc[r], "COMPLETED").status = "COMPLETED"
    BY <2>3, FrameTypes DEF Statuses
  <2>5. f \in Updaters /\ \A q \in Runs : f # q
    BY ConstAssumption DEF Updaters
  <2>6. /\ upd' \in [Updaters -> Frames]
        /\ upd'[f] = Call(doc[r], "ERROR") /\ upd'[r] = Call(doc[r], "COMPLETED")
        /\ \A u \in Updaters : u # f /\ u # r => upd'[u] = upd[u]
    BY <2>1, <2>4, <2>5
  <2>7. /\ pc' = [pc EXCEPT ![r] = "complete"] /\ pc' \in [Runs -> Points]
        /\ UNCHANGED <<storeVars, solr, up, running, batch, doc>>
    BY <1>13 DEF ForwardFails
  <2>8. sent' \in [Docs -> Nat] /\ late' \in [Docs -> Nat]
    <3>1. CASE Deliver(doc[r])
      BY <3>1, <1>7, <2>3
    <3>2. CASE UNCHANGED <<sent, late>>
      BY <3>2 DEF TypeOK
    <3> QED
      BY <1>13, <3>1, <3>2 DEF ForwardFails
  <2>9. CallInv'
    <3>1. \A q \in Runs : pc'[q] \in Busy => doc'[q] \in Docs
      BY <2>3, <2>7 DEF CallInv
    <3>2. \A q \in Runs : upd'[q].phase \in {"get", "put"} =>
            /\ pc'[q] \in {"mark", "complete", "fail"}
            /\ upd'[q].doc = doc'[q]
            /\ upd'[q].status = StatusAt(pc'[q])
      <4> TAKE q \in Runs
      <4>1. CASE q = r
        BY <4>1, <2>4, <2>6, <2>7 DEF StatusAt
      <4>2. CASE q # r
        BY <4>2, <2>5, <2>6, <2>7 DEF CallInv, Updaters
      <4> QED
        BY <4>1, <4>2
    <3>3. \A g \in Forks : upd'[g].phase \in {"get", "put"} =>
            upd'[g].doc \in Docs /\ upd'[g].status = "ERROR" /\ faults' > 0
      <4> TAKE g \in Forks
      <4>1. CASE g = f
        BY <4>1, <2>2, <2>3, <2>4, <2>6
      <4>2. CASE g # f
        BY <4>2, <2>2, <2>6, ConstAssumption DEF CallInv, Updaters
      <4> QED
        BY <4>1, <4>2
    <3> QED
      BY <3>1, <3>2, <3>3 DEF CallInv, StatusAt
  <2>10. FlightInv'
    BY <2>3, <2>7 DEF FlightInv, SingleFlight
  <2>11. TypeOK'
    BY <2>2, <2>6, <2>7, <2>8 DEF TypeOK
  <2> QED
    BY <2>9, <2>10, <2>11 DEF Inv
<1> QED
  BY <1>1, <1>2, <1>3, <1>4, <1>9, <1>10, <1>11, <1>12, <1>13 DEF RunStep

(* A request of an update never starts a call, nor redirects one. *)
LEMMA RequestCalls ==
  ASSUME Inv, NEW u \in Updaters, Request(u)
  PROVE  /\ upd' \in [Updaters -> Frames]
         /\ \A v \in Updaters : upd'[v].phase \in {"get", "put"} =>
              /\ upd[v].phase \in {"get", "put"}
              /\ upd'[v].doc = upd[v].doc /\ upd'[v].status = upd[v].status
         /\ UNCHANGED <<cms, sinkVars, up, runVars, cronEnabled, edits, crashes>>
         /\ faults' \in 0 .. MaxFaults /\ faults' >= faults
<1> USE DEF storeVars, sinkVars, runVars, boundVars
<1>1. /\ TypeOK /\ upd \in [Updaters -> Frames] /\ body \in [Docs -> Bodies]
      /\ faults \in 0 .. MaxFaults
  BY DEF Inv, TypeOK
<1>2. faults \in Nat /\ faults <= MaxFaults /\ MaxFaults \in Nat
  BY <1>1, ConstAssumption
<1>3. Fault => faults' \in 0 .. MaxFaults /\ faults' >= faults /\ UNCHANGED <<cronEnabled, edits, crashes>>
  BY <1>2 DEF Fault
<1>4. upd[u].phase \in {"get", "put"} => upd[u].doc \in Docs
  BY DEF Inv, CallInv, Updaters, Busy
<1>5. ASSUME Get(u) PROVE upd' \in [Updaters -> Frames]
                        /\ upd'[u].doc = upd[u].doc /\ upd'[u].status = upd[u].status
                        /\ \A v \in Updaters : v # u => upd'[v] = upd[v]
  <2>1. upd[u] \in Frames /\ body[upd[u].doc] \in Bodies
    BY <1>1, <1>4, <1>5 DEF Get
  <2>2. upd' = [upd EXCEPT ![u] = [upd[u] EXCEPT !.phase = "put", !.fresh = TRUE,
                                                 !.body = body[upd[u].doc]]]
    BY <1>1, <1>5 DEF Get
  <2>3. [upd[u] EXCEPT !.phase = "put", !.fresh = TRUE, !.body = body[upd[u].doc]] \in Frames
    BY <2>1 DEF Frames, Phases
  <2>4. upd'[u] = [upd[u] EXCEPT !.phase = "put", !.fresh = TRUE, !.body = body[upd[u].doc]]
    BY <1>1, <2>2
  <2> QED
    BY <1>1, <2>1, <2>2, <2>3, <2>4 DEF Frames
<1>6. ASSUME NEW p \in {"ok", "threw"}, Write(u, p)
      PROVE  /\ upd' \in [Updaters -> Frames]
             /\ upd'[u].phase = p
             /\ \A v \in Updaters : v # u =>
                  /\ upd'[v].phase = upd[v].phase
                  /\ upd'[v].doc = upd[v].doc /\ upd'[v].status = upd[v].status
  <2>1. Outcome(p) \in Frames /\ Outcome(p).phase = p
    BY FrameTypes DEF Phases
  <2>2. upd' = [Outdated(upd[u].doc) EXCEPT ![u] = Outcome(p)]
    BY <1>6 DEF Write
  <2> QED
    BY <1>1, <2>1, <2>2, OutdatedFrames
<1>7. ASSUME PutConflict(u)
      PROVE  /\ upd' \in [Updaters -> Frames]
             /\ \A v \in Updaters : v # u => upd'[v] = upd[v]
             /\ upd'[u].phase \in {"get", "put"} =>
                  upd'[u].doc = upd[u].doc /\ upd'[u].status = upd[u].status
  <2>1. CASE upd[u].attempt < Retries
    <3> DEFINE x == Frame("get", upd[u].doc, upd[u].status, upd[u].attempt + 1)
    <3>1. upd[u] \in Frames
      BY <1>1
    <3>2. x \in Frames /\ x.doc = upd[u].doc /\ x.status = upd[u].status
      BY <2>1, <3>1, BodyTypes, ConstAssumption DEF Frame, Frames, Phases
    <3>3. upd' = [upd EXCEPT ![u] = x]
      BY <1>7, <2>1 DEF PutConflict
    <3> HIDE DEF x
    <3> QED
      BY <1>1, <3>2, <3>3
  <2>2. CASE ~(upd[u].attempt < Retries)
    <3>1. upd' = [upd EXCEPT ![u] = Outcome("threw")]
      BY <1>7, <2>2 DEF PutConflict
    <3>2. Outcome("threw") \in Frames /\ Outcome("threw").phase = "threw"
      BY FrameTypes DEF Phases
    <3> QED
      BY <1>1, <3>1, <3>2
  <2> QED
    BY <2>1, <2>2
<1>8. ASSUME RequestFails(u)
      PROVE  /\ upd' \in [Updaters -> Frames]
             /\ upd'[u].phase = "threw"
             /\ \A v \in Updaters : v # u => upd'[v] = upd[v]
  <2>1. Outcome("threw") \in Frames /\ Outcome("threw").phase = "threw"
    BY FrameTypes DEF Phases
  <2> QED
    BY <1>1, <1>8, <2>1 DEF RequestFails
<1>9. CASE Get(u)
  BY <1>9, <1>2, <1>5 DEF Get
<1>10. CASE Put(u)
  BY <1>10, <1>2, <1>6 DEF Put, Write
<1>11. CASE PutAnswerLost(u)
  BY <1>11, <1>3, <1>6 DEF PutAnswerLost, Write
<1>12. CASE PutConflict(u)
  BY <1>12, <1>2, <1>7 DEF PutConflict
<1>13. CASE RequestFails(u)
  BY <1>13, <1>3, <1>8 DEF RequestFails
<1> QED
  BY <1>9, <1>10, <1>11, <1>12, <1>13 DEF Request

LEMMA InvRequest == ASSUME Inv, NEW u \in Updaters, Request(u) PROVE Inv'
<1> USE DEF storeVars, sinkVars, runVars, boundVars
<1>1. TypeOK /\ CallInv /\ FlightInv
  BY DEF Inv
<1>2. status' \in [Docs -> Statuses] /\ body' \in [Docs -> Bodies]
  <2>1. CASE UNCHANGED <<status, body>>
    BY <1>1, <2>1 DEF TypeOK
  <2>2. CASE \E p \in {"ok", "threw"} : Write(u, p)
    BY <1>1, <2>2 DEF Write, TypeOK, Frames
  <2> QED
    BY <2>1, <2>2 DEF Request, Get, Put, PutAnswerLost, PutConflict, RequestFails
<1>3. TypeOK'
  BY <1>1, <1>2, RequestCalls DEF TypeOK
<1>4. CallInv'
  <2>1. faults \in Nat /\ faults' \in Nat
    BY <1>1, RequestCalls, ConstAssumption DEF TypeOK
  <2> QED
    BY <1>1, <2>1, RequestCalls DEF CallInv, Updaters, StatusAt
<1>5. FlightInv'
  BY <1>1, RequestCalls DEF FlightInv, SingleFlight
<1> QED
  BY <1>3, <1>4, <1>5 DEF Inv

LEMMA InvDie ==
  ASSUME Inv, Die, faults' \in 0 .. MaxFaults, edits' \in 0 .. MaxEdits,
         crashes' \in 0 .. MaxCrashes, cronEnabled' = cronEnabled
  PROVE  Inv'
<1>1. TypeOK'
  <2>1. /\ up' \in BOOLEAN /\ running' \in BOOLEAN /\ UNCHANGED <<storeVars, sinkVars>>
        /\ pc' \in [Runs -> Points] /\ batch' \in [Runs -> SUBSET Docs]
    BY DEF Die, Points
  <2>2. doc' \in [Runs -> 0 .. N] /\ upd' \in [Updaters -> Frames]
    BY FrameTypes, ConstAssumption DEF Die
  <2> QED
    BY <2>1, <2>2 DEF Inv, TypeOK, storeVars, sinkVars
<1>2. CallInv'
  BY FrameTypes DEF Die, CallInv, Busy, Updaters
<1>3. FlightInv'
  BY DEF Die, FlightInv, SingleFlight
<1> QED
  BY <1>1, <1>2, <1>3 DEF Inv

LEMMA InvNext == Inv /\ [Next]_vars => Inv'
<1> SUFFICES ASSUME Inv, [Next]_vars PROVE Inv'
  OBVIOUS
<1> USE DEF storeVars, sinkVars, runVars, boundVars
<1>1. TypeOK /\ CallInv /\ FlightInv
  BY DEF Inv
<1>2. ASSUME NEW f \in Forks, ForkStep(f) PROVE Inv'
  <2>1. CASE ForkDone(f)
    <3>1. /\ upd' = [upd EXCEPT ![f] = NoCall] /\ f \in Updaters
          /\ NoCall \in Frames /\ NoCall.phase = "off"
      BY <2>1, FrameTypes DEF ForkDone, Updaters
    <3>2. /\ upd' \in [Updaters -> Frames]
          /\ \A v \in Updaters : upd'[v].phase \in {"get", "put"} => upd'[v] = upd[v]
      BY <1>1, <3>1 DEF TypeOK
    <3>3. TypeOK'
      BY <1>1, <2>1, <3>2 DEF ForkDone, TypeOK
    <3>4. CallInv'
      BY <1>1, <2>1, <3>2 DEF ForkDone, CallInv, Updaters, StatusAt
    <3>5. FlightInv'
      BY <1>1, <2>1 DEF ForkDone, FlightInv, SingleFlight
    <3> QED
      BY <3>3, <3>4, <3>5 DEF Inv
  <2>2. CASE ForkThrew(f)
    BY <1>1, <2>2, InvDie DEF ForkThrew, TypeOK
  <2> QED
    BY <1>2, <2>1, <2>2 DEF ForkStep
<1>3. CASE Crash
  <2>1. crashes' \in 0 .. MaxCrashes
    BY <1>1, <1>3, ConstAssumption DEF Crash, TypeOK
  <2> QED
    BY <1>1, <1>3, <2>1, InvDie DEF Crash, TypeOK
<1>4. CASE Exit
  BY <1>1, <1>4 DEF Exit, Inv, TypeOK, CallInv, FlightInv, SingleFlight
<1>5. ASSUME NEW r \in Runs, Start(r) PROVE Inv'
  <2>1. /\ UNCHANGED <<storeVars, sinkVars, batch, doc, upd, boundVars>>
        /\ up' = TRUE
        /\ \/ UNCHANGED <<running, pc>>
           \/ ~running /\ running' = TRUE /\ pc' = [pc EXCEPT ![r] = "find"]
    BY <1>5 DEF Start, SafeRun, Goto
  <2>2. TypeOK'
    BY <1>1, <2>1 DEF TypeOK, Points
  <2>3. CallInv'
    BY <1>1, <2>1 DEF CallInv, FlightInv, TypeOK, Busy
  <2>4. FlightInv'
    BY <1>1, <2>1 DEF FlightInv, SingleFlight, TypeOK
  <2> QED
    BY <2>2, <2>3, <2>4 DEF Inv
<1>6. ASSUME NEW d \in Docs, NEW archived \in BOOLEAN, CmsWrite(d, archived) PROVE Inv'
  <2>1. edits \in Nat /\ edits + 1 \in 0 .. MaxEdits
    BY <1>1, <1>6, ConstAssumption DEF CmsWrite, TypeOK
  <2>2. body' \in [Docs -> Bodies] /\ cms' = body'
    BY <1>1, <1>6, <2>1, BodyTypes DEF CmsWrite, TypeOK
  <2>3. /\ upd' \in [Updaters -> Frames]
        /\ \A v \in Updaters : /\ upd'[v].phase = upd[v].phase
                               /\ upd'[v].doc = upd[v].doc /\ upd'[v].status = upd[v].status
    BY <1>1, <1>6, OutdatedFrames DEF CmsWrite
  <2>4. late' \in [Docs -> Nat]
    BY <1>1, <1>6 DEF CmsWrite, TypeOK
  <2>5. TypeOK'
    BY <1>1, <1>6, <2>1, <2>2, <2>3, <2>4 DEF CmsWrite, TypeOK
  <2>6. CallInv'
    BY <1>1, <1>6, <2>3 DEF CmsWrite, CallInv, Updaters, StatusAt
  <2>7. FlightInv'
    BY <1>1, <1>6 DEF CmsWrite, FlightInv, SingleFlight
  <2> QED
    BY <2>5, <2>6, <2>7 DEF Inv
<1>7. CASE UNCHANGED vars
  BY <1>1, <1>7 DEF vars, Inv, TypeOK, CallInv, FlightInv, SingleFlight, StatusAt
<1> QED
  BY <1>2, <1>3, <1>4, <1>5, <1>6, <1>7, InvRun, InvRequest DEF Next, Boot
-----------------------------------------------------------------------------
(* Every variable keeps its type, whatever fails and whoever writes. *)
THEOREM TypeCorrect == Spec => []TypeOK
<1>1. Inv => TypeOK
  BY DEF Inv
<1> QED
  BY <1>1, InvInit, InvNext, PTL DEF Spec

(* safeRun's flag admits one run at a time: cron ticks that come while a   *)
(* run is in progress, failed searches and restarts included.              *)
THEOREM RunsDoNotOverlap == Spec => []SingleFlight
<1>1. Inv => SingleFlight
  BY DEF Inv, FlightInv
<1> QED
  BY <1>1, InvInit, InvNext, PTL DEF Spec
=============================================================================
