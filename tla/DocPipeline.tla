---------------------------- MODULE DocPipeline ----------------------------
(***************************************************************************)
(* The unstructured pipeline (unstructured-pipeline/src): a cron job finds *)
(* the evidence documents of CouchDB that are not COMPLETED and takes each *)
(* through Tika, Solr and NiFi, recording its progress in the document's   *)
(* processingStatus.  Case management (the CMS) edits and archives the     *)
(* same documents meanwhile.                                               *)
(*                                                                         *)
(* A document is its place in _id order, the order _find answers in.       *)
(* CouchDB never reuses a revision, so a PUT can only tell whether the     *)
(* document was written since the GET: "fresh" in an update's frame.       *)
(***************************************************************************)
EXTENDS Naturals, FiniteSets

CONSTANTS N,          \* number of documents
          Poison,     \* documents no attempt can extract (bad attachment,
                      \* metadata, size or key: the document itself is at fault)
          FindLimit,  \* "limit: 1000" of the _find request
          Retries,    \* DEFAULT_RETRIES of updateStatus
          Runs,       \* identities of calls of safeRun that may be in progress
          CronModes, \* values of CRON_ENABLED to consider
          MaxFaults,  \* bound: external calls that fail or whose answer is lost
          MaxEdits,   \* bound: writes of the CMS
          MaxCrashes  \* bound: deaths of the process by an outside cause

Docs == 1 .. N
Forks == 1 .. MaxFaults   \* updateStatus calls nobody awaits, one per failed send
Updaters == Runs \cup Forks

ASSUME ConstAssumption ==
  /\ N \in Nat \ {0} /\ Poison \subseteq Docs
  /\ FindLimit \in Nat \ {0} /\ Retries \in Nat \ {0}
  /\ CronModes \subseteq BOOLEAN
  /\ Runs \cap Forks = {}
  /\ MaxFaults \in Nat /\ MaxEdits \in Nat /\ MaxCrashes \in Nat

VARIABLES
  status,    \* processingStatus of each document in CouchDB
  body,      \* its other fields, owned by the CMS
  cms,       \* history: the body the CMS wrote last
  solr,      \* documents indexed in Solr
  sent,      \* history: times NiFi received each document
  late,      \* history: times it did so while the document was archived
  up,        \* the process is alive
  running,   \* the flag of safeRun
  pc,        \* where each run is
  batch,     \* documents its for loop has yet to process
  doc,       \* the document it is processing
  upd,       \* the updateStatus call in progress, of each run and each fork
  cronEnabled, \* CRON_ENABLED, of the container's environment
  faults, edits, crashes   \* counters of the bounds above

storeVars == <<status, body, cms>>
sinkVars == <<solr, sent, late>>
runVars == <<running, pc, batch, doc>>
boundVars == <<cronEnabled, faults, edits, crashes>>
vars == <<storeVars, sinkVars, up, runVars, upd, boundVars>>

Statuses == {"none", "PROCESSING", "COMPLETED", "ERROR"}
Bodies == [version : 0 .. MaxEdits, archived : BOOLEAN]
FirstBody == [version |-> 0, archived |-> FALSE]

Points == {"off", "find", "next", "mark", "extract", "solr", "nifi", "complete", "fail"}

(* One call of updateStatus: "get" and "put" are its two requests, "ok" and *)
(* "threw" its outcomes, not yet seen by the caller.                        *)
Phases == {"off", "get", "put", "ok", "threw"}
Frames == [phase : Phases, doc : 0 .. N, status : Statuses,
           attempt : 0 .. Retries, fresh : BOOLEAN, body : Bodies]
Frame(p, d, s, n) ==
  [phase |-> p, doc |-> d, status |-> s, attempt |-> n, fresh |-> FALSE, body |-> FirstBody]
NoCall == Frame("off", 0, "none", 0)
Call(d, s) == Frame("get", d, s, 1)
Outcome(p) == Frame(p, 0, "none", 0)

Init ==
  /\ status = [d \in Docs |-> "none"]
  /\ body = [d \in Docs |-> FirstBody]
  /\ cms = body
  /\ solr = {}
  /\ sent = [d \in Docs |-> 0]
  /\ late = [d \in Docs |-> 0]
  /\ up = FALSE
  /\ running = FALSE
  /\ pc = [r \in Runs |-> "off"]
  /\ batch = [r \in Runs |-> {}]
  /\ doc = [r \in Runs |-> 0]
  /\ upd = [u \in Updaters |-> NoCall]
  /\ cronEnabled \in CronModes
  /\ faults = 0 /\ edits = 0 /\ crashes = 0

Goto(r, p) == pc' = [pc EXCEPT ![r] = p]

Fault == faults < MaxFaults /\ faults' = faults + 1 /\ UNCHANGED <<cronEnabled, edits, crashes>>
-----------------------------------------------------------------------------
(* updateStatus: GET the document, PUT it back with the new status.        *)

(* A write of d makes stale what every other update has read of it. *)
Outdated(d) == [u \in Updaters |->
  IF upd[u].doc = d THEN [upd[u] EXCEPT !.fresh = FALSE] ELSE upd[u]]

Get(u) ==
  /\ upd[u].phase = "get"
  /\ upd' = [upd EXCEPT ![u].phase = "put", ![u].fresh = TRUE,
                        ![u].body = body[upd[u].doc]]
  /\ UNCHANGED <<storeVars, sinkVars, up, runVars, boundVars>>

\* Variant: a PUT that overwrites whatever is there.
WriteBlind(u, p) ==
  LET d == upd[u].doc IN
  /\ upd[u].phase = "put"
  /\ status' = [status EXCEPT ![d] = upd[u].status]
  /\ body' = [body EXCEPT ![d] = upd[u].body]
  /\ upd' = [Outdated(d) EXCEPT ![u] = Outcome(p)]
  /\ UNCHANGED <<cms, sinkVars, up, runVars>>

(* The PUT replaces the whole document; its caller then sees outcome p. *)
Write(u, p) ==
  LET d == upd[u].doc IN
  /\ upd[u].phase = "put"
  /\ upd[u].fresh
  /\ status' = [status EXCEPT ![d] = upd[u].status]
  /\ body' = [body EXCEPT ![d] = upd[u].body]
  /\ upd' = [Outdated(d) EXCEPT ![u] = Outcome(p)]
  /\ UNCHANGED <<cms, sinkVars, up, runVars>>

Put(u) == Write(u, "ok") /\ UNCHANGED boundVars

PutAnswerLost(u) == Write(u, "threw") /\ Fault

\* Variant: one attempt too many.
PutConflictOnceMore(u) ==
  /\ upd[u].phase = "put"
  /\ ~upd[u].fresh
  /\ upd' = [upd EXCEPT ![u] =
       IF @.attempt <= Retries
       THEN Frame("get", @.doc, @.status, @.attempt + 1)
       ELSE Outcome("threw")]
  /\ UNCHANGED <<storeVars, sinkVars, up, runVars, boundVars>>

(* HTTP 409: sleep and read again, or give up after the last attempt. *)
PutConflict(u) ==
  /\ upd[u].phase = "put"
  /\ ~upd[u].fresh
  /\ upd' = [upd EXCEPT ![u] =
       IF @.attempt < Retries
       THEN Frame("get", @.doc, @.status, @.attempt + 1)
       ELSE Outcome("threw")]
  /\ UNCHANGED <<storeVars, sinkVars, up, runVars, boundVars>>

RequestFails(u) ==
  /\ upd[u].phase \in {"get", "put"}
  /\ Fault
  /\ upd' = [upd EXCEPT ![u] = Outcome("threw")]
  /\ UNCHANGED <<storeVars, sinkVars, up, runVars>>
-----------------------------------------------------------------------------
(* safeRun and run *)

\* Variant: the running flag is not tested.
SafeRunAlways(r) ==
  /\ running' = TRUE
  /\ pc[r] = "off"
  /\ Goto(r, "find")
  /\ UNCHANGED <<batch, doc>>

SafeRun(r) ==
  /\ ~running
  /\ running' = TRUE
  /\ pc[r] = "off"
  /\ Goto(r, "find")
  /\ UNCHANGED <<batch, doc>>

(* A cron tick; one that comes while a run is in progress does nothing. *)
Tick(r) ==
  /\ up /\ cronEnabled
  /\ SafeRun(r)
  /\ UNCHANGED <<storeVars, sinkVars, up, upd, boundVars>>

EndRun(r) ==
  /\ running' = FALSE
  /\ Goto(r, "off")
  /\ doc' = [doc EXCEPT ![r] = 0]
  /\ UNCHANGED batch

\* Variants: a selector that forgets the status, one that forgets archived
\* documents, and one without retries of what failed before.
UnprocessedAnyStatus == {d \in Docs : ~body[d].archived}
UnprocessedOrArchived == {d \in Docs : status[d] # "COMPLETED"}
UnprocessedUnmarked == {d \in Docs : status[d] = "none" /\ ~body[d].archived}

Unprocessed == {d \in Docs : status[d] # "COMPLETED" /\ ~body[d].archived}

Find(r) ==
  /\ pc[r] = "find"
  /\ batch' = [batch EXCEPT ![r] =
       {d \in Unprocessed : Cardinality({e \in Unprocessed : e < d}) < FindLimit}]
  /\ Goto(r, "next")
  /\ UNCHANGED <<storeVars, sinkVars, up, running, doc, upd, boundVars>>

\* Variant: the flag is reset on success only.
FindFailsStuck(r) ==
  /\ pc[r] = "find"
  /\ Fault
  /\ Goto(r, "off")
  /\ UNCHANGED <<storeVars, sinkVars, up, upd, running, batch, doc>>

FindFails(r) ==
  /\ pc[r] = "find"
  /\ Fault
  /\ EndRun(r)
  /\ UNCHANGED <<storeVars, sinkVars, up, upd>>

RunDone(r) ==
  /\ pc[r] = "next"
  /\ batch[r] = {}
  /\ EndRun(r)
  /\ UNCHANGED <<storeVars, sinkVars, up, upd, boundVars>>
-----------------------------------------------------------------------------
(* processDocument, from one await to the next *)

Begin(r) ==
  /\ pc[r] = "next"
  /\ \E d \in batch[r] :
       /\ \A e \in batch[r] : d <= e
       /\ doc' = [doc EXCEPT ![r] = d]
       /\ batch' = [batch EXCEPT ![r] = @ \ {d}]
       /\ upd' = [upd EXCEPT ![r] = Call(d, "PROCESSING")]
  /\ Goto(r, "mark")
  /\ UNCHANGED <<storeVars, sinkVars, up, running, boundVars>>

(* An awaited updateStatus(docId, s), at whose outcome the run is at p *)
Update(r, p, s) ==
  /\ Goto(r, p)
  /\ upd' = [upd EXCEPT ![r] = Call(doc[r], s)]

(* The outer onError of lines 174-192 *)
Fail(r) == Update(r, "fail", "ERROR")

Marked(r) ==
  /\ pc[r] = "mark"
  /\ upd[r].phase = "ok"
  /\ upd' = [upd EXCEPT ![r] = NoCall]
  /\ Goto(r, "extract")
  /\ UNCHANGED <<storeVars, sinkVars, up, running, batch, doc, boundVars>>

(* The checks of the snapshot, the attachment, its decryption and Tika *)
Extract(r) ==
  /\ pc[r] = "extract"
  /\ doc[r] \notin Poison
  /\ Goto(r, "solr")
  /\ UNCHANGED <<storeVars, sinkVars, up, running, batch, doc, upd, boundVars>>

ExtractFails(r) ==
  /\ pc[r] = "extract"
  /\ \/ doc[r] \in Poison /\ UNCHANGED boundVars
     \/ doc[r] \notin Poison /\ Fault
  /\ Fail(r)
  /\ UNCHANGED <<storeVars, sinkVars, up, running, batch, doc>>

Index(r) ==
  /\ pc[r] = "solr"
  /\ solr' = solr \cup {doc[r]}
  /\ Goto(r, "nifi")
  /\ UNCHANGED <<storeVars, sent, late, up, running, batch, doc, upd, boundVars>>

\* Variant: the failure is logged and swallowed, as NiFi's is.
IndexFailsSwallowed(r) ==
  /\ pc[r] = "solr"
  /\ Fault
  /\ solr' \in {solr, solr \cup {doc[r]}}
  /\ Goto(r, "nifi")
  /\ UNCHANGED <<storeVars, sent, late, up, running, batch, doc, upd>>

(* Rethrown; Solr may have indexed the document all the same. *)
IndexFails(r) ==
  /\ pc[r] = "solr"
  /\ Fault
  /\ solr' \in {solr, solr \cup {doc[r]}}
  /\ Fail(r)
  /\ UNCHANGED <<storeVars, sent, late, up, running, batch, doc>>

Deliver(d) ==
  /\ sent' = [sent EXCEPT ![d] = @ + 1]
  /\ late' = [late EXCEPT ![d] = IF body[d].archived THEN @ + 1 ELSE @]

Forward(r) ==
  /\ pc[r] = "nifi"
  /\ Deliver(doc[r])
  /\ Update(r, "complete", "COMPLETED")
  /\ UNCHANGED <<storeVars, solr, up, running, batch, doc, boundVars>>

(* The error is logged and swallowed; updateStatus(docId, 'ERROR') starts  *)
(* but is not awaited, and the run goes on to mark the document COMPLETED. *)
(* After a timeout NiFi may have the document nevertheless.                *)
ForwardFails(r) ==
  /\ pc[r] = "nifi"
  /\ Fault
  /\ Deliver(doc[r]) \/ UNCHANGED <<sent, late>>
  /\ \E f \in Forks :
       /\ upd[f].phase = "off"
       /\ upd' = [upd EXCEPT ![f] = Call(doc[r], "ERROR"),
                             ![r] = Call(doc[r], "COMPLETED")]
  /\ Goto(r, "complete")
  /\ UNCHANGED <<storeVars, solr, up, running, batch, doc>>

(* updateStatus threw: PROCESSING or COMPLETED was not confirmed. *)
UpdateThrew(r) ==
  /\ pc[r] \in {"mark", "complete"}
  /\ upd[r].phase = "threw"
  /\ Fail(r)
  /\ UNCHANGED <<storeVars, sinkVars, up, running, batch, doc, boundVars>>

(* COMPLETED confirmed, or the ERROR update over, failed or not *)
DocDone(r) ==
  /\ \/ pc[r] = "complete" /\ upd[r].phase = "ok"
     \/ pc[r] = "fail" /\ upd[r].phase \in {"ok", "threw"}
  /\ upd' = [upd EXCEPT ![r] = NoCall]
  /\ Goto(r, "next")
  /\ UNCHANGED <<storeVars, sinkVars, up, running, batch, doc, boundVars>>
-----------------------------------------------------------------------------
(* The process: memory is lost, the stores stay. *)

Die ==
  /\ up' = FALSE
  /\ running' = FALSE
  /\ pc' = [r \in Runs |-> "off"]
  /\ batch' = [r \in Runs |-> {}]
  /\ doc' = [r \in Runs |-> 0]
  /\ upd' = [u \in Updaters |-> NoCall]
  /\ UNCHANGED <<storeVars, sinkVars>>

ForkDone(f) ==
  /\ upd[f].phase = "ok"
  /\ upd' = [upd EXCEPT ![f] = NoCall]
  /\ UNCHANGED <<storeVars, sinkVars, up, runVars, boundVars>>

(* Node ends the process on the rejection of a promise nobody awaits. *)
ForkThrew(f) == upd[f].phase = "threw" /\ Die /\ UNCHANGED boundVars

Crash ==
  /\ up /\ crashes < MaxCrashes
  /\ crashes' = crashes + 1
  /\ Die
  /\ UNCHANGED <<cronEnabled, faults, edits>>

(* Without cron nothing keeps the event loop alive after the one run. *)
Exit ==
  /\ up /\ ~cronEnabled /\ ~running
  /\ \A f \in Forks : upd[f].phase = "off"
  /\ up' = FALSE
  /\ UNCHANGED <<storeVars, sinkVars, runVars, upd, boundVars>>

(* startProcessor, in a container that is restarted unless stopped *)
Start(r) ==
  /\ ~up
  /\ up' = TRUE
  /\ IF cronEnabled THEN UNCHANGED runVars ELSE SafeRun(r)
  /\ UNCHANGED <<storeVars, sinkVars, upd, boundVars>>

(* The CMS changes the fields it owns, with the revision it has just read. *)
CmsWrite(d, archived) ==
  /\ edits < MaxEdits
  /\ edits' = edits + 1
  /\ body' = [body EXCEPT ![d] = [version |-> edits + 1, archived |-> archived]]
  /\ cms' = body'
  /\ late' = [late EXCEPT ![d] = IF archived THEN @ ELSE 0]
  /\ upd' = Outdated(d)
  /\ UNCHANGED <<status, solr, sent, up, runVars, cronEnabled, faults, crashes>>
-----------------------------------------------------------------------------
Request(u) ==
  Get(u) \/ Put(u) \/ PutAnswerLost(u) \/ PutConflict(u) \/ RequestFails(u)

RunStep(r) ==
  \/ Find(r) \/ FindFails(r) \/ RunDone(r) \/ Begin(r)
  \/ Marked(r) \/ Extract(r) \/ ExtractFails(r) \/ Index(r) \/ IndexFails(r)
  \/ Forward(r) \/ ForwardFails(r) \/ UpdateThrew(r) \/ DocDone(r)

ForkStep(f) == ForkDone(f) \/ ForkThrew(f)

Boot == Exit \/ \E r \in Runs : Start(r)

Next ==
  \/ \E r \in Runs : Tick(r) \/ RunStep(r)
  \/ \E u \in Updaters : Request(u)
  \/ \E f \in Forks : ForkStep(f)
  \/ Boot
  \/ Crash
  \/ \E d \in Docs, archived \in BOOLEAN : CmsWrite(d, archived)

Spec == Init /\ [][Next]_vars

(* Cron ticks, the container restarts, requests are answered one way or    *)
(* another and the event loop runs what is ready.  Faults, crashes and CMS *)
(* writes are never obliged to happen.                                     *)
FairSpec ==
  /\ Spec
  /\ WF_vars(\E r \in Runs : Tick(r))
  /\ \A r \in Runs : WF_vars(RunStep(r))
  /\ \A u \in Updaters : WF_vars(Request(u))
  /\ \A f \in Forks : WF_vars(ForkStep(f))
  /\ WF_vars(Boot)
-----------------------------------------------------------------------------
TypeOK ==
  /\ status \in [Docs -> Statuses]
  /\ body \in [Docs -> Bodies]
  /\ cms \in [Docs -> Bodies]
  /\ solr \in SUBSET Docs
  /\ sent \in [Docs -> Nat]
  /\ late \in [Docs -> Nat]
  /\ up \in BOOLEAN
  /\ running \in BOOLEAN
  /\ pc \in [Runs -> Points]
  /\ batch \in [Runs -> SUBSET Docs]
  /\ doc \in [Runs -> 0 .. N]
  /\ upd \in [Updaters -> Frames]
  /\ cronEnabled \in CronModes
  /\ faults \in 0 .. MaxFaults /\ edits \in 0 .. MaxEdits /\ crashes \in 0 .. MaxCrashes

(* A COMPLETED document can be found in Solr: Solr's failures are          *)
(* rethrown, and no update that races with the run writes COMPLETED.       *)
CompletedIsIndexed == \A d \in Docs : status[d] = "COMPLETED" => d \in solr

(* "Conflict Resolution" (README line 13): updateStatus puts back a whole  *)
(* document, yet never undoes what the CMS wrote between its GET and PUT.  *)
CmsFieldsSurvive == body = cms

(* The running flag keeps cron from overlapping two runs, also across      *)
(* failures of _find and restarts.                                         *)
SingleFlight == \A q, r \in Runs : pc[q] # "off" /\ pc[r] # "off" => q = r

(* A COMPLETED document is not taken up again: the only thing that can     *)
(* still happen to it is an ERROR written after a failed call.             *)
CompletedIsFinal ==
  [][\A d \in Docs : status[d] = "COMPLETED" /\ status'[d] # "COMPLETED"
                       => status'[d] = "ERROR" /\ faults > 0]_vars

(* NiFi receives a document again only for a reason: each delivery beyond  *)
(* the first is paid for by a failed call, a crash or a CMS write.         *)
RedeliveryHasACause ==
  \A d \in Docs : sent[d] <= 1 + faults + crashes + edits

(* Once archived, a document may be forwarded as part of a batch found     *)
(* before, but no more than once.                                          *)
ArchivedForwardedAtMostOnce == \A d \in Docs : late[d] <= 1

(* Every healthy document ends up COMPLETED, or archived, if the documents *)
(* that can never be extracted and sort before it leave it a place among   *)
(* the FindLimit that _find returns.                                       *)
Settled(d) == status[d] = "COMPLETED" \/ body[d].archived

HealthyDocsSettle ==
  \A d \in Docs \ Poison :
    Cardinality({p \in Poison : p < d}) < FindLimit => <>[]Settled(d)
-----------------------------------------------------------------------------
(* What the documentation says of the program and the code does not do     *)

(* "Forward: Send full content and metadata to NiFi", then "Update: Mark   *)
(* document as COMPLETED" (README lines 105-106): COMPLETED documents have *)
(* reached NiFi.                                                           *)
CompletedWasForwarded == \A d \in Docs : status[d] = "COMPLETED" => sent[d] > 0

(* "should process all unprocessed documents" (job.spec.ts line 156): each *)
(* healthy document is processed sooner or later.                          *)
AllHealthyDocsSettle == \A d \in Docs \ Poison : <>[]Settled(d)
=============================================================================
