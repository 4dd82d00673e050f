----------------------------- MODULE EtlLayers -----------------------------
(***************************************************************************)
(* Jobs of one ETL class over the layers of its table.  A job reads its    *)
(* source file and makes the writes of run() one after the other, each     *)
(* from the whole of the layer below.  Sources send revisions again and    *)
(* in any order; a job may die between two writes.                         *)
(*                                                                         *)
(* There is one worker, as NUM_WORKERS is by default, so that jobs follow  *)
(* each other.  Two writers of one Hudi table would need the concurrency   *)
(* control that BaseETL does not configure; what they do to it without is  *)
(* not modelled.                                                           *)
(***************************************************************************)
EXTENDS HudiTable, EtlCatalog

CONSTANTS Ids, Revs,    \* business keys and their revisions, numbers
          Items,        \* elements of an exploded array
          Names,        \* the classes of Catalog to consider
          RefOf,        \* the identifier in the payload of <<id, revision>>, or Null
          Malformed,    \* <<id, revision>> of payloads that fail the DQ rules
          MaxLoads,     \* bound: jobs started
          MaxFailures   \* bound: jobs that die between or during writes

ASSUME KeysAssumption == Ids \subseteq Nat /\ Revs \subseteq Nat /\ Items \subseteq Nat
ASSUME BoundsAssumption == MaxLoads \in Nat /\ MaxFailures \in Nat
ASSUME NamesAssumption == Names \subseteq DOMAIN Catalog
ASSUME SourceAssumption ==
  RefOf \in [Ids \X Revs -> Ids \cup {Null}] /\ Malformed \subseteq Ids \X Revs

VARIABLES
  etl,       \* the writes of the class at work
  lake,      \* its tables, sets of rows
  job,       \* what the worker is doing
  clock,     \* jobs started so far; the current_timestamp() of their bronze
  failures,  \* counter of the bound above
  last,      \* history: revisions of each id in the last load committed
  settled,   \* history: the last job whose bronze committed ran to its end
  promised   \* history: ids brought by jobs that ran to their end

vars == <<etl, lake, job, clock, failures, last, settled, promised>>

Layers == {"bronze", "silver", "gold", "dlq"}

SourceRow(i, v) ==
  [id |-> i, rev |-> v, born |-> i, day |-> v, ref |-> RefOf[<<i, v>>],
   ok |-> <<i, v>> \notin Malformed, item |-> 0, stamp |-> 0, now |-> 0]

Source == {SourceRow(i, v) : i \in Ids, v \in Revs}

Idle == [step |-> 0, merged |-> FALSE, batch |-> {}, next |-> {}]

Init ==
  /\ etl \in {Catalog[n] : n \in Names}
  /\ lake = [t \in Layers |-> {}]
  /\ job = Idle
  /\ clock = 0
  /\ failures = 0
  /\ last = [i \in Ids |-> {}]
  /\ settled = TRUE
  /\ promised = {}
-----------------------------------------------------------------------------
(* run(source_path) begins.  The clock is that of current_timestamp(). *)
Start ==
  /\ job = Idle
  /\ clock < MaxLoads
  /\ \E r, s \in Source :
       job' = [Idle EXCEPT !.step = 1, !.batch = {[q EXCEPT !.stamp = clock + 1] : q \in {r, s}}]
  /\ clock' = clock + 1
  /\ UNCHANGED <<etl, lake, failures, last, settled, promised>>

(* What a write makes of the rows it has chosen *)
Parts(w, R) ==
  IF w.exploded THEN {[r EXCEPT !.item = k] : r \in R, k \in Items}
  ELSE IF w.summed THEN {[r EXCEPT !.rev = Null, !.day = Null] : r \in R}
  ELSE R

(* What it may write: its input deduplicated, exploded or summed, filtered *)
Inputs(w, batch) ==
  LET rows == IF w.from = "raw" THEN batch ELSE lake[w.from]
  IN  { {r \in Parts(w, R) : r.ok \in w.dq} : R \in LatestPer(rows, w.one, w.by) }

(* A write in progress has read its input and merges it into its table. *)
Merge ==
  LET w == etl[job.step]
  IN  /\ job.step # 0 /\ ~job.merged
      /\ \E rows \in Inputs(w, job.batch) :
           /\ Writable(rows, w)
           /\ \E t \in Upserts(lake[w.to], rows, w) :
                job' = [job EXCEPT !.merged = TRUE, !.next = t]
      /\ UNCHANGED <<etl, lake, clock, failures, last, settled, promised>>

\* Variant: run() leaves out the layer after the first.
NextStepSkipping(k) == IF k = 1 THEN Len(etl) ELSE k + 1

NextStep(k) == k + 1

\* Variant: run() does not stop at its last layer.
EndsLate(k) == k > Len(etl)

Ends(k) == k = Len(etl)

(* A write commits: what it made becomes the table.  After the last one    *)
(* run() ends.                                                             *)
Commit ==
  LET ended == Ends(job.step)
  IN  /\ job.merged
      /\ lake' = [lake EXCEPT ![etl[job.step].to] = job.next]
      /\ job' = IF ended THEN Idle
                ELSE [Idle EXCEPT !.step = NextStep(job.step), !.batch = job.batch]
      /\ last' = IF job.step = 1
                 THEN [i \in Ids |-> LET revs == {r.rev : r \in {s \in job.batch : s.id = i}}
                                     IN  IF revs = {} THEN last[i] ELSE revs]
                 ELSE last
      /\ settled' = (ended \/ (settled /\ job.step # 1))
      /\ promised' = IF ended THEN promised \cup {r.id : r \in job.batch} ELSE promised
      /\ UNCHANGED <<etl, clock, failures>>

(* A row without record key or precombine field makes the write raise, and  *)
(* run() with it.                                                            *)
Raise ==
  LET w == etl[job.step]
  IN  /\ job.step # 0 /\ ~job.merged
      /\ \E rows \in Inputs(w, job.batch) : ~Writable(rows, w)
      /\ job' = Idle
      /\ UNCHANGED <<etl, lake, clock, failures, last, settled, promised>>

(* The job dies or raises for a reason of its own: the write is not          *)
(* committed, the layers before it are.                                      *)
Fail ==
  /\ job # Idle
  /\ failures < MaxFailures
  /\ failures' = failures + 1
  /\ job' = Idle
  /\ UNCHANGED <<etl, lake, clock, last, settled, promised>>

Next == Start \/ Merge \/ Commit \/ Raise \/ Fail

Spec == Init /\ [][Next]_vars
-----------------------------------------------------------------------------
(* Type correctness: tables hold rows of the source, a job is at one of the *)
(* writes of run().                                                         *)
RowsOf(revs) ==
  [id : Ids, rev : revs, born : Ids, day : revs, ref : Ids \cup {Null}, ok : BOOLEAN,
   item : Items \cup {0}, stamp : 0..MaxLoads, now : {0}]

Rows == RowsOf(Revs \cup {Null})

TypeOK ==
  /\ etl \in {Catalog[n] : n \in Names}
  /\ lake \in [Layers -> SUBSET Rows]
  /\ job \in [step : 0..Len(etl), merged : BOOLEAN,
              batch : SUBSET RowsOf(Revs), next : SUBSET Rows]
  /\ clock \in 0..MaxLoads /\ failures \in 0..MaxFailures
  /\ last \in [Ids -> SUBSET Revs] /\ settled \in BOOLEAN /\ promised \subseteq Ids

Of(i) == {r \in lake["gold"] : r.id = i}
IsOne(names) == etl \in {Catalog[n] : n \in names}

(* Where all layers are keyed by the business key, gold shows, once the     *)
(* last job has ended, exactly one row of each id: a revision of the last    *)
(* load of that id, the newest one if the precombine field is a column of   *)
(* the source.  Earlier jobs that died between two layers do not matter,     *)
(* because every layer is made again from the whole of the one below.       *)
GoldShowsLastLoad ==
  settled /\ IsOne(Replacing) =>
    \A i \in Ids : last[i] # {} =>
      \E g \in Of(i) : /\ Of(i) = {g}
                       /\ g.rev \in last[i]
                       /\ etl[1].pre = "rev" => \A v \in last[i] : v <= g.rev

(* Where gold keys or partitions by the content as well, the last load is   *)
(* in gold, among rows of other revisions.                                  *)
GoldHoldsLastLoad ==
  settled /\ IsOne(Accumulating) =>
    \A i \in Ids : last[i] # {} => \E g \in Of(i) : g.rev \in last[i]

(* A later revision of a condition does not take the place of an earlier    *)
(* one in any layer: gold has all that bronze has.                          *)
ConditionsAccumulate ==
  settled /\ IsOne({"conditions"}) =>
    \A r \in lake["bronze"] : \E g \in Of(r.id) : g.rev = r.rev

(* A network map in gold is as recent as its newest configuration: summing  *)
(* up old and new configurations, of which silver keeps one row each, and   *)
(* precombining the sums leave the newest time of ingestion.                *)
NetworkMapKeepsUp ==
  settled /\ IsOne({"network_map"}) =>
    \A r \in lake["bronze"] : \E g \in Of(r.id) : r.stamp <= g.stamp

(* What a job that ended well has brought stays in gold or in the           *)
(* quarantine of the alerts, whatever jobs come or die after it.            *)
PromisedIsKept ==
  \A i \in promised : \E r \in lake["gold"] \cup lake["dlq"] : r.id = i
=============================================================================
