----------------------------- MODULE HudiTable -----------------------------
(***************************************************************************)
(* A Hudi table as the ETL classes of automation-orchestrator/Table_ETLs   *)
(* use it: copy-on-write, operation "upsert", BLOOM index, no concurrency  *)
(* control (BaseETL.hudi_opts and write_hudi).  A table is a set of rows;  *)
(* a row is a record whose fields are the columns that some write uses as  *)
(* record key, partition or precombine field, or to tell rows apart.       *)
(*                                                                         *)
(* A write w is a record: w.key and w.part are the sets of columns of the  *)
(* record key and of the partition path, w.pre is the precombine field.    *)
(***************************************************************************)
EXTENDS Naturals

CONSTANT Null      \* SQL null

(* Rows that agree on the columns of cols *)
Same(r, s, cols) == \A c \in cols : r[c] = s[c]

(* One row with the greatest value of by for each group of rows that agree *)
(* on cols; ties are broken arbitrarily.  Both the deduplication by         *)
(* row_number() = 1 over a Window and Hudi's precombine within a batch.     *)
LatestPer(rows, cols, by) ==
  { S \in SUBSET rows :
      /\ \A r \in rows : \E s \in S : Same(r, s, cols) /\ r[by] <= s[by]
      /\ \A r, s \in S : Same(r, s, cols) => r = s }

(* The BLOOM index is not global: a record key is unique in its partition. *)
Location(w) == w.key \cup w.part

(* A record key or a precombine field that is null makes the write raise. *)
Writable(rows, w) == \A r \in rows : \A c \in w.key \cup {w.pre} : r[c] # Null

\* Variant: precombine against the stored row, the newer of the two stays.
OverwritePrecombined(table, batch, w) ==
  LET kept == { r \in table :
                  \A s \in batch : Same(r, s, Location(w)) => s[w.pre] < r[w.pre] }
  IN  kept \cup { s \in batch : \A r \in kept : ~Same(r, s, Location(w)) }

(* The payload class OverwriteWithLatestAvroPayload: an incoming row takes  *)
(* the place of the stored one, whatever their precombine fields say.       *)
Overwrite(table, batch, w) ==
  { r \in table : \A s \in batch : ~Same(r, s, Location(w)) } \cup batch

(* What write_hudi may leave behind: the batch is precombined, then merged. *)
Upserts(table, rows, w) ==
  { Overwrite(table, batch, w) : batch \in LatestPer(rows, Location(w), w.pre) }
=============================================================================
