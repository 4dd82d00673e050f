---------------------------- MODULE EtlViewGate ----------------------------
(***************************************************************************)
(* What the automation orchestrator promises, without its queue, locks and *)
(* threads: ETL jobs may overlap one another, a view build overlaps none   *)
(* of them, and a view build is what makes a view agree again with a table *)
(* that an ETL job has changed.  Orchestrator.tla is the detailed          *)
(* specification that implements this one.                                 *)
(***************************************************************************)
CONSTANTS Workers,   \* the threads that may each be running one ETL job
          Tables     \* the tables of the lake

VARIABLES running,   \* workers whose ETL job is in progress
          building,  \* a view build is in progress
          stale      \* tables the views have not been rebuilt from since an ETL

vars == <<running, building, stale>>

Init ==
  /\ running = {}
  /\ building = FALSE
  /\ stale = {}

StartEtl(w) ==
  /\ ~building
  /\ w \notin running
  /\ running' = running \cup {w}
  /\ UNCHANGED <<building, stale>>

(* A job that fails leaves the views as fresh as they were. *)
EndEtl(w) ==
  /\ w \in running
  /\ running' = running \ {w}
  /\ \/ stale' = stale
     \/ \E t \in Tables : stale' = stale \cup {t}
  /\ UNCHANGED building

StartBuild ==
  /\ ~building
  /\ running = {}
  /\ building' = TRUE
  /\ UNCHANGED <<running, stale>>

Refresh(t) ==
  /\ building
  /\ stale' = stale \ {t}
  /\ UNCHANGED <<running, building>>

EndBuild ==
  /\ building
  /\ building' = FALSE
  /\ UNCHANGED <<running, stale>>

(* The process dies and comes back: whatever was in progress is gone. *)
Crash ==
  /\ running' = {}
  /\ building' = FALSE
  /\ UNCHANGED stale

Next ==
  \/ \E w \in Workers : StartEtl(w) \/ EndEtl(w)
  \/ StartBuild
  \/ \E t \in Tables : Refresh(t)
  \/ EndBuild
  \/ Crash

Spec == Init /\ [][Next]_vars
=============================================================================
