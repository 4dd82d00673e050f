--------------------------- MODULE MCDocPipeline ---------------------------
(***************************************************************************)
(* DocPipeline instantiated for TLC.  Documents are numbers, because _find *)
(* answers in _id order; the runs of safeRun are interchangeable.          *)
(***************************************************************************)
EXTENDS DocPipeline, TLC

FirstDoc == {1}
LastDoc == {N}

(* Sound in the runs that check no liveness property *)
RunSymmetry == Permutations(Runs)
=============================================================================
