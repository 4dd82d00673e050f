---------------------------- MODULE MCEtlLayers ----------------------------
(***************************************************************************)
(* EtlLayers instantiated for TLC.  Ids, revisions and items are numbers,  *)
(* which Window functions order, so there is no symmetry.                  *)
(***************************************************************************)
EXTENDS EtlLayers

Everyone == DOMAIN Catalog
OnlyAlerts == {"alerts"}

(* The first revision of id 1 carries no identifier *)
RefMissingOnce == [x \in Ids \X Revs |-> IF x = <<1, 1>> THEN Null ELSE x[1]]
NoEvaluationId == [x \in Ids \X Revs |-> 1]    \* the transaction type instead

NewestMalformed == {<<i, 2>> : i \in Ids}
=============================================================================
