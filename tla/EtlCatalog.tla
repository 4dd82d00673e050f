----------------------------- MODULE EtlCatalog -----------------------------
(***************************************************************************)
(* The ETL classes of automation-orchestrator/Table_ETLs as data: each is  *)
(* the sequence of the writes its run() makes, and each write says which   *)
(* table it reads, which it upserts into, and how rows meet on the way.    *)
(*                                                                         *)
(* Columns, whatever the class calls them:                                 *)
(*   id     the business key (case_id, alert_id, transaction_id, ...), the *)
(*          tenant included where the class hashes it in                   *)
(*   rev    the content of a row; sources send revisions of an id, and a   *)
(*          higher one has the later updated_at, notified_at or credttm    *)
(*   born   the creation time of the id, the same in all its revisions     *)
(*   day    the date of the event in the content: revisions may differ     *)
(*   ref    an identifier inside the payload, null when it is missing      *)
(*   ok     whether the payload passes the data quality rules              *)
(*   item   an element of an array in the payload, once it is exploded     *)
(*   stamp  current_timestamp() when bronze was written; its date as well  *)
(*   now    current_timestamp() of a layer that sets it anew: one value    *)
(*          for all the rows of the batch                                  *)
(* Casts, renamings and derived columns that no write keys, partitions or  *)
(* orders by are left out.                                                 *)
(***************************************************************************)
EXTENDS Sequences

Columns == {"id", "rev", "born", "day", "ref", "ok", "item", "stamp", "now"}

(* without a deduplication, rows meet only when they agree on every column *)
Upsert(from, to, key, pre) ==
  [from |-> from, to |-> to, key |-> key, part |-> {}, pre |-> pre,
   one |-> Columns, by |-> pre, dq |-> {TRUE, FALSE}, exploded |-> FALSE, summed |-> FALSE]

Bronze(key, pre) == Upsert("raw", "bronze", key, pre)
Silver(key, pre) == Upsert("bronze", "silver", key, pre)
Gold(key, pre) == Upsert("silver", "gold", key, pre)

(* partition = col *)
By(w, col) == [w EXCEPT !.part = {col}]
(* row_number() over (partition by cols order by col desc) = 1 *)
Latest(w, cols, col) == [w EXCEPT !.one = cols, !.by = col]
(* explode of an array of the payload *)
Exploded(w) == [w EXCEPT !.exploded = TRUE]
(* groupBy(cols).agg(max, sum, countDistinct): a row per group, with the   *)
(* greatest stamp in it; its content is that of no single revision          *)
Summed(w, cols) == [w EXCEPT !.one = cols, !.by = "stamp", !.summed = TRUE]
(* only rows that pass (or fail) the data quality rules *)
Where(w, verdict) == [w EXCEPT !.dq = {verdict}]
-----------------------------------------------------------------------------
CasesBronze == Bronze({"id"}, "stamp")
CasesSilver == Latest(Silver({"id"}, "stamp"), {"id"}, "stamp")
CasesGold == By(Latest(Gold({"id"}, "stamp"), {"id"}, "stamp"), "born")
CasesRun == <<CasesBronze, CasesSilver, CasesGold>>

TasksBronze == Bronze({"id"}, "stamp")
TasksSilver == Latest(Silver({"id"}, "stamp"), {"id"}, "stamp")
TasksGold == By(Latest(Gold({"id"}, "stamp"), {"id"}, "stamp"), "born")
TasksRun == <<TasksBronze, TasksSilver, TasksGold>>

CommentsBronze == Bronze({"id"}, "stamp")
CommentsSilver == Silver({"id"}, "stamp")
CommentsGold == Gold({"id"}, "stamp")
CommentsRun == <<CommentsBronze, CommentsSilver, CommentsGold>>

TransactionsBronze == Bronze({"id"}, "stamp")
TransactionsSilver == Latest(Silver({"id"}, "stamp"), {"id"}, "stamp")
TransactionsGold == Gold({"id"}, "stamp")
TransactionsRun == <<TransactionsBronze, TransactionsSilver, TransactionsGold>>

(* record_hash is made of account and tenant alone *)
AccountBronze == Bronze({"id"}, "stamp")
AccountSilver == Silver({"id"}, "now")
AccountGold == Gold({"id"}, "now")
AccountRun == <<AccountBronze, AccountSilver, AccountGold>>

(* record_hash covers ingested_at_ts: every delivery is a row of its own *)
AccountHolderBronze == Bronze({"id", "rev", "stamp"}, "stamp")
AccountHolderSilver == Silver({"id"}, "stamp")
AccountHolderGold == Gold({"id"}, "stamp")
AccountHolderRun == <<AccountHolderBronze, AccountHolderSilver, AccountHolderGold>>

(* record_hash covers credttm, the pk of gold does not; in gold all rows    *)
(* carry the same ingested_at_ts                                            *)
EntityBronze == Bronze({"id", "rev"}, "stamp")
EntitySilver == Silver({"id", "rev"}, "stamp")
EntityGold == Gold({"id"}, "now")
EntityRun == <<EntityBronze, EntitySilver, EntityGold>>

(* precombine on a column of the source, not on the time of ingestion *)
CasePriorityThresholdsBronze == Bronze({"id"}, "rev")
CasePriorityThresholdsSilver == Latest(Silver({"id"}, "rev"), {"id"}, "rev")
CasePriorityThresholdsGold == Gold({"id"}, "rev")
CasePriorityThresholdsRun == <<CasePriorityThresholdsBronze, CasePriorityThresholdsSilver, CasePriorityThresholdsGold>>

SlaPoliciesBronze == Bronze({"id"}, "rev")
SlaPoliciesSilver == Latest(Silver({"id"}, "rev"), {"id"}, "rev")
SlaPoliciesGold == Gold({"id"}, "rev")
SlaPoliciesRun == <<SlaPoliciesBronze, SlaPoliciesSilver, SlaPoliciesGold>>

SlaEscalationThresholdsBronze == Bronze({"id"}, "rev")
SlaEscalationThresholdsSilver == Latest(Silver({"id"}, "rev"), {"id"}, "rev")
SlaEscalationThresholdsGold == Gold({"id"}, "rev")
SlaEscalationThresholdsRun == <<SlaEscalationThresholdsBronze, SlaEscalationThresholdsSilver, SlaEscalationThresholdsGold>>

SlaEscalationRecordsBronze == Bronze({"id"}, "rev")
SlaEscalationRecordsSilver == Latest(Silver({"id"}, "rev"), {"id"}, "rev")
SlaEscalationRecordsGold == Gold({"id"}, "rev")
SlaEscalationRecordsRun == <<SlaEscalationRecordsBronze, SlaEscalationRecordsSilver, SlaEscalationRecordsGold>>

InvestigationGroupsBronze == Bronze({"id"}, "born")
InvestigationGroupsSilver == Latest(Silver({"id"}, "born"), {"id"}, "born")
InvestigationGroupsGold == Gold({"id"}, "born")
InvestigationGroupsRun == <<InvestigationGroupsBronze, InvestigationGroupsSilver, InvestigationGroupsGold>>

DynamicBronze == Bronze({"id"}, "rev")
DynamicSilver == Latest(Silver({"id"}, "rev"), {"id"}, "rev")
DynamicGold == Latest(Gold({"id"}, "rev"), {"id"}, "rev")
DynamicRun == <<DynamicBronze, DynamicSilver, DynamicGold>>

(* straight to gold *)
CmsUsernamesGold == Upsert("raw", "gold", {"id"}, "born")
CmsUsernamesRun == <<CmsUsernamesGold>>

(* record_hash of the content in bronze, (tenant, rule, cfg) from silver on *)
RulesBronze == Bronze({"id", "rev"}, "stamp")
RulesSilver == Latest(Silver({"id"}, "stamp"), {"id"}, "stamp")
RulesGold == By(Gold({"id"}, "stamp"), "born")
RulesRun == <<RulesBronze, RulesSilver, RulesGold>>

(* the same, but the pk of gold hashes the content in again *)
TypologiesBronze == Bronze({"id", "rev"}, "stamp")
TypologiesSilver == Latest(Silver({"id"}, "stamp"), {"id"}, "stamp")
TypologiesGold == Gold({"id", "rev"}, "stamp")
TypologiesRun == <<TypologiesBronze, TypologiesSilver, TypologiesGold>>

(* the pk hashes the content in every layer *)
ConditionsBronze == Bronze({"id", "rev"}, "stamp")
\* Variant: the latest revision of each condition goes on.
ConditionsSilverLatest == Latest(Silver({"id", "rev"}, "stamp"), {"id"}, "stamp")
ConditionsSilver == Latest(Silver({"id", "rev"}, "stamp"), {"id", "rev"}, "stamp")
ConditionsGold == Gold({"id", "rev"}, "stamp")
ConditionsRun == <<ConditionsBronze, ConditionsSilver, ConditionsGold>>

(* messageid up to silver, the evaluationID of the payload in gold *)
EvaluationBronze == Bronze({"id"}, "stamp")
EvaluationSilver == Latest(Silver({"id"}, "stamp"), {"id"}, "stamp")
EvaluationGold == By(Gold({"ref"}, "stamp"), "day")
EvaluationRun == <<EvaluationBronze, EvaluationSilver, EvaluationGold>>

(* id is the end_to_end_id, rev the status message about it *)
Pacs002Bronze == By(Bronze({"id"}, "stamp"), "day")
Pacs002Silver == By(Latest(Silver({"id"}, "stamp"), {"id", "rev"}, "stamp"), "day")
Pacs002Gold == By(Gold({"id"}, "stamp"), "day")
Pacs002Run == <<Pacs002Bronze, Pacs002Silver, Pacs002Gold>>

Pacs008Bronze == Bronze({"id"}, "stamp")
Pacs008Silver == Latest(Silver({"id"}, "stamp"), {"id"}, "stamp")
Pacs008Gold == By(Gold({"id"}, "stamp"), "day")
Pacs008Run == <<Pacs008Bronze, Pacs008Silver, Pacs008Gold>>

(* id is the tenant, rev the configuration, item one of its typologies and *)
(* ref the cfg of that, which gold groups by and does not key by            *)
NetworkMapBronze == Bronze({"id", "rev"}, "stamp")
\* Variant: of each tenant the configuration last updated at the source goes on.
NetworkMapSilverNewest == Exploded(Latest(Silver({"id", "rev"}, "stamp"), {"id"}, "rev"))
NetworkMapSilver == Exploded(Latest(Silver({"id", "rev"}, "stamp"), {"id", "rev"}, "stamp"))
NetworkMapGold == By(Summed(Gold({"id", "item"}, "stamp"), {"id", "item", "ref"}), "stamp")
NetworkMapRun == <<NetworkMapBronze, NetworkMapSilver, NetworkMapGold>>

(* dlq_id is a hash of evaluation_id or, without one, of the type *)
AlertsBronze == Bronze({"id"}, "stamp")
\* Variant: the quarantine is keyed by what the rows have in common.
AlertsDlqPerVerdict == Where(Latest(Upsert("bronze", "dlq", {"ok"}, "now"), {"id"}, "stamp"), FALSE)
AlertsDlq == Where(Latest(Upsert("bronze", "dlq", {"ref"}, "now"), {"id"}, "stamp"), FALSE)
AlertsSilver == Where(Latest(Silver({"id"}, "stamp"), {"id"}, "stamp"), TRUE)
AlertsGold == By(Latest(Gold({"id"}, "stamp"), {"id"}, "stamp"), "day")
AlertsRun == <<AlertsBronze, AlertsDlq, AlertsSilver, AlertsGold>>
-----------------------------------------------------------------------------
(* The ETL classes, under the names of their tables *)
Catalog ==
  [cases |-> CasesRun,
   tasks |-> TasksRun,
   comments |-> CommentsRun,
   transactions |-> TransactionsRun,
   account |-> AccountRun,
   account_holder |-> AccountHolderRun,
   entity |-> EntityRun,
   case_priority_thresholds |-> CasePriorityThresholdsRun,
   sla_policies |-> SlaPoliciesRun,
   sla_escalation_thresholds |-> SlaEscalationThresholdsRun,
   sla_escalation_records |-> SlaEscalationRecordsRun,
   investigation_groups |-> InvestigationGroupsRun,
   dynamic |-> DynamicRun,
   cms_usernames |-> CmsUsernamesRun,
   rules |-> RulesRun,
   typologies |-> TypologiesRun,
   conditions |-> ConditionsRun,
   evaluation |-> EvaluationRun,
   pacs002 |-> Pacs002Run,
   pacs008 |-> Pacs008Run,
   network_map |-> NetworkMapRun,
   alerts |-> AlertsRun]

(* Classes whose gold table has one row per id, kept at its last load *)
Replacing ==
  {"cases", "tasks", "comments", "transactions", "account", "account_holder",
   "case_priority_thresholds", "sla_policies", "sla_escalation_thresholds",
   "sla_escalation_records", "investigation_groups", "dynamic", "cms_usernames", "rules"}
(* Classes whose gold table has the last load of an id, among other rows.  *)
(* entity, alerts and network_map are neither: gold takes any revision of   *)
(* an entity, the quarantine parts the alerts, and a row of a network map   *)
(* is made of all its configurations.                                       *)
Accumulating == {"typologies", "conditions", "evaluation", "pacs002", "pacs008"}
=============================================================================
