----------------------------- MODULE EtlRouting -----------------------------
(***************************************************************************)
(* How FullETLOrchestrator (lakehouse_automation_pipeline.py) finds the    *)
(* ETL class of a job.  A request is a record: table and db are names, or  *)
(* "" when they are missing, key and raw are the segments of object_key    *)
(* and raw_path, and kind says whose files they are.                       *)
(***************************************************************************)
EXTENDS EtlCatalog, FiniteSetsExt

CONSTANT Normal  \* _normalize_table_name: what it makes of each name or segment

(* _ETL_REGISTRY: the classes by their names in EtlCatalog *)
Registry ==
  [account |-> "account", account_holder |-> "account_holder", alerts |-> "alerts",
   cases |-> "cases", conditions |-> "conditions", condition |-> "conditions",
   network_map |-> "network_map", pacs002 |-> "pacs002", pacs008 |-> "pacs008",
   rule |-> "rules", rules |-> "rules", tasks |-> "tasks", typology |-> "typologies",
   typologies |-> "typologies", transaction |-> "transactions",
   transactions |-> "transactions", comment |-> "comments", comments |-> "comments",
   entity |-> "entity", entities |-> "entity", evaluation |-> "evaluation",
   cms_usernames |-> "cms_usernames",
   case_priority_thresholds |-> "case_priority_thresholds",
   case_priority_threshold |-> "case_priority_thresholds",
   sla_escalation_records |-> "sla_escalation_records",
   sla_escalation_record |-> "sla_escalation_records",
   sla_escalation_thresholds |-> "sla_escalation_thresholds",
   sla_escalation_threshold |-> "sla_escalation_thresholds",
   sla_policies |-> "sla_policies", sla_policy |-> "sla_policies",
   investigation_groups |-> "investigation_groups",
   investigation_group |-> "investigation_groups"]

(* The directories of a class, where they are not called like its table *)
Directory(class) ==
  CASE class = "conditions" -> <<"condition">>
    [] class = "rules" -> <<"rule">>
    [] OTHER -> <<class>>

(* DynamicETL takes the files of these databases only *)
DynamicDatabases == {"raw_history", "event_history", "enrichment"}

\* Variant: the first registered segment of a path decides.
FromPathFirst(path) ==
  LET hits == {i \in DOMAIN path : Normal[path[i]] \in DOMAIN Registry}
  IN  IF hits = {} THEN "" ELSE Normal[path[Min(hits)]]

(* The last segment of a path that is a registered name *)
FromPath(path) ==
  LET hits == {i \in DOMAIN path : Normal[path[i]] \in DOMAIN Registry}
  IN  IF hits = {} THEN "" ELSE Normal[path[Max(hits)]]

(* An explicit table name wins, registered or not; then object_key, then    *)
(* raw_path.                                                                *)
ResolveTable(req) ==
  IF Normal[req.table] # "" THEN Normal[req.table]
  ELSE IF FromPath(req.key) # "" THEN FromPath(req.key) ELSE FromPath(req.raw)

(* What _route_etl runs: a class and its directories.  An unregistered name *)
(* falls to DynamicETL, which raises for an unknown database.               *)
Raises == [class |-> "none", dir |-> <<>>]

Route(req) ==
  LET table == ResolveTable(req)
  IN  IF table \in DOMAIN Registry
      THEN [class |-> Registry[table], dir |-> Directory(Registry[table])]
      ELSE IF req.db \in DynamicDatabases
      THEN [class |-> "dynamic", dir |-> <<req.db, table>>]
      ELSE Raises
=============================================================================
