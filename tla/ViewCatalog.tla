---------------------------- MODULE ViewCatalog ----------------------------
(***************************************************************************)
(* The view builders of automation-orchestrator/Table_ETLs as data, in the *)
(* order of ViewsOrchestrator.run_all.  A builder loads all its tables,    *)
(* then writes its outputs one after the other; each output is computed    *)
(* from some of the tables.  A table is <<layer, directory>>.              *)
(*                                                                         *)
(* Aggregations, joins and casts are left out: what counts is which tables *)
(* and columns a builder needs, what it does when they are not there, and  *)
(* what the keys of its rows are made of.  Schema holds, of the columns    *)
(* that the ETL classes write, those that a view may name; all 18 of       *)
(* gold/transactions.                                                      *)
(***************************************************************************)
EXTENDS Naturals, Sequences

SilverAlerts == <<"silver", "alerts">>
GoldAlerts == <<"gold", "alerts">>
GoldCases == <<"gold", "cases">>
GoldTasks == <<"gold", "tasks">>
GoldCondition == <<"gold", "condition">>
BronzeTransactions == <<"bronze", "transactions">>
GoldTransactions == <<"gold", "transactions">>
GoldPacs008 == <<"gold", "pacs008">>
GoldPacs002 == <<"gold", "pacs002">>
BronzeTypologies == <<"bronze", "typologies">>
BronzeNetworkMap == <<"bronze", "network_map">>
BronzeRule == <<"bronze", "rule">>
Detail == <<"views", "vw_transaction_detail">>

(* Tables that the ETL classes write and views read *)
Sources ==
  {SilverAlerts, GoldAlerts, GoldCases, GoldTasks, GoldCondition, BronzeTransactions,
   GoldTransactions, GoldPacs008, GoldPacs002, BronzeTypologies, BronzeNetworkMap, BronzeRule}
-----------------------------------------------------------------------------
AlertsSilverColumns ==
  {"alert_id", "case_id", "tenant_id", "tx_msg_id", "tx_type", "tx_original_e2e_id",
   "event_ts", "message", "alert_type", "prediction_outcome", "priority",
   "priority_score", "alert_data", "created_at_ts"}
\* Variant: the alerts of gold carry no amount.
AlertsGoldColumnsNoAmount == {"alert_id", "case_id", "tenant_id", "tx_msg_id", "event_ts"}
AlertsGoldColumns ==
  {"alert_id", "case_id", "tenant_id", "tx_msg_id", "event_ts", "tx_amount"}
CasesGoldColumns == {"case_id", "status"}
TasksGoldColumns == {"case_id", "is_completed"}
ConditionGoldColumns ==
  {"pk", "condition_id", "tenant_id", "created_by_user", "account_id", "account_scheme",
   "account_agent_mmb_id", "event_types_csv", "event_type_primary", "event_type_count",
   "condition_type", "perspective", "condition_reason", "force_create",
   "condition_created_ts", "condition_inception_ts", "condition_expiry_ts",
   "condition_created_date", "is_active", "is_expired", "ingested_at_ts"}
TransactionsGoldColumns ==
  {"transaction_id", "amt", "ccy", "credttm", "destination", "endtoendid", "msgid",
   "source", "tenantid", "txsts", "txtp", "event_ts", "event_date",
   "created_at_epoch_ms", "ingested_at_ts", "event_to_ingest_ms", "source_file_path",
   "record_hash"}
Pacs008GoldColumns ==
  {"end_to_end_id", "tx_tenant_id", "dbtr_name", "dbtr_id", "cdtr_name", "cdtr_id",
   "dbtr_acct_id", "dc_dbtr_acct_id", "debtor_account_id", "cdtr_acct_id",
   "dc_cdtr_acct_id", "creditor_account_id", "instd_amt", "dc_instd_amt", "instd_ccy",
   "dc_instd_ccy", "intrbk_amt", "dc_intrbk_amt", "intrbk_ccy", "dc_intrbk_ccy",
   "xchg_rate", "dbtr_agt_mmb_id", "cdtr_agt_mmb_id", "charge_amt", "charge_ccy"}
Pacs002GoldColumns ==
  {"message_id", "end_to_end_id", "orgnl_end_to_end_id", "tx_tenant_id", "tx_status",
   "instg_mmb_id", "instd_mmb_id", "charge_count", "charge_total_amount",
   "charge_currency_hint", "ingested_at_ts"}
TypologiesBronzeColumns == {"tenant_id", "typology_id", "typology_cfg", "configuration"}
RuleBronzeColumns ==
  {"tenant_id", "rule_id", "rule_cfg", "configuration", "ingested_at_ts"}
DetailColumns ==
  {"transaction_id", "tenant_id", "tx_msg_id", "tx_event_ts", "debtor_id", "creditor_id",
   "debtor_account_id", "creditor_account_id", "instructed_amount", "instructed_currency"}

Schema ==
  [t \in Sources \cup {Detail} |->
     CASE t = SilverAlerts -> AlertsSilverColumns
       [] t = GoldAlerts -> AlertsGoldColumns
       [] t = GoldCases -> CasesGoldColumns
       [] t = GoldTasks -> TasksGoldColumns
       [] t = GoldCondition -> ConditionGoldColumns
       [] t = BronzeTransactions -> {"transaction_id"}
       [] t = GoldTransactions -> TransactionsGoldColumns
       [] t = GoldPacs008 -> Pacs008GoldColumns
       [] t = GoldPacs002 -> Pacs002GoldColumns
       [] t = BronzeTypologies -> TypologiesBronzeColumns
       [] t = BronzeNetworkMap -> {"tenant_id", "configuration"}
       [] t = BronzeRule -> RuleBronzeColumns
       [] t = Detail -> DetailColumns]
-----------------------------------------------------------------------------
(* A load.  cols are the columns it selects on the spot, after those        *)
(* selected later; a table or cols that are missing make it raise, or give  *)
(* None when it is safe (_safe_load).  With keyedBy, a table that is loaded *)
(* is joined on case_id, a column that only the table keyedBy brings.       *)
Load(table, cols) ==
  [from |-> table, cols |-> cols, after |-> {}, safe |-> FALSE, keyedBy |-> {}]
SafeLoad(table, cols) == [Load(table, cols) EXCEPT !.safe = TRUE]
Later(load, cols) == [load EXCEPT !.after = cols]
KeyedBy(load, table) == [load EXCEPT !.keyedBy = {table}]

(* An output is made of the tables in uses, and only if those in due are    *)
(* there.  keys are the tables whose content the record key and the         *)
(* partition of a row are made of; none where the key is an id of theirs,   *)
(* as no id is ever taken out of a table.                                   *)
Output(view, uses, keys) ==
  [to |-> <<"views", view>>, uses |-> uses, due |-> {}, keys |-> keys]
OnlyWith(output, table) == [output EXCEPT !.due = {table}]

Builder(name, gate, loads, outputs) ==
  [name |-> name, gate |-> gate, loads |-> loads, outputs |-> outputs]
-----------------------------------------------------------------------------
NavigatorHeader ==
  Output("alert_navigator/header", {SilverAlerts, GoldTransactions}, {SilverAlerts})
NavigatorTypologies ==
  Output("alert_navigator/typologies_triggered", {SilverAlerts, BronzeTypologies},
         {SilverAlerts})
NavigatorRules ==
  Output("alert_navigator/rules_triggered", {SilverAlerts, BronzeRule}, {SilverAlerts})
NavigatorNetworkEvaluated ==
  LET tables == {SilverAlerts, GoldTransactions, BronzeNetworkMap}
  IN  OnlyWith(Output("alert_navigator/network_evaluated", tables, tables), BronzeNetworkMap)
NavigatorRuleMetadata ==
  Later(SafeLoad(BronzeRule, {}),
        {"tenant_id", "rule_id", "rule_cfg", "configuration", "ingested_at_ts"})
NavigatorLoads ==
  {Load(SilverAlerts,
        {"alert_id", "tenant_id", "case_id", "tx_msg_id", "tx_type", "tx_original_e2e_id",
         "event_ts", "message", "alert_type", "prediction_outcome", "priority",
         "priority_score", "alert_data", "created_at_ts"}),
   SafeLoad(GoldTransactions,
        {"msgid", "txsts", "amt", "ccy", "txtp", "transaction_id", "endtoendid"}),
   Later(SafeLoad(BronzeTypologies, {}),
        {"tenant_id", "typology_id", "typology_cfg", "configuration"}),
   Later(SafeLoad(BronzeNetworkMap, {}), {"tenant_id", "configuration"}),
   NavigatorRuleMetadata}
AlertNavigator ==
  Builder("alert_navigator", {SilverAlerts}, NavigatorLoads,
          <<NavigatorHeader, NavigatorTypologies, NavigatorRules, NavigatorNetworkEvaluated>>)

Accounts ==
  {"end_to_end_id", "dbtr_id", "cdtr_id", "dbtr_acct_id", "dc_dbtr_acct_id",
   "debtor_account_id", "cdtr_acct_id", "dc_cdtr_acct_id", "creditor_account_id",
   "instd_amt", "dc_instd_amt", "instd_ccy", "dc_instd_ccy"}

DetailLoads ==
  {Load(BronzeTransactions, {"transaction_id"}),
   SafeLoad(GoldPacs008, Accounts \cup
        {"tx_tenant_id", "dbtr_name", "cdtr_name", "intrbk_amt", "dc_intrbk_amt",
         "intrbk_ccy", "dc_intrbk_ccy", "xchg_rate", "dbtr_agt_mmb_id", "cdtr_agt_mmb_id",
         "charge_amt", "charge_ccy"}),
   SafeLoad(GoldPacs002,
        {"message_id", "tx_tenant_id", "instg_mmb_id", "instd_mmb_id", "charge_count",
         "charge_total_amount", "charge_currency_hint", "ingested_at_ts"})}
TransactionDetail ==
  Builder("vw_transaction_detail", {BronzeTransactions}, DetailLoads,
          <<Output("vw_transaction_detail", {BronzeTransactions, GoldPacs008, GoldPacs002}, {})>>)

(* cases and tasks are joined on the case_id that gold/alerts brings *)
FlagLoads ==
  {SafeLoad(GoldAlerts, {"tx_msg_id", "alert_id", "case_id"}),
   KeyedBy(Later(SafeLoad(GoldCases, {}), {"case_id"}), GoldAlerts),
   KeyedBy(SafeLoad(GoldTasks, {"case_id", "is_completed"}), GoldAlerts)}
HistoryLoads ==
  FlagLoads \cup
  {Load(BronzeTransactions, {"transaction_id"}),
   SafeLoad(GoldPacs008, Accounts \cup {"dbtr_name", "cdtr_name"})}
HistoryOutput ==
  Output("vw_transaction_history",
         {BronzeTransactions, GoldPacs008, GoldAlerts, GoldCases, GoldTasks},
         {BronzeTransactions, GoldPacs008})
TransactionHistory ==
  Builder("vw_transaction_history", {BronzeTransactions}, HistoryLoads, <<HistoryOutput>>)

(* without alerts, a null case_id takes its place *)
NetworkFlagLoads ==
  {SafeLoad(GoldAlerts, {"tx_msg_id", "alert_id", "case_id"}),
   Later(SafeLoad(GoldCases, {}), {"case_id"}),
   SafeLoad(GoldTasks, {"case_id", "is_completed"})}
NetworkLoads ==
  NetworkFlagLoads \cup
  {Load(BronzeTransactions, {"transaction_id"}),
   SafeLoad(GoldPacs002, {"message_id", "end_to_end_id", "orgnl_end_to_end_id", "tx_status"}),
   SafeLoad(GoldPacs008, Accounts)}
NetworkTables ==
  {BronzeTransactions, GoldPacs008, GoldPacs002, GoldAlerts, GoldCases, GoldTasks}
Payments == {BronzeTransactions, GoldPacs008, GoldPacs002}
NetworkOutputs ==
  <<Output("vw_tx_network_accounts_edges", NetworkTables, Payments),
    Output("vw_tx_network_counterparties_edges", NetworkTables, Payments),
    Output("vw_counterparty_account_links", NetworkTables, Payments)>>
NetworkNavigator ==
  Builder("network_navigator", NetworkTables, NetworkLoads, NetworkOutputs)

AlertHistoryLoads ==
  {Load(GoldAlerts, {"alert_id", "case_id", "tenant_id", "tx_msg_id", "event_ts", "tx_amount"}),
   Load(GoldCases, {"case_id", "status"}),
   Load(GoldTasks, {"case_id", "is_completed"}),
   Load(Detail, {"tx_msg_id", "tenant_id", "tx_event_ts", "debtor_id", "creditor_id",
                 "debtor_account_id", "creditor_account_id", "instructed_amount",
                 "instructed_currency"})}
AlertHistoryOutput ==
  Output("alert_history", {GoldAlerts, GoldCases, GoldTasks, Detail}, {GoldAlerts, Detail})
AlertHistory ==
  Builder("alert_history", {GoldAlerts, GoldCases, GoldTasks, Detail}, AlertHistoryLoads,
          <<AlertHistoryOutput>>)

TimelineConditions ==
  Load(GoldCondition,
       {"pk", "condition_id", "tenant_id", "created_by_user", "account_id", "account_scheme",
        "account_agent_mmb_id", "event_types_csv", "event_type_primary", "event_type_count",
        "condition_type", "perspective", "condition_reason", "force_create",
        "condition_created_ts", "condition_inception_ts", "condition_expiry_ts",
        "condition_created_date", "is_active", "is_expired", "ingested_at_ts"})
TimelineTransactions ==
  {Load(GoldTransactions,
        {"transaction_id", "end_to_end_id", "tenant_id", "tx_type", "tx_msg_id",
         "tx_status", "tx_amount", "tx_ccy", "event_ts", "event_date"}),
   Load(GoldAlerts, {"alert_id", "case_id", "tx_msg_id"}),
   SafeLoad(GoldCases, {"case_id"}),
   SafeLoad(GoldTasks, {"case_id", "is_completed"})}
TimelineOutput ==
  Output("conditions_timeline",
         {GoldCondition, GoldTransactions, GoldAlerts, GoldCases, GoldTasks},
         {GoldCondition, GoldTransactions})
ConditionsTimeline ==
  Builder("conditions_timeline", {GoldCondition, GoldTransactions, GoldAlerts},
          TimelineTransactions \cup {TimelineConditions}, <<TimelineOutput>>)
-----------------------------------------------------------------------------
\* Variant: the alert history comes before the detail that it reads.
RunAllHistoryFirst ==
  <<AlertHistory, AlertNavigator, TransactionDetail, TransactionHistory, NetworkNavigator,
    ConditionsTimeline>>

(* run_all *)
RunAll ==
  <<AlertNavigator, TransactionDetail, TransactionHistory, NetworkNavigator, AlertHistory,
    ConditionsTimeline>>

OutputsOf(builder) == {builder.outputs[k] : k \in DOMAIN builder.outputs}
Views == UNION {{o.to : o \in OutputsOf(RunAll[b])} : b \in DOMAIN RunAll}
=============================================================================
