-------------------------- MODULE LakehouseProofs ---------------------------
(***************************************************************************)
(* Theorems about Lakehouse, for any deliveries, warehouses, jobs and      *)
(* faults.  They rest on facts about the builders of ViewCatalog: each     *)
(* loads what its outputs are made of, takes only columns that are there   *)
(* where a loss would go unnoticed, and reads no view that a later builder *)
(* writes.                                                                 *)
(***************************************************************************)
EXTENDS Lakehouse, SequenceTheorems, TLAPS

Froms(builder) == {l.from : l \in builder.loads}

(* A builder whose outputs are made of tables that it loads, and whose      *)
(* _safe_load only fails for tables that do not exist                       *)
IsBuilder(b) ==
  /\ Len(b.outputs) \in 1..4 /\ DOMAIN b.outputs = 1..Len(b.outputs)
  /\ Froms(b) \subseteq Sources \cup {Detail} /\ b.gate \subseteq Sources \cup {Detail}
  /\ \A l \in b.loads : l.safe => l.cols \subseteq Schema[l.from]
  /\ \A k \in DOMAIN b.outputs :
       b.outputs[k].uses \subseteq Froms(b) /\ b.outputs[k].due \subseteq Froms(b)

(* Where in run_all a view is made: the builder, and which of its outputs *)
Place(v) ==
  CASE v = <<"views", "alert_navigator/header">> -> <<1, 1>>
    [] v = <<"views", "alert_navigator/typologies_triggered">> -> <<1, 2>>
    [] v = <<"views", "alert_navigator/rules_triggered">> -> <<1, 3>>
    [] v = <<"views", "alert_navigator/network_evaluated">> -> <<1, 4>>
    [] v = <<"views", "vw_transaction_detail">> -> <<2, 1>>
    [] v = <<"views", "vw_transaction_history">> -> <<3, 1>>
    [] v = <<"views", "vw_tx_network_accounts_edges">> -> <<4, 1>>
    [] v = <<"views", "vw_tx_network_counterparties_edges">> -> <<4, 2>>
    [] v = <<"views", "vw_counterparty_account_links">> -> <<4, 3>>
    [] v = <<"views", "alert_history">> -> <<5, 1>>
    [] v = <<"views", "conditions_timeline">> -> <<6, 1>>

MakesAt(b, n) ==
  \A k \in DOMAIN b.outputs : Place(b.outputs[k].to) = <<n, k>> /\ b.outputs[k].to[1] = "views"
-----------------------------------------------------------------------------
(* The builders *)

(* The columns of each table *)
LEMMA TableColumns ==
  /\ Schema[SilverAlerts] = AlertsSilverColumns /\ Schema[GoldAlerts] = AlertsGoldColumns
  /\ Schema[GoldCases] = CasesGoldColumns /\ Schema[GoldTasks] = TasksGoldColumns
  /\ Schema[GoldCondition] = ConditionGoldColumns
  /\ Schema[BronzeTransactions] = {"transaction_id"}
  /\ Schema[GoldTransactions] = TransactionsGoldColumns
  /\ Schema[GoldPacs008] = Pacs008GoldColumns /\ Schema[GoldPacs002] = Pacs002GoldColumns
  /\ Schema[BronzeTypologies] = TypologiesBronzeColumns
  /\ Schema[BronzeNetworkMap] = {"tenant_id", "configuration"}
  /\ Schema[BronzeRule] = RuleBronzeColumns /\ Schema[Detail] = DetailColumns
BY DEF Schema, Sources, SilverAlerts, GoldAlerts, GoldCases, GoldTasks, GoldCondition,
     BronzeTransactions, GoldTransactions, GoldPacs008, GoldPacs002, BronzeTypologies,
     BronzeNetworkMap, BronzeRule, Detail

(* Kinds of loads *)
Is(l, t, c, a, safe, u) ==
  l.from = t /\ l.cols = c /\ l.after = a /\ l.safe = safe /\ l.keyedBy = u

LEMMA LoadIs ==
  /\ \A t, c : Is(Load(t, c), t, c, {}, FALSE, {})
  /\ \A t, c : Is(SafeLoad(t, c), t, c, {}, TRUE, {})
  /\ \A t, c, a : Is(Later(SafeLoad(t, c), a), t, c, a, TRUE, {})
  /\ \A t, c, u : Is(KeyedBy(SafeLoad(t, c), u), t, c, {}, TRUE, {u})
  /\ \A t, c, a, u : Is(KeyedBy(Later(SafeLoad(t, c), a), u), t, c, a, TRUE, {u})
BY DEF Load, SafeLoad, Later, KeyedBy, Is


(* A load of a table, all of whose columns are there *)
Asks(l, t, u) ==
  l.from = t /\ l.cols \subseteq Schema[t] /\ l.after \subseteq Schema[t] /\ l.keyedBy = u

(* A builder whose tables have all the columns that it asks for *)
IsServed(b) ==
  \A l \in b.loads : Asks(l, l.from, l.keyedBy) /\ l.keyedBy \subseteq Froms(b)

LEMMA NavigatorTables ==
  /\ Froms(AlertNavigator) =
       {SilverAlerts, GoldTransactions, BronzeTypologies, BronzeNetworkMap, BronzeRule}
  /\ IsServed(AlertNavigator)
<1>0. PICK c1, c2, c3, c4 :
        /\ NavigatorLoads =
             {Load(SilverAlerts, c1), SafeLoad(GoldTransactions, c2),
              Later(SafeLoad(BronzeTypologies, {}), c3),
              Later(SafeLoad(BronzeNetworkMap, {}), c4), NavigatorRuleMetadata}
        /\ c1 \subseteq AlertsSilverColumns /\ c2 \subseteq TransactionsGoldColumns
        /\ c3 \subseteq TypologiesBronzeColumns /\ c4 = {"tenant_id", "configuration"}
  BY DEF NavigatorLoads, AlertsSilverColumns, TransactionsGoldColumns, TypologiesBronzeColumns
<1> DEFINE l1 == Load(SilverAlerts, c1)
           l2 == SafeLoad(GoldTransactions, c2)
           l3 == Later(SafeLoad(BronzeTypologies, {}), c3)
           l4 == Later(SafeLoad(BronzeNetworkMap, {}), c4)
<1>1. /\ Asks(l1, SilverAlerts, {}) /\ Asks(l2, GoldTransactions, {})
      /\ Asks(l3, BronzeTypologies, {}) /\ Asks(l4, BronzeNetworkMap, {})
  BY <1>0, LoadIs, TableColumns DEF Is, Asks
<1> HIDE DEF l1, l2, l3, l4
<1>2. Asks(NavigatorRuleMetadata, BronzeRule, {})
  BY LoadIs, TableColumns DEF NavigatorRuleMetadata, Is, Asks, RuleBronzeColumns
<1>3. AlertNavigator.loads = NavigatorLoads
  BY DEF AlertNavigator, Builder
<1>4. NavigatorLoads = {l1, l2, l3, l4, NavigatorRuleMetadata}
  BY <1>0 DEF l1, l2, l3, l4
<1> QED
  BY <1>1, <1>2, <1>3, <1>4 DEF Asks, Froms, IsServed

LEMMA DetailTables ==
  /\ Froms(TransactionDetail) = {BronzeTransactions, GoldPacs008, GoldPacs002}
  /\ IsServed(TransactionDetail)
<1>0. PICK c1, c2, c3 :
        /\ DetailLoads =
             {Load(BronzeTransactions, c1), SafeLoad(GoldPacs008, c2), SafeLoad(GoldPacs002, c3)}
        /\ c1 = {"transaction_id"} /\ c2 \subseteq Pacs008GoldColumns
        /\ c3 \subseteq Pacs002GoldColumns
  BY DEF DetailLoads, Accounts, Pacs008GoldColumns, Pacs002GoldColumns
<1> DEFINE l1 == Load(BronzeTransactions, c1)
           l2 == SafeLoad(GoldPacs008, c2)
           l3 == SafeLoad(GoldPacs002, c3)
<1>1. Asks(l1, BronzeTransactions, {}) /\ Asks(l2, GoldPacs008, {}) /\ Asks(l3, GoldPacs002, {})
  BY <1>0, LoadIs, TableColumns DEF Is, Asks
<1> HIDE DEF l1, l2, l3
<1>2. TransactionDetail.loads = {l1, l2, l3}
  BY <1>0 DEF TransactionDetail, Builder, l1, l2, l3
<1> QED
  BY <1>1, <1>2 DEF Asks, Froms, IsServed

LEMMA FlagTables ==
  \E l1, l2, l3 :
     /\ FlagLoads = {l1, l2, l3}
     /\ Asks(l1, GoldAlerts, {}) /\ Asks(l2, GoldCases, {GoldAlerts})
     /\ Asks(l3, GoldTasks, {GoldAlerts})
<1> DEFINE l1 == SafeLoad(GoldAlerts, {"tx_msg_id", "alert_id", "case_id"})
           l2 == KeyedBy(Later(SafeLoad(GoldCases, {}), {"case_id"}), GoldAlerts)
           l3 == KeyedBy(SafeLoad(GoldTasks, {"case_id", "is_completed"}), GoldAlerts)
<1>1. Asks(l1, GoldAlerts, {})
  BY LoadIs, TableColumns DEF Is, Asks, AlertsGoldColumns
<1>2. Asks(l2, GoldCases, {GoldAlerts})
  BY LoadIs, TableColumns DEF Is, Asks, CasesGoldColumns
<1>3. Asks(l3, GoldTasks, {GoldAlerts})
  BY LoadIs, TableColumns DEF Is, Asks, TasksGoldColumns
<1>4. FlagLoads = {l1, l2, l3}
  BY DEF FlagLoads
<1> QED
  BY <1>1, <1>2, <1>3, <1>4

LEMMA HistoryTables ==
  /\ Froms(TransactionHistory) =
       {BronzeTransactions, GoldPacs008, GoldAlerts, GoldCases, GoldTasks}
  /\ IsServed(TransactionHistory)
<1>1. PICK l1, l2 :
        /\ HistoryLoads = FlagLoads \cup {l1, l2}
        /\ Asks(l1, BronzeTransactions, {}) /\ Asks(l2, GoldPacs008, {})
  BY LoadIs, TableColumns DEF HistoryLoads, Is, Asks, Accounts, Pacs008GoldColumns
<1>2. PICK l3, l4, l5 :
        /\ FlagLoads = {l3, l4, l5}
        /\ Asks(l3, GoldAlerts, {}) /\ Asks(l4, GoldCases, {GoldAlerts})
        /\ Asks(l5, GoldTasks, {GoldAlerts})
  BY FlagTables
<1>3. TransactionHistory.loads = {l1, l2, l3, l4, l5}
  BY <1>1, <1>2 DEF TransactionHistory, Builder
<1> QED
  BY <1>1, <1>2, <1>3 DEF Asks, Froms, IsServed

LEMMA NetworkTablesAsked ==
  Froms(NetworkNavigator) = NetworkTables /\ IsServed(NetworkNavigator)
<1>1. PICK l1, l2, l3 :
        /\ NetworkLoads = NetworkFlagLoads \cup {l1, l2, l3}
        /\ Asks(l1, BronzeTransactions, {}) /\ Asks(l2, GoldPacs002, {})
        /\ Asks(l3, GoldPacs008, {})
  BY LoadIs, TableColumns
     DEF NetworkLoads, Is, Asks, Accounts, Pacs008GoldColumns, Pacs002GoldColumns
<1>2. PICK l4, l5, l6 :
        /\ NetworkFlagLoads = {l4, l5, l6}
        /\ Asks(l4, GoldAlerts, {}) /\ Asks(l5, GoldCases, {}) /\ Asks(l6, GoldTasks, {})
  BY LoadIs, TableColumns
     DEF NetworkFlagLoads, Is, Asks, AlertsGoldColumns, CasesGoldColumns, TasksGoldColumns
<1>3. NetworkNavigator.loads = {l1, l2, l3, l4, l5, l6}
  BY <1>1, <1>2 DEF NetworkNavigator, Builder
<1> QED
  BY <1>1, <1>2, <1>3 DEF Asks, Froms, IsServed, NetworkTables

LEMMA AlertHistoryTables ==
  /\ Froms(AlertHistory) = {GoldAlerts, GoldCases, GoldTasks, Detail}
  /\ IsServed(AlertHistory)
<1>0. PICK c1, c2, c3, c4 :
        /\ AlertHistoryLoads =
             {Load(GoldAlerts, c1), Load(GoldCases, c2), Load(GoldTasks, c3), Load(Detail, c4)}
        /\ c1 \subseteq AlertsGoldColumns /\ c2 \subseteq CasesGoldColumns
        /\ c3 \subseteq TasksGoldColumns /\ c4 \subseteq DetailColumns
  BY DEF AlertHistoryLoads, AlertsGoldColumns, CasesGoldColumns, TasksGoldColumns, DetailColumns
<1> DEFINE l1 == Load(GoldAlerts, c1)
           l2 == Load(GoldCases, c2)
           l3 == Load(GoldTasks, c3)
           l4 == Load(Detail, c4)
<1>1. /\ Asks(l1, GoldAlerts, {}) /\ Asks(l2, GoldCases, {}) /\ Asks(l3, GoldTasks, {})
      /\ Asks(l4, Detail, {})
  BY <1>0, LoadIs, TableColumns DEF Is, Asks
<1> HIDE DEF l1, l2, l3, l4
<1>2. AlertHistory.loads = {l1, l2, l3, l4}
  BY <1>0 DEF AlertHistory, Builder, l1, l2, l3, l4
<1> QED
  BY <1>1, <1>2 DEF Asks, Froms, IsServed

(* The conditions timeline asks gold/transactions for columns that it lacks *)
LEMMA TimelineTables ==
  /\ Froms(ConditionsTimeline) =
       {GoldCondition, GoldTransactions, GoldAlerts, GoldCases, GoldTasks}
  /\ \A l \in ConditionsTimeline.loads : l.safe => l.cols \subseteq Schema[l.from]
<1>0. PICK c1, c2, c3, c4 :
        /\ TimelineTransactions =
             {Load(GoldTransactions, c1), Load(GoldAlerts, c2), SafeLoad(GoldCases, c3),
              SafeLoad(GoldTasks, c4)}
        /\ c3 \subseteq CasesGoldColumns /\ c4 \subseteq TasksGoldColumns
  BY DEF TimelineTransactions, CasesGoldColumns, TasksGoldColumns
<1> DEFINE l1 == Load(GoldTransactions, c1)
           l2 == Load(GoldAlerts, c2)
           l3 == SafeLoad(GoldCases, c3)
           l4 == SafeLoad(GoldTasks, c4)
<1>1. /\ l1.from = GoldTransactions /\ ~l1.safe
      /\ l2.from = GoldAlerts /\ ~l2.safe
      /\ Asks(l3, GoldCases, {}) /\ Asks(l4, GoldTasks, {})
  BY <1>0, LoadIs, TableColumns DEF Is, Asks
<1> HIDE DEF l1, l2, l3, l4
<1>2. TimelineConditions.from = GoldCondition /\ ~TimelineConditions.safe
  BY LoadIs DEF TimelineConditions, Is
<1>3. ConditionsTimeline.loads = {TimelineConditions, l1, l2, l3, l4}
  BY <1>0 DEF ConditionsTimeline, Builder, l1, l2, l3, l4
<1> QED
  BY <1>1, <1>2, <1>3 DEF Asks, Froms
-----------------------------------------------------------------------------
(* Each builder, with the place of its views *)

LEMMA IsNavigator == IsBuilder(AlertNavigator) /\ MakesAt(AlertNavigator, 1)
<1> DEFINE s == AlertNavigator.outputs
<1>1. s = <<NavigatorHeader, NavigatorTypologies, NavigatorRules, NavigatorNetworkEvaluated>>
  BY DEF AlertNavigator, Builder
<1>2. Len(s) = 4 /\ DOMAIN s = 1..4 /\ s[1] = NavigatorHeader /\ s[2] = NavigatorTypologies
      /\ s[3] = NavigatorRules /\ s[4] = NavigatorNetworkEvaluated
  BY <1>1
<1> HIDE DEF s
<1>3. /\ s[1].to = <<"views", "alert_navigator/header">>
      /\ s[2].to = <<"views", "alert_navigator/typologies_triggered">>
      /\ s[3].to = <<"views", "alert_navigator/rules_triggered">>
      /\ s[4].to = <<"views", "alert_navigator/network_evaluated">>
  BY <1>2 DEF NavigatorHeader, NavigatorTypologies, NavigatorRules, NavigatorNetworkEvaluated,
       Output, OnlyWith
<1>4. /\ s[1].uses = {SilverAlerts, GoldTransactions} /\ s[1].due = {}
      /\ s[2].uses = {SilverAlerts, BronzeTypologies} /\ s[2].due = {}
      /\ s[3].uses = {SilverAlerts, BronzeRule} /\ s[3].due = {}
      /\ s[4].uses = {SilverAlerts, GoldTransactions, BronzeNetworkMap}
      /\ s[4].due = {BronzeNetworkMap}
  BY <1>2 DEF NavigatorHeader, NavigatorTypologies, NavigatorRules, NavigatorNetworkEvaluated,
       Output, OnlyWith
<1>5. /\ Place(s[1].to) = <<1, 1>> /\ Place(s[2].to) = <<1, 2>>
      /\ Place(s[3].to) = <<1, 3>> /\ Place(s[4].to) = <<1, 4>>
  BY <1>3 DEF Place
<1>6. \A k \in 1..4 : k = 1 \/ k = 2 \/ k = 3 \/ k = 4
  OBVIOUS
<1>7. /\ AlertNavigator.gate \subseteq Sources \cup {Detail}
      /\ Froms(AlertNavigator) \subseteq Sources \cup {Detail}
  BY NavigatorTables DEF AlertNavigator, Builder, Sources
<1>8. \A k \in DOMAIN s : /\ s[k].uses \subseteq Froms(AlertNavigator)
                          /\ s[k].due \subseteq Froms(AlertNavigator)
  BY <1>2, <1>4, <1>6, NavigatorTables
<1>9. MakesAt(AlertNavigator, 1)
  BY <1>2, <1>3, <1>5, <1>6 DEF MakesAt, s
<1> QED
  BY <1>2, <1>7, <1>8, <1>9, NavigatorTables DEF IsBuilder, IsServed, Asks, s

LEMMA IsDetail == IsBuilder(TransactionDetail) /\ MakesAt(TransactionDetail, 2)
<1> DEFINE s == TransactionDetail.outputs
<1>1. s = <<Output("vw_transaction_detail", {BronzeTransactions, GoldPacs008, GoldPacs002}, {})>>
  BY DEF TransactionDetail, Builder
<1>2. /\ Len(s) = 1 /\ DOMAIN s = 1..1 /\ s[1].to = <<"views", "vw_transaction_detail">>
      /\ s[1].uses = {BronzeTransactions, GoldPacs008, GoldPacs002}
      /\ s[1].due = {}
  BY <1>1 DEF Output
<1>3. Place(s[1].to) = <<2, 1>> /\ s[1].to[1] = "views"
  BY <1>2 DEF Place
<1>4. /\ TransactionDetail.gate \subseteq Sources \cup {Detail}
      /\ Froms(TransactionDetail) \subseteq Sources \cup {Detail}
  BY DetailTables DEF TransactionDetail, Builder, Sources
<1> QED
  BY <1>2, <1>3, <1>4, DetailTables DEF MakesAt, IsBuilder, IsServed, Asks

LEMMA IsHistory == IsBuilder(TransactionHistory) /\ MakesAt(TransactionHistory, 3)
<1> DEFINE s == TransactionHistory.outputs
<1>1. s = <<HistoryOutput>>
  BY DEF TransactionHistory, Builder
<1>2. /\ Len(s) = 1 /\ DOMAIN s = 1..1 /\ s[1].to = <<"views", "vw_transaction_history">>
      /\ s[1].uses = {BronzeTransactions, GoldPacs008, GoldAlerts, GoldCases, GoldTasks}
      /\ s[1].due = {}
  BY <1>1 DEF HistoryOutput, Output
<1>3. Place(s[1].to) = <<3, 1>> /\ s[1].to[1] = "views"
  BY <1>2 DEF Place
<1>4. /\ TransactionHistory.gate \subseteq Sources \cup {Detail}
      /\ Froms(TransactionHistory) \subseteq Sources \cup {Detail}
  BY HistoryTables DEF TransactionHistory, Builder, Sources
<1> QED
  BY <1>2, <1>3, <1>4, HistoryTables DEF MakesAt, IsBuilder, IsServed, Asks

LEMMA IsNetworkNavigator == IsBuilder(NetworkNavigator) /\ MakesAt(NetworkNavigator, 4)
<1> DEFINE s == NetworkNavigator.outputs
<1>1. s = NetworkOutputs
  BY DEF NetworkNavigator, Builder
<1>2. /\ Len(s) = 3 /\ DOMAIN s = 1..3
      /\ s[1] = Output("vw_tx_network_accounts_edges", NetworkTables, Payments)
      /\ s[2] = Output("vw_tx_network_counterparties_edges", NetworkTables, Payments)
      /\ s[3] = Output("vw_counterparty_account_links", NetworkTables, Payments)
  BY <1>1 DEF NetworkOutputs
<1> HIDE DEF s
<1>3. /\ s[1].to = <<"views", "vw_tx_network_accounts_edges">>
      /\ s[2].to = <<"views", "vw_tx_network_counterparties_edges">>
      /\ s[3].to = <<"views", "vw_counterparty_account_links">>
  BY <1>2 DEF Output
<1>4. /\ s[1].uses = NetworkTables /\ s[1].due = {}
      /\ s[2].uses = NetworkTables /\ s[2].due = {}
      /\ s[3].uses = NetworkTables /\ s[3].due = {}
  BY <1>2 DEF Output
<1>5. Place(s[1].to) = <<4, 1>> /\ Place(s[2].to) = <<4, 2>> /\ Place(s[3].to) = <<4, 3>>
  BY <1>3 DEF Place
<1>6. \A k \in 1..3 : k = 1 \/ k = 2 \/ k = 3
  OBVIOUS
<1>7. /\ NetworkNavigator.gate \subseteq Sources \cup {Detail}
      /\ Froms(NetworkNavigator) \subseteq Sources \cup {Detail}
  BY NetworkTablesAsked DEF NetworkNavigator, Builder, Sources, NetworkTables
<1>8. \A k \in DOMAIN s : /\ s[k].uses \subseteq Froms(NetworkNavigator)
                          /\ s[k].due \subseteq Froms(NetworkNavigator)
  BY <1>2, <1>4, <1>6, NetworkTablesAsked
<1>9. MakesAt(NetworkNavigator, 4)
  BY <1>2, <1>3, <1>5, <1>6 DEF MakesAt, s
<1> QED
  BY <1>2, <1>7, <1>8, <1>9, NetworkTablesAsked DEF IsBuilder, IsServed, Asks, s

LEMMA IsAlertHistory == IsBuilder(AlertHistory) /\ MakesAt(AlertHistory, 5)
<1> DEFINE s == AlertHistory.outputs
<1>1. s = <<AlertHistoryOutput>>
  BY DEF AlertHistory, Builder
<1>2. /\ Len(s) = 1 /\ DOMAIN s = 1..1 /\ s[1].to = <<"views", "alert_history">>
      /\ s[1].uses = {GoldAlerts, GoldCases, GoldTasks, Detail}
      /\ s[1].due = {}
  BY <1>1 DEF AlertHistoryOutput, Output
<1>3. Place(s[1].to) = <<5, 1>> /\ s[1].to[1] = "views"
  BY <1>2 DEF Place
<1>4. /\ AlertHistory.gate \subseteq Sources \cup {Detail}
      /\ Froms(AlertHistory) \subseteq Sources \cup {Detail}
  BY AlertHistoryTables DEF AlertHistory, Builder, Sources
<1> QED
  BY <1>2, <1>3, <1>4, AlertHistoryTables DEF MakesAt, IsBuilder, IsServed, Asks

LEMMA IsTimeline == IsBuilder(ConditionsTimeline) /\ MakesAt(ConditionsTimeline, 6)
<1> DEFINE s == ConditionsTimeline.outputs
<1>1. s = <<TimelineOutput>>
  BY DEF ConditionsTimeline, Builder
<1>2. /\ Len(s) = 1 /\ DOMAIN s = 1..1 /\ s[1].to = <<"views", "conditions_timeline">>
      /\ s[1].uses = {GoldCondition, GoldTransactions, GoldAlerts, GoldCases, GoldTasks}
      /\ s[1].due = {}
  BY <1>1 DEF TimelineOutput, Output
<1>3. Place(s[1].to) = <<6, 1>> /\ s[1].to[1] = "views"
  BY <1>2 DEF Place
<1>4. /\ ConditionsTimeline.gate \subseteq Sources \cup {Detail}
      /\ Froms(ConditionsTimeline) \subseteq Sources \cup {Detail}
  BY TimelineTables DEF ConditionsTimeline, Builder, Sources
<1> QED
  BY <1>2, <1>3, <1>4, TimelineTables DEF MakesAt, IsBuilder, IsServed, Asks

(* run_all *)
LEMMA Builders ==
  /\ Len(RunAll) = 6 /\ DOMAIN RunAll = 1..6
  /\ \A n \in 1..6 : IsBuilder(RunAll[n]) /\ MakesAt(RunAll[n], n)
  /\ \A n \in 1..6 : n # 5 => RunAll[n].gate \cup Froms(RunAll[n]) \subseteq Sources
  /\ \A n \in 1..6 : Froms(RunAll[n]) \subseteq Sources \cup RunAll[n].gate
  /\ \A n \in 1..5 : IsServed(RunAll[n])
  /\ RunAll[6].name = "conditions_timeline"
  /\ \A n \in 1..5 : RunAll[n].name # "conditions_timeline"
<1>1. /\ Len(RunAll) = 6 /\ DOMAIN RunAll = 1..6
      /\ RunAll[1] = AlertNavigator /\ RunAll[2] = TransactionDetail
      /\ RunAll[3] = TransactionHistory /\ RunAll[4] = NetworkNavigator
      /\ RunAll[5] = AlertHistory /\ RunAll[6] = ConditionsTimeline
  BY DEF RunAll
<1>2. \A n \in 1..6 : n = 1 \/ n = 2 \/ n = 3 \/ n = 4 \/ n = 5 \/ n = 6
  OBVIOUS
<1>3. \A n \in 1..6 : IsBuilder(RunAll[n]) /\ MakesAt(RunAll[n], n)
  BY <1>1, <1>2, IsNavigator, IsDetail, IsHistory, IsNetworkNavigator, IsAlertHistory, IsTimeline
<1>4. /\ AlertNavigator.gate = {SilverAlerts} /\ AlertNavigator.name = "alert_navigator"
      /\ TransactionDetail.gate = {BronzeTransactions}
      /\ TransactionDetail.name = "vw_transaction_detail"
      /\ TransactionHistory.gate = {BronzeTransactions}
      /\ TransactionHistory.name = "vw_transaction_history"
      /\ NetworkNavigator.gate = NetworkTables /\ NetworkNavigator.name = "network_navigator"
      /\ AlertHistory.gate = {GoldAlerts, GoldCases, GoldTasks, Detail}
      /\ AlertHistory.name = "alert_history"
      /\ ConditionsTimeline.gate = {GoldCondition, GoldTransactions, GoldAlerts}
      /\ ConditionsTimeline.name = "conditions_timeline"
  BY DEF AlertNavigator, TransactionDetail, TransactionHistory, NetworkNavigator, AlertHistory,
       ConditionsTimeline, Builder
<1>5. /\ AlertNavigator.gate \cup Froms(AlertNavigator) \subseteq Sources
      /\ TransactionDetail.gate \cup Froms(TransactionDetail) \subseteq Sources
      /\ TransactionHistory.gate \cup Froms(TransactionHistory) \subseteq Sources
      /\ NetworkNavigator.gate \cup Froms(NetworkNavigator) \subseteq Sources
      /\ ConditionsTimeline.gate \cup Froms(ConditionsTimeline) \subseteq Sources
      /\ Froms(AlertHistory) = AlertHistory.gate
  BY <1>4, NavigatorTables, DetailTables, HistoryTables, NetworkTablesAsked, AlertHistoryTables,
     TimelineTables DEF Sources, NetworkTables
<1>6. \A n \in 1..5 : IsServed(RunAll[n])
  BY <1>1, <1>2, NavigatorTables, DetailTables, HistoryTables, NetworkTablesAsked,
     AlertHistoryTables
<1> QED
  BY <1>1, <1>2, <1>3, <1>4, <1>5, <1>6

(* A view is made at one place only, and no builder reads one that it or a  *)
(* later builder makes.                                                     *)
LEMMA ViewsInOrder ==
  ASSUME NEW n \in 1..6, NEW k \in DOMAIN RunAll[n].outputs
  PROVE  /\ RunAll[n].outputs[k].to \in Views /\ RunAll[n].outputs[k].to \notin Sources
         /\ \A m \in 1..6 : \A j \in DOMAIN RunAll[m].outputs :
              RunAll[m].outputs[j].to = RunAll[n].outputs[k].to => m = n /\ j = k
         /\ \A m \in 1..n :
              RunAll[n].outputs[k].to \notin Froms(RunAll[m]) \cup RunAll[m].gate
<1> DEFINE v == RunAll[n].outputs[k].to
<1>1. v \in Views
  <2>1. v \in {o.to : o \in OutputsOf(RunAll[n])}
    BY DEF OutputsOf
  <2>2. n \in DOMAIN RunAll
    BY Builders
  <2> QED
    BY <2>1, <2>2 DEF Views
<1>2. v \notin Sources
  <2>1. v[1] = "views"
    BY Builders DEF MakesAt
  <2>2. \A t \in Sources : t[1] # "views"
    BY DEF Sources, SilverAlerts, GoldAlerts, GoldCases, GoldTasks, GoldCondition,
       BronzeTransactions, GoldTransactions, GoldPacs008, GoldPacs002, BronzeTypologies,
       BronzeNetworkMap, BronzeRule
  <2> QED
    BY <2>1, <2>2
<1>3. \A m \in 1..6 : \A j \in DOMAIN RunAll[m].outputs :
        RunAll[m].outputs[j].to = v => m = n /\ j = k
  BY Builders DEF MakesAt
<1>4. ASSUME NEW m \in 1..n PROVE v \notin Froms(RunAll[m]) \cup RunAll[m].gate
  <2>1. CASE m # 5
    BY <1>2, <2>1, Builders
  <2>2. CASE m = 5
    <3>1. Place(v) # <<2, 1>>
      BY <2>2, Builders DEF MakesAt
    <3>2. Place(Detail) = <<2, 1>>
      BY DEF Place, Detail
    <3>3. v \notin Sources \cup {Detail}
      BY <1>2, <3>1, <3>2
    <3> QED
      BY <3>3, Builders DEF IsBuilder
  <2> QED
    BY <2>1, <2>2
<1> QED
  BY <1>1, <1>2, <1>3, <1>4

LEMMA DetailIsAView == Detail \in Views
<1>1. TransactionDetail.outputs[1].to = Detail /\ 1 \in DOMAIN TransactionDetail.outputs
  BY DEF TransactionDetail, Builder, Output, Detail
<1>2. RunAll[2] = TransactionDetail /\ 2 \in DOMAIN RunAll
  BY DEF RunAll
<1> QED
  BY <1>1, <1>2 DEF Views, OutputsOf

(* The tables of the catalog *)
LEMMA Tables ==
  ASSUME NEW n \in 1..6
  PROVE  /\ Froms(RunAll[n]) \subseteq Sources \cup Views
         /\ Len(RunAll[n].outputs) \in 1..4
         /\ DOMAIN RunAll[n].outputs = 1..Len(RunAll[n].outputs)
         /\ \A k \in DOMAIN RunAll[n].outputs :
              /\ RunAll[n].outputs[k].to \in Views
              /\ RunAll[n].outputs[k].uses \subseteq Froms(RunAll[n])
              /\ RunAll[n].outputs[k].due \subseteq Froms(RunAll[n])
         /\ RunAll[n].name \in Names
BY Builders, ViewsInOrder, DetailIsAView DEF IsBuilder, Names
-----------------------------------------------------------------------------
LEMMA TypeInit == Init => TypeOK
<1> SUFFICES ASSUME Init PROVE TypeOK
  OBVIOUS
<1>1. lake \subseteq Sources \cup Served
  BY DEF Init, Ingested, Written
<1>2. fresh \in [Views -> SUBSET (Sources \cup Views)]
  BY DEF Init
<1>3. at \in 0..Len(RunAll) + 1 /\ step = 0
  BY Builders DEF Init
<1>4. 0 \in 0..MaxJobs /\ 0 \in 0..MaxFaults
  BY BoundsAssumption
<1>5. todo \in BOOLEAN /\ ended \in BOOLEAN /\ left \subseteq Views
  BY DEF Init
<1>6. loaded \subseteq Sources \cup Views /\ raised \subseteq Names /\ degraded \subseteq Names
  BY DEF Init
<1>7. jobs \in 0..MaxJobs /\ faults \in 0..MaxFaults
  BY <1>4 DEF Init
<1> QED
  BY <1>1, <1>2, <1>3, <1>5, <1>6, <1>7 DEF TypeOK

LEMMA TypeNext == TypeOK /\ [Next]_vars => TypeOK'
<1> SUFFICES ASSUME TypeOK, [Next]_vars PROVE TypeOK'
  OBVIOUS
<1> USE DEF TypeOK, Now, Building, progress
<1>0. Len(RunAll) = 6 /\ DOMAIN RunAll = 1..6
  BY Builders
<1>1. ASSUME NEW req \in Deliveries, Job(req) PROVE TypeOK'
  <2> DEFINE r == Route(Normalized(req))
  <2>1. lake' \subseteq Sources \cup Served \cup Views
    BY <1>1 DEF Job, Written
  <2>2. fresh' \in [Views -> SUBSET (Sources \cup Views)]
    BY <1>1 DEF Job, Behind
  <2>3. faults' \in 0..MaxFaults
    BY <1>1, BoundsAssumption DEF Job
  <2>4. todo' \in BOOLEAN /\ ended' \in BOOLEAN /\ left' \subseteq Views
    BY <1>1 DEF Job
  <2> QED
    BY <1>1, <2>1, <2>2, <2>3, <2>4, BoundsAssumption DEF Job
<1>2. CASE Begin
  <2>1. at' \in 0..Len(RunAll) + 1 /\ step = 0 /\ step' = 0
    BY <1>0, <1>2 DEF Begin
  <2>2. todo' \in BOOLEAN /\ ended' \in BOOLEAN
    BY <1>2 DEF Begin
  <2>3. raised' \subseteq Names /\ degraded' \subseteq Names
    BY <1>2 DEF Begin
  <2>4. jobs' \in 0..MaxJobs /\ faults' \in 0..MaxFaults /\ loaded' \subseteq Sources \cup Views
    BY <1>2 DEF Begin
  <2>5. /\ lake' \subseteq Sources \cup Served \cup Views
        /\ fresh' \in [Views -> SUBSET (Sources \cup Views)] /\ left' \subseteq Views
    BY <1>2 DEF Begin
  <2> QED
    BY <2>1, <2>2, <2>3, <2>4, <2>5
<1>3. CASE Skip
  BY <1>0, <1>3 DEF Skip, PassOn
<1>4. CASE LoadTables
  <2>0. at \in 1..6
    BY <1>0, <1>4 DEF LoadTables
  <2>1. PICK lost \in {{}} \cup {{l.from} : l \in {m \in Now.loads : m.from \in lake}} :
          LET answers == Answered(Now, lost)
          IN  /\ lost # {} => faults < MaxFaults
              /\ faults' = IF lost = {} THEN faults ELSE faults + 1
              /\ degraded' = IF lost = {} THEN degraded ELSE degraded \cup {Now.name}
              /\ IF Resolves(Now, answers)
                 THEN /\ loaded' = {l.from : l \in answers} /\ step' = 1
                      /\ UNCHANGED <<at, raised>>
                 ELSE raised' = raised \cup {Now.name} /\ PassOn
    BY <1>4 DEF LoadTables
  <2>2. faults' \in 0..MaxFaults /\ degraded' \subseteq Names
    <3>1. Now.name \in Names
      BY <2>0, Tables
    <3>2. degraded' \subseteq Names
      BY <2>1, <3>1
    <3>3. faults' = faults \/ (faults < MaxFaults /\ faults' = faults + 1)
      <4>1. CASE lost = {}
        BY <2>1, <4>1
      <4>2. CASE lost # {}
        BY <2>1, <4>2
      <4> QED
        BY <4>1, <4>2
    <3>4. faults' \in 0..MaxFaults
      BY <3>3, BoundsAssumption
    <3> QED
      BY <3>2, <3>4
  <2>3. {l.from : l \in Answered(Now, lost)} \subseteq Sources \cup Views
    BY <2>0, Tables DEF Answered, Froms
  <2>4. /\ at' \in 0..Len(RunAll) + 1 /\ step' \in 0..4
        /\ step' > 0 => at' = at /\ step' = 1
        /\ loaded' \subseteq Sources \cup Views /\ raised' \subseteq Names
    BY <1>0, <2>0, <2>1, <2>3, Tables DEF PassOn
  <2>5. UNCHANGED <<lake, fresh, left, todo, ended, went, jobs>>
    BY <1>4 DEF LoadTables
  <2>6. step' > 0 => Building' /\ step' <= Len(Now'.outputs)
    <3>1. Len(Now.outputs) \in 1..4
      BY <2>0, Tables
    <3>2. \A n \in 1..4 : 1 <= n
      OBVIOUS
    <3> QED
      BY <1>0, <2>0, <2>4, <3>1, <3>2
  <2> QED
    BY <2>2, <2>4, <2>5, <2>6
<1>5. CASE Write
  <2> DEFINE o == Now.outputs[step]
  <2>0. at \in 1..6 /\ step \in DOMAIN Now.outputs
    BY <1>0, <1>5, Tables DEF Write
  <2>1. o.to \in Views /\ o.uses \cap loaded \subseteq Sources \cup Views
    BY <2>0, Tables
  <2>2. lake' \subseteq Sources \cup Served \cup Views
    BY <1>5, <2>1 DEF Write
  <2>3. fresh' \in [Views -> SUBSET (Sources \cup Views)]
    BY <1>5, <2>1 DEF Write, Behind
  <2>11. left' \subseteq Views
    BY <1>5, <2>1 DEF Write
  <2>4. PICK n \in 1..4 : Len(Now.outputs) = n /\ step \in 1..n
    BY <2>0, Tables
  <2>5. \/ at' = at + 1 /\ step' = 0 /\ loaded' = {}
        \/ at' = at /\ step' = step + 1 /\ loaded' = loaded /\ step # Len(Now.outputs)
    BY <1>5 DEF Write, PassOn
  <2>6. loaded' \subseteq Sources \cup Views
    BY <2>5
  <2>8. at' \in 0..Len(RunAll) + 1
    BY <1>0, <2>0, <2>5
  <2>9. step' \in 0..4 /\ (step' > 0 => at' = at /\ step' <= n)
    BY <2>4, <2>5
  <2>7. step' > 0 => Building' /\ step' <= Len(Now'.outputs)
    BY <1>0, <2>0, <2>4, <2>9
  <2>10. UNCHANGED <<raised, degraded, todo, ended, went, jobs, faults>>
    BY <1>5 DEF Write
  <2> QED
    BY <2>2, <2>3, <2>6, <2>7, <2>8, <2>9, <2>10, <2>11
<1>6. CASE WriteFails
  <2>1. at \in 1..6
    BY <1>0, <1>6 DEF WriteFails
  <2> QED
    BY <1>0, <1>6, <2>1, Tables, BoundsAssumption DEF WriteFails, PassOn
<1>7. CASE End
  BY <1>0, <1>7 DEF End
<1>8. CASE Crash
  BY <1>0, <1>8, BoundsAssumption DEF Crash
<1>9. CASE UNCHANGED vars
  BY <1>9 DEF vars
<1> QED
  BY <1>1, <1>2, <1>3, <1>4, <1>5, <1>6, <1>7, <1>8, <1>9 DEF Next

LEMMA TypeAlways == Spec => []TypeOK
BY TypeInit, TypeNext, PTL DEF Spec

(* Tables, builders, outputs and counters stay what they are: a view is     *)
(* only made of tables and of other views (Lakehouse.tla, TypeOK).          *)
THEOREM TypeCorrect == Spec => []TypeOK
BY TypeAlways
-----------------------------------------------------------------------------
(* Completeness of a build.  Every builder that is behind run_all has made  *)
(* its views of what is there (whatever rows are left over from before);    *)
(* the one at work has the tables that are      *)
(* there, and has made the outputs before its next one.  A builder that     *)
(* raised or lost a table is out of it.                                     *)
Made(o) == o.due \subseteq lake => o.to \in lake /\ fresh[o.to] = o.uses \cap lake

Sound(builder) == builder.name \notin raised \cup degraded

BuildInv ==
  /\ at # 0 => ~ended
  /\ \A n \in 1..6 : (ended \/ n < at) /\ Ready(RunAll[n]) /\ Sound(RunAll[n]) =>
       \A j \in DOMAIN RunAll[n].outputs : Made(RunAll[n].outputs[j])
  /\ step > 0 /\ Sound(Now) =>
       /\ loaded = Froms(Now) \cap lake
       /\ \A j \in DOMAIN Now.outputs : j < step => Made(Now.outputs[j])

(* Writing a view leaves the other views of its builder, and those of the   *)
(* builders before it, as up to date as they are.                           *)
LEMMA WriteKeeps ==
  ASSUME TypeOK, NEW n \in 1..6, NEW k \in DOMAIN RunAll[n].outputs,
         NEW m \in 1..n, NEW j \in DOMAIN RunAll[m].outputs, ~(m = n /\ j = k),
         NEW o, o = RunAll[n].outputs[k], NEW content,
         lake' = lake \cup {o.to}, fresh' = [Behind({o.to}) EXCEPT ![o.to] = content],
         Made(RunAll[m].outputs[j])
  PROVE  Made(RunAll[m].outputs[j])'
<1> DEFINE p == RunAll[m].outputs[j]
<1>0. m \in 1..6
  OBVIOUS
<1>1. p.to # o.to /\ o.to \notin p.uses /\ o.to \notin p.due
  <2>1. p.to # o.to
    BY <1>0, ViewsInOrder
  <2>2. o.to \notin Froms(RunAll[m])
    BY ViewsInOrder
  <2>3. p.uses \subseteq Froms(RunAll[m]) /\ p.due \subseteq Froms(RunAll[m])
    BY <1>0, Tables
  <2> QED
    BY <2>1, <2>2, <2>3
<1>2. p.to \in Views /\ fresh'[p.to] = fresh[p.to] \ {o.to}
  BY <1>0, <1>1, Tables DEF Behind
<1>3. p.due \subseteq lake' => p.due \subseteq lake
  BY <1>1
<1>4. p.uses \cap lake' = (p.uses \cap lake) \ {o.to}
  BY <1>1
<1> HIDE DEF p
<1>5. Made(p) => (p.due \subseteq lake' => p.to \in lake' /\ fresh'[p.to] = p.uses \cap lake')
  BY <1>2, <1>3, <1>4 DEF Made
<1> QED
  BY <1>5 DEF Made, p

LEMMA BuildInit == Init => BuildInv
BY DEF Init, BuildInv

(* No builder raises or loses a table any less when a build goes on. *)
LEMMA SoundBefore ==
  ASSUME NEW n, raised \subseteq raised', degraded \subseteq degraded', Sound(RunAll[n])'
  PROVE  Sound(RunAll[n])
BY DEF Sound

LEMMA BuildNext == TypeOK /\ BuildInv /\ [Next]_vars => BuildInv'
<1> SUFFICES ASSUME TypeOK, BuildInv, [Next]_vars PROVE BuildInv'
  OBVIOUS
<1>0. /\ Len(RunAll) = 6 /\ DOMAIN RunAll = 1..6 /\ at \in 0..7 /\ step \in 0..4
      /\ step > 0 => at \in 1..6
  BY Builders DEF TypeOK, Building
<1>1. ASSUME NEW req \in Deliveries, Job(req) PROVE BuildInv'
  <2>1. at = 0 /\ at' = 0 /\ step = 0 /\ step' = 0
    BY <1>0, <1>1 DEF Job, progress
  <2>2. CASE ended' = FALSE
    BY <2>1, <2>2 DEF BuildInv
  <2>3. CASE UNCHANGED <<lake, fresh, ended>>
    <3>1. UNCHANGED <<raised, degraded>>
      BY <1>1 DEF Job
    <3> QED
      BY <2>1, <2>3, <3>1 DEF BuildInv, Ready, Sound, Made
  <2> QED
    BY <1>1, <2>2, <2>3 DEF Job
<1>2. CASE Begin
  <2>1. at' = 1 /\ step' = 0 /\ ended' = FALSE
    BY <1>0, <1>2 DEF Begin
  <2> QED
    BY <2>1 DEF BuildInv
<1>3. CASE Skip
  <2>1. at \in 1..6 /\ at' = at + 1 /\ step' = 0 /\ ended' = ended /\ ~ended /\ ~Ready(RunAll[at])
    BY <1>0, <1>3 DEF Skip, PassOn, Building, BuildInv, Now
  <2>2. UNCHANGED <<lake, fresh, raised, degraded>>
    BY <1>3 DEF Skip
  <2>3. \A n \in 1..6 : n < at' => n < at \/ n = at
    BY <2>1
  <2> QED
    BY <2>1, <2>2, <2>3 DEF BuildInv, Ready, Sound, Made
<1>4. CASE LoadTables
  <2>0. at \in 1..6 /\ ~ended /\ ended' = ended /\ UNCHANGED <<lake, fresh>> /\ step = 0
    BY <1>0, <1>4 DEF LoadTables, Building, BuildInv
  <2>1. PICK lost \in {{}} \cup {{l.from} : l \in {m \in Now.loads : m.from \in lake}} :
          LET answers == Answered(Now, lost)
          IN  /\ degraded' = IF lost = {} THEN degraded ELSE degraded \cup {Now.name}
              /\ IF Resolves(Now, answers)
                 THEN /\ loaded' = {l.from : l \in answers} /\ step' = 1
                      /\ UNCHANGED <<at, raised>>
                 ELSE raised' = raised \cup {Now.name} /\ PassOn
    BY <1>4 DEF LoadTables
  <2>2. raised \subseteq raised' /\ degraded \subseteq degraded'
    BY <2>1
  <2>3. ASSUME NEW n \in 1..6, n < at, Ready(RunAll[n])', Sound(RunAll[n])',
               NEW j \in DOMAIN RunAll[n].outputs
        PROVE  Made(RunAll[n].outputs[j])'
    <3>1. Ready(RunAll[n]) /\ Sound(RunAll[n])
      BY <2>0, <2>2, <2>3, SoundBefore DEF Ready
    <3>2. Made(RunAll[n].outputs[j])
      BY <2>3, <3>1 DEF BuildInv
    <3> QED
      BY <2>0, <3>2 DEF Made
  <2>4. CASE Resolves(Now, Answered(Now, lost))
    <3>1. at' = at /\ step' = 1 /\ loaded' = {l.from : l \in Answered(Now, lost)}
      BY <2>1, <2>4
    <3>2. ASSUME Sound(Now)' PROVE loaded' = Froms(Now) \cap lake
      <4>1. lost = {}
        BY <2>0, <2>1, <3>1, <3>2 DEF Sound, Now
      <4>2. \A l \in Now.loads : l.safe => l.cols \subseteq Schema[l.from]
        BY <2>0, Builders DEF IsBuilder, Now
      <4>3. \A l \in Now.loads : l \in Answered(Now, lost) <=> l.from \in lake
        BY <2>4, <4>1, <4>2 DEF Answered, Resolves
      <4> QED
        BY <3>1, <4>3 DEF Answered, Froms
    <3>3. \A j \in DOMAIN Now.outputs : ~(j < 1)
      BY <2>0, Tables DEF Now
    <3>4. Now' = Now
      BY <3>1 DEF Now
    <3> QED
      BY <2>0, <2>3, <3>1, <3>2, <3>3, <3>4 DEF BuildInv
  <2>5. CASE ~Resolves(Now, Answered(Now, lost))
    <3>1. PICK b \in 1..6 : b = at
      BY <2>0
    <3>2. at' = b + 1 /\ step' = 0 /\ ~Sound(RunAll[b])'
      BY <2>1, <2>5, <3>1 DEF PassOn, Sound, Now
    <3>3. \A n \in 1..6 : n < at' => n < at \/ n = b
      BY <3>1, <3>2
    <3> QED
      BY <2>0, <2>3, <3>2, <3>3 DEF BuildInv
  <2> QED
    BY <2>4, <2>5
<1>6. CASE WriteFails
  <2>0. PICK b \in 1..6 : b = at
    BY <1>0, <1>6 DEF WriteFails
  <2>1. /\ at' = b + 1 /\ step' = 0 /\ ended' = ended /\ ~ended
        /\ ~Sound(RunAll[b])' /\ UNCHANGED <<lake, fresh, degraded>> /\ raised \subseteq raised'
    BY <1>6, <2>0 DEF WriteFails, PassOn, BuildInv, Now, Sound
  <2>2. \A n \in 1..6 : n < at' => n < at \/ n = b
    BY <2>0, <2>1
  <2>3. \A n \in 1..6 : Sound(RunAll[n])' => Sound(RunAll[n])
    BY <2>1, SoundBefore
  <2> QED
    BY <2>1, <2>2, <2>3 DEF BuildInv, Ready, Made
<1>7. CASE End
  <2>1. at = 7 /\ at' = 0 /\ step = 0 /\ step' = 0 /\ UNCHANGED <<lake, fresh, raised, degraded>>
    BY <1>0, <1>7 DEF End
  <2>2. \A n \in 1..6 : n < at
    BY <2>1
  <2> QED
    BY <2>1, <2>2 DEF BuildInv, Ready, Sound, Made
<1>8. CASE Crash
  BY <1>0, <1>8 DEF Crash, BuildInv
<1>9. CASE UNCHANGED vars
  BY <1>9 DEF vars, progress, BuildInv, Ready, Sound, Made, Now
<1>10. CASE Write
  <2>0. PICK n \in 1..6, k \in 1..4 : n = at /\ k = step
    BY <1>0, <1>10 DEF Write
  <2>1. PICK o : o = RunAll[n].outputs[k]
    OBVIOUS
  <2>2. /\ k \in DOMAIN RunAll[n].outputs /\ DOMAIN RunAll[n].outputs = 1..Len(RunAll[n].outputs)
        /\ Len(RunAll[n].outputs) \in 1..4
        /\ o.to \in Views /\ o.uses \subseteq Froms(RunAll[n]) /\ o.due \subseteq Froms(RunAll[n])
    <3>1. PICK l \in 1..4 : l = Len(RunAll[n].outputs) /\ DOMAIN RunAll[n].outputs = 1..l
      BY Tables
    <3>2. k <= l
      BY <1>0, <2>0, <3>1 DEF TypeOK, Now
    <3>3. k \in DOMAIN RunAll[n].outputs
      BY <3>1, <3>2
    <3> QED
      BY <2>1, <3>3, Tables
  <2>3. /\ ~ended /\ ended' = ended /\ UNCHANGED <<raised, degraded>>
        /\ \A m \in 1..6 : Sound(RunAll[m])' <=> Sound(RunAll[m])
    BY <1>10, <2>0 DEF Write, BuildInv, Sound
  <2>4. \A m \in 1..n : o.to \notin Froms(RunAll[m]) \cup RunAll[m].gate
    BY <2>1, <2>2, ViewsInOrder
  <2>5. \/ o.due \subseteq loaded /\ lake' = lake \cup {o.to}
           /\ fresh' = [Behind({o.to}) EXCEPT ![o.to] = o.uses \cap loaded]
        \/ ~(o.due \subseteq loaded) /\ UNCHANGED <<lake, fresh>>
    BY <1>10, <2>0, <2>1 DEF Write, Now
  <2>6. \/ k = Len(RunAll[n].outputs) /\ at' = n + 1 /\ step' = 0
        \/ k # Len(RunAll[n].outputs) /\ at' = n /\ step' = k + 1 /\ loaded' = loaded
    BY <1>10, <2>0 DEF Write, PassOn, Now
  <2>7. \A m \in 1..n : Ready(RunAll[m])' => Ready(RunAll[m])
    BY <2>4, <2>5 DEF Ready
  <2>8. ASSUME NEW m \in 1..n, NEW j \in DOMAIN RunAll[m].outputs, ~(m = n /\ j = k),
               Made(RunAll[m].outputs[j])
        PROVE  Made(RunAll[m].outputs[j])'
    <3>1. CASE UNCHANGED <<lake, fresh>>
      BY <2>8, <3>1 DEF Made
    <3>2. CASE /\ lake' = lake \cup {o.to}
               /\ fresh' = [Behind({o.to}) EXCEPT ![o.to] = o.uses \cap loaded]
      BY <2>1, <2>2, <2>8, <3>2, WriteKeeps
    <3> QED
      BY <2>5, <3>1, <3>2
  <2>9. ASSUME NEW m \in 1..6, m < n, Ready(RunAll[m])', Sound(RunAll[m])',
               NEW j \in DOMAIN RunAll[m].outputs
        PROVE  Made(RunAll[m].outputs[j])'
    <3>1. Made(RunAll[m].outputs[j])
      BY <2>0, <2>3, <2>7, <2>9 DEF BuildInv
    <3> QED
      BY <2>8, <2>9, <3>1
  <2>10. ASSUME Sound(RunAll[n])
         PROVE  /\ loaded = Froms(RunAll[n]) \cap lake /\ loaded = Froms(RunAll[n]) \cap lake'
                /\ \A j \in DOMAIN RunAll[n].outputs : j < k + 1 => Made(RunAll[n].outputs[j])'
    <3>1. /\ loaded = Froms(RunAll[n]) \cap lake
          /\ \A j \in DOMAIN RunAll[n].outputs : j < k => Made(RunAll[n].outputs[j])
      BY <2>0, <2>10 DEF BuildInv, Now
    <3>2. loaded = Froms(RunAll[n]) \cap lake'
      BY <2>4, <2>5, <3>1
    <3>3. o.due \subseteq lake' <=> o.due \subseteq loaded
      BY <2>2, <3>2
    <3>4. o.due \subseteq loaded => o.to \in lake' /\ fresh'[o.to] = o.uses \cap lake'
      BY <2>2, <2>5, <3>2 DEF Behind
    <3>5. Made(RunAll[n].outputs[k])'
      BY <2>1, <3>3, <3>4 DEF Made
    <3>6. ASSUME NEW j \in DOMAIN RunAll[n].outputs, j < k PROVE Made(RunAll[n].outputs[j])'
      BY <2>8, <3>1, <3>6
    <3>7. \A j \in DOMAIN RunAll[n].outputs : j < k + 1 => j < k \/ j = k
      BY <2>2
    <3> QED
      BY <3>1, <3>2, <3>5, <3>6, <3>7
  <2>11. CASE k = Len(RunAll[n].outputs) /\ at' = n + 1 /\ step' = 0
    <3>1. \A m \in 1..6 : m < at' => m < n \/ m = n
      BY <2>11
    <3>2. \A j \in DOMAIN RunAll[n].outputs : j < k + 1
      BY <2>2, <2>11
    <3> QED
      BY <2>3, <2>9, <2>10, <2>11, <3>1, <3>2 DEF BuildInv
  <2>12. CASE k # Len(RunAll[n].outputs) /\ at' = n /\ step' = k + 1 /\ loaded' = loaded
    <3>1. Now' = RunAll[n]
      BY <2>12 DEF Now
    <3> QED
      BY <2>3, <2>9, <2>10, <2>12, <3>1 DEF BuildInv
  <2> QED
    BY <2>6, <2>11, <2>12
<1> QED
  BY <1>1, <1>2, <1>3, <1>4, <1>10, <1>6, <1>7, <1>8, <1>9 DEF Next

LEMMA BuildAlways == Spec => []BuildInv
BY TypeAlways, BuildInit, BuildNext, PTL DEF Spec

(* A view whose keys are the ids of a table replaces all its rows: the ids  *)
(* of a table are never fewer than they were.                               *)
LeftInv ==
  \A n \in 1..6 : \A k \in DOMAIN RunAll[n].outputs :
    RunAll[n].outputs[k].keys = {} => RunAll[n].outputs[k].to \notin left

LEMMA LeftInit == Init => LeftInv
BY DEF Init, LeftInv

LEMMA LeftNext == TypeOK /\ LeftInv /\ [Next]_vars => LeftInv'
<1> SUFFICES ASSUME TypeOK, LeftInv, [Next]_vars PROVE LeftInv'
  OBVIOUS
<1>1. CASE Write
  <2>0. at \in 1..6 /\ step \in DOMAIN Now.outputs
    BY <1>1, Tables, Builders DEF Write, TypeOK, Now, Building
  <2>1. PICK n \in 1..6 : n = at
    BY <2>0
  <2>2. PICK k \in DOMAIN RunAll[n].outputs : k = step
    BY <2>0, <2>1 DEF Now
  <2>3. PICK o : o = RunAll[n].outputs[k]
    OBVIOUS
  <2>4. left' = left \/ (left' = left \cup {o.to} /\ ~KeysAgain(o))
    BY <1>1, <2>1, <2>2, <2>3 DEF Write, Now
  <2>5. o.keys # {} \/ left' = left
    BY <2>4 DEF KeysAgain
  <2>6. ASSUME NEW m \in 1..6, NEW j \in DOMAIN RunAll[m].outputs,
               RunAll[m].outputs[j].keys = {}
        PROVE  RunAll[m].outputs[j].to \notin left'
    <3>1. RunAll[m].outputs[j].to \notin left
      BY <2>6 DEF LeftInv
    <3>2. RunAll[m].outputs[j].to = o.to => m = n /\ j = k
      BY <2>3, ViewsInOrder
    <3> QED
      BY <2>3, <2>4, <2>5, <2>6, <3>1, <3>2
  <2> QED
    BY <2>6 DEF LeftInv
<1>2. CASE UNCHANGED left
  BY <1>2 DEF LeftInv
<1> QED
  BY <1>1, <1>2 DEF Next, Job, Begin, Skip, LoadTables, WriteFails, End, Crash, vars

LEMMA LeftAlways == Spec => []LeftInv
BY TypeAlways, LeftInit, LeftNext, PTL DEF Spec

(* After a build, every view whose tables exist has been written from all   *)
(* of them as they are, but for those of the builders that raised or lost a *)
(* table: what _run_view catches and what _safe_load forgives reaches no    *)
(* other view, and the order of run_all suits what the builders read.  A    *)
(* view that is keyed by ids holds nothing else (Lakehouse.tla,             *)
(* BuildIsComplete).                                                        *)
THEOREM BuildsAreComplete == Spec => []BuildIsComplete
<1>1. TypeOK /\ BuildInv /\ LeftInv => BuildIsComplete
  <2> SUFFICES ASSUME BuildInv, LeftInv, ended, NEW n \in 1..6, Ready(RunAll[n]),
                      RunAll[n].name \notin raised \cup degraded,
                      NEW k \in DOMAIN RunAll[n].outputs, NEW o, o = RunAll[n].outputs[k],
                      o.due \subseteq lake
               PROVE  /\ o.to \in lake /\ fresh[o.to] = o.uses \cap lake
                      /\ o.keys = {} => o.to \notin left
    BY Builders DEF BuildIsComplete, UpToDate, OutputsOf
  <2>1. Made(o)
    BY DEF BuildInv, Sound
  <2> QED
    BY <2>1 DEF Made, LeftInv
<1> QED
  BY <1>1, TypeAlways, BuildAlways, LeftAlways, PTL
-----------------------------------------------------------------------------
(* The contract of the ETL classes, the views and the query API.  Without   *)
(* faults no builder loses a table, and with all tables there the only one  *)
(* that may raise is the conditions timeline.                               *)
SuitInv ==
  faults = 0 /\ (at # 0 \/ ended) =>
    /\ degraded = {}
    /\ Sources \subseteq lake => raised \subseteq {"conditions_timeline"}

LEMMA SuitInit == Init => SuitInv
BY DEF Init, SuitInv

(* A builder but the conditions timeline finds all it asks for. *)
LEMMA ServedResolves ==
  ASSUME NEW n \in 1..5, Ready(RunAll[n]), Sources \subseteq lake
  PROVE  Resolves(RunAll[n], Answered(RunAll[n], {}))
<1> DEFINE b == RunAll[n]
<1>1. n \in 1..6 /\ IsServed(b) /\ Froms(b) \subseteq lake
  BY Builders DEF Ready
<1> HIDE DEF b
<1>2. \A l \in b.loads : l \in Answered(b, {})
  BY <1>1 DEF Answered, IsServed, Asks, Froms
<1>3. {a.from : a \in Answered(b, {})} = Froms(b)
  BY <1>2 DEF Answered, Froms
<1> QED
  BY <1>1, <1>2, <1>3 DEF Resolves, IsServed, Asks, Answered, b

LEMMA SuitNext == TypeOK /\ SuitInv /\ [Next]_vars => SuitInv'
<1> SUFFICES ASSUME TypeOK, SuitInv, [Next]_vars, faults' = 0, at' # 0 \/ ended'
             PROVE  /\ degraded' = {}
                    /\ Sources \subseteq lake' => raised' \subseteq {"conditions_timeline"}
  BY DEF SuitInv
<1>0. /\ Len(RunAll) = 6 /\ DOMAIN RunAll = 1..6 /\ at \in 0..7 /\ step \in 0..4
      /\ step > 0 => at \in 1..6
      /\ faults \in Nat
  BY Builders, BoundsAssumption DEF TypeOK, Building
<1>1. ASSUME NEW req \in Deliveries, Job(req) PROVE ended' = ended /\ at' = 0 /\ lake' = lake
      /\ UNCHANGED <<raised, degraded>> /\ faults = 0
  BY <1>0, <1>1 DEF Job, progress
<1>2. CASE Begin
  BY <1>2 DEF Begin
<1>3. CASE Skip
  BY <1>0, <1>3 DEF Skip, Building, SuitInv
<1>4. CASE LoadTables
  <2>1. at \in 1..6 /\ Ready(Now) /\ lake' = lake
    BY <1>0, <1>4 DEF LoadTables, Building
  <2>2. PICK lost \in {{}} \cup {{l.from} : l \in {m \in Now.loads : m.from \in lake}} :
          LET answers == Answered(Now, lost)
          IN  /\ faults' = IF lost = {} THEN faults ELSE faults + 1
              /\ degraded' = IF lost = {} THEN degraded ELSE degraded \cup {Now.name}
              /\ IF Resolves(Now, answers)
                 THEN /\ loaded' = {l.from : l \in answers} /\ step' = 1
                      /\ UNCHANGED <<at, raised>>
                 ELSE raised' = raised \cup {Now.name} /\ PassOn
    BY <1>4 DEF LoadTables
  <2>3. lost = {} /\ faults = 0
    BY <1>0, <2>2
  <2>4. /\ degraded' = {}
        /\ Sources \subseteq lake => raised \subseteq {"conditions_timeline"}
    BY <2>1, <2>2, <2>3 DEF SuitInv
  <2>5. ASSUME Sources \subseteq lake PROVE raised' \subseteq {"conditions_timeline"}
    <3>1. CASE Resolves(Now, Answered(Now, lost))
      BY <2>2, <2>4, <2>5, <3>1
    <3>2. CASE ~Resolves(Now, Answered(Now, lost))
      <4>1. at = 6
        BY <2>1, <2>3, <2>5, <3>2, ServedResolves DEF Now
      <4> QED
        BY <2>2, <2>4, <2>5, <3>2, <4>1, Builders DEF Now
    <3> QED
      BY <3>1, <3>2
  <2> QED
    BY <2>1, <2>4, <2>5
<1>5. CASE Write
  <2>1. at \in 1..6 /\ step \in 1..4 /\ UNCHANGED <<raised, degraded, faults>>
    BY <1>0, <1>5 DEF Write
  <2>2. Sources \subseteq lake' => Sources \subseteq lake
    <3>1. step \in DOMAIN Now.outputs
      BY <1>0, <2>1, Tables DEF TypeOK, Now
    <3>2. Now.outputs[step].to \notin Sources
      BY <2>1, <3>1, ViewsInOrder DEF Now
    <3> QED
      BY <1>5, <3>2 DEF Write
  <2> QED
    BY <2>1, <2>2 DEF SuitInv
<1>6. CASE WriteFails
  BY <1>0, <1>6 DEF WriteFails
<1>7. CASE End
  BY <1>0, <1>7 DEF End, SuitInv
<1>8. CASE Crash
  BY <1>0, <1>8 DEF Crash
<1>9. CASE UNCHANGED vars
  BY <1>9 DEF vars, progress, SuitInv
<1> QED
  BY <1>1, <1>2, <1>3, <1>4, <1>5, <1>6, <1>7, <1>8, <1>9 DEF Next, SuitInv

(* A class writes the table of that name in the layer. *)
Writes(c, layer, name) ==
  /\ c \in DOMAIN Catalog /\ Directory(c) = <<name>>
  /\ \E i \in 1..Len(Catalog[c]) : Catalog[c][i].to = layer

LEMMA Concat1 == ASSUME NEW a, NEW b PROVE <<a>> \o <<b>> = <<a, b>>
<1> DEFINE S == {a, b}
<1>1. <<a>> \in Seq(S) /\ <<b>> \in Seq(S) /\ <<a, b>> \in Seq(S)
      /\ Len(<<a>>) = 1 /\ Len(<<b>>) = 1 /\ Len(<<a, b>>) = 2
  OBVIOUS
<1>2. /\ <<a>> \o <<b>> \in Seq(S) /\ Len(<<a>> \o <<b>>) = 2
      /\ (<<a>> \o <<b>>)[1] = a /\ (<<a>> \o <<b>>)[2] = b
  BY <1>1, ConcatProperties
<1>3. \A i \in 1..2 : (<<a>> \o <<b>>)[i] = <<a, b>>[i]
  BY <1>2
<1> QED
  BY <1>1, <1>2, <1>3, SeqEqual

LEMMA WrittenTable ==
  ASSUME NEW c, NEW layer, NEW name, Writes(c, layer, name),
         <<layer, name>> \in Sources \cup Served
  PROVE  <<layer, name>> \in Ingested(DOMAIN Catalog)
<1>1. PICK i \in 1..Len(Catalog[c]) : Catalog[c][i].to = layer
  BY DEF Writes
<1>2. <<Catalog[c][i].to>> \o Directory(c) = <<layer, name>>
  BY <1>1, Concat1 DEF Writes
<1>3. <<layer, name>> \in Written(c, Directory(c), Len(Catalog[c]))
  BY <1>2 DEF Written
<1> QED
  BY <1>3 DEF Ingested, Writes

(* What the classes write, of the tables that views read or the API serves *)
LEMMA ClassesWrite ==
  /\ Writes("alerts", "bronze", "alerts")
  /\ Writes("alerts", "silver", "alerts")
  /\ Writes("alerts", "gold", "alerts")
  /\ Writes("cases", "gold", "cases")
  /\ Writes("tasks", "gold", "tasks")
  /\ Writes("comments", "gold", "comments")
  /\ Writes("transactions", "bronze", "transactions")
  /\ Writes("transactions", "gold", "transactions")
  /\ Writes("account_holder", "gold", "account_holder")
  /\ Writes("entity", "gold", "entity")
  /\ Writes("rules", "bronze", "rule")
  /\ Writes("rules", "gold", "rule")
  /\ Writes("typologies", "bronze", "typologies")
  /\ Writes("typologies", "gold", "typologies")
  /\ Writes("conditions", "gold", "condition")
  /\ Writes("evaluation", "gold", "evaluation")
  /\ Writes("pacs002", "gold", "pacs002")
  /\ Writes("pacs008", "gold", "pacs008")
  /\ Writes("network_map", "bronze", "network_map")
  /\ Writes("network_map", "gold", "network_map")
<1>1. /\ Writes("alerts", "bronze", "alerts") /\ Writes("alerts", "silver", "alerts")
      /\ Writes("alerts", "gold", "alerts")
  <2>1. /\ "alerts" \in DOMAIN Catalog /\ Catalog["alerts"] = AlertsRun
        /\ Directory("alerts") = <<"alerts">>
    BY DEF Catalog, Directory
  <2>2. /\ Len(AlertsRun) = 4
        /\ AlertsRun[1] = AlertsBronze /\ AlertsRun[3] = AlertsSilver /\ AlertsRun[4] = AlertsGold
    BY DEF AlertsRun
  <2>3. AlertsBronze.to = "bronze" /\ AlertsSilver.to = "silver" /\ AlertsGold.to = "gold"
    BY DEF AlertsBronze, AlertsSilver, AlertsGold,
       Upsert, Latest, By, Exploded, Where, Bronze, Silver, Gold
  <2> QED
    BY <2>1, <2>2, <2>3 DEF Writes
<1>2. Writes("cases", "gold", "cases")
  <2>1. /\ "cases" \in DOMAIN Catalog /\ Catalog["cases"] = CasesRun
        /\ Directory("cases") = <<"cases">>
    BY DEF Catalog, Directory
  <2>2. Len(CasesRun) = 3 /\ CasesRun[3] = CasesGold
    BY DEF CasesRun
  <2>3. CasesGold.to = "gold"
    BY DEF CasesGold,
       Upsert, Latest, By, Exploded, Where, Bronze, Silver, Gold
  <2> QED
    BY <2>1, <2>2, <2>3 DEF Writes
<1>3. Writes("tasks", "gold", "tasks")
  <2>1. /\ "tasks" \in DOMAIN Catalog /\ Catalog["tasks"] = TasksRun
        /\ Directory("tasks") = <<"tasks">>
    BY DEF Catalog, Directory
  <2>2. Len(TasksRun) = 3 /\ TasksRun[3] = TasksGold
    BY DEF TasksRun
  <2>3. TasksGold.to = "gold"
    BY DEF TasksGold,
       Upsert, Latest, By, Exploded, Where, Bronze, Silver, Gold
  <2> QED
    BY <2>1, <2>2, <2>3 DEF Writes
<1>4. Writes("comments", "gold", "comments")
  <2>1. /\ "comments" \in DOMAIN Catalog /\ Catalog["comments"] = CommentsRun
        /\ Directory("comments") = <<"comments">>
    BY DEF Catalog, Directory
  <2>2. Len(CommentsRun) = 3 /\ CommentsRun[3] = CommentsGold
    BY DEF CommentsRun
  <2>3. CommentsGold.to = "gold"
    BY DEF CommentsGold,
       Upsert, Latest, By, Exploded, Where, Bronze, Silver, Gold
  <2> QED
    BY <2>1, <2>2, <2>3 DEF Writes
<1>5. /\ Writes("transactions", "bronze", "transactions")
      /\ Writes("transactions", "gold", "transactions")
  <2>1. /\ "transactions" \in DOMAIN Catalog /\ Catalog["transactions"] = TransactionsRun
        /\ Directory("transactions") = <<"transactions">>
    BY DEF Catalog, Directory
  <2>2. /\ Len(TransactionsRun) = 3
        /\ TransactionsRun[1] = TransactionsBronze /\ TransactionsRun[3] = TransactionsGold
    BY DEF TransactionsRun
  <2>3. TransactionsBronze.to = "bronze" /\ TransactionsGold.to = "gold"
    BY DEF TransactionsBronze, TransactionsGold,
       Upsert, Latest, By, Exploded, Where, Bronze, Silver, Gold
  <2> QED
    BY <2>1, <2>2, <2>3 DEF Writes
<1>6. Writes("account_holder", "gold", "account_holder")
  <2>1. /\ "account_holder" \in DOMAIN Catalog /\ Catalog["account_holder"] = AccountHolderRun
        /\ Directory("account_holder") = <<"account_holder">>
    BY DEF Catalog, Directory
  <2>2. Len(AccountHolderRun) = 3 /\ AccountHolderRun[3] = AccountHolderGold
    BY DEF AccountHolderRun
  <2>3. AccountHolderGold.to = "gold"
    BY DEF AccountHolderGold,
       Upsert, Latest, By, Exploded, Where, Bronze, Silver, Gold
  <2> QED
    BY <2>1, <2>2, <2>3 DEF Writes
<1>7. Writes("entity", "gold", "entity")
  <2>1. /\ "entity" \in DOMAIN Catalog /\ Catalog["entity"] = EntityRun
        /\ Directory("entity") = <<"entity">>
    BY DEF Catalog, Directory
  <2>2. Len(EntityRun) = 3 /\ EntityRun[3] = EntityGold
    BY DEF EntityRun
  <2>3. EntityGold.to = "gold"
    BY DEF EntityGold,
       Upsert, Latest, By, Exploded, Where, Bronze, Silver, Gold
  <2> QED
    BY <2>1, <2>2, <2>3 DEF Writes
<1>8. Writes("rules", "bronze", "rule") /\ Writes("rules", "gold", "rule")
  <2>1. /\ "rules" \in DOMAIN Catalog /\ Catalog["rules"] = RulesRun
        /\ Directory("rules") = <<"rule">>
    BY DEF Catalog, Directory
  <2>2. Len(RulesRun) = 3 /\ RulesRun[1] = RulesBronze /\ RulesRun[3] = RulesGold
    BY DEF RulesRun
  <2>3. RulesBronze.to = "bronze" /\ RulesGold.to = "gold"
    BY DEF RulesBronze, RulesGold,
       Upsert, Latest, By, Exploded, Where, Bronze, Silver, Gold
  <2> QED
    BY <2>1, <2>2, <2>3 DEF Writes
<1>9. /\ Writes("typologies", "bronze", "typologies")
      /\ Writes("typologies", "gold", "typologies")
  <2>1. /\ "typologies" \in DOMAIN Catalog /\ Catalog["typologies"] = TypologiesRun
        /\ Directory("typologies") = <<"typologies">>
    BY DEF Catalog, Directory
  <2>2. /\ Len(TypologiesRun) = 3
        /\ TypologiesRun[1] = TypologiesBronze /\ TypologiesRun[3] = TypologiesGold
    BY DEF TypologiesRun
  <2>3. TypologiesBronze.to = "bronze" /\ TypologiesGold.to = "gold"
    BY DEF TypologiesBronze, TypologiesGold,
       Upsert, Latest, By, Exploded, Where, Bronze, Silver, Gold
  <2> QED
    BY <2>1, <2>2, <2>3 DEF Writes
<1>10. Writes("conditions", "gold", "condition")
  <2>1. /\ "conditions" \in DOMAIN Catalog /\ Catalog["conditions"] = ConditionsRun
        /\ Directory("conditions") = <<"condition">>
    BY DEF Catalog, Directory
  <2>2. Len(ConditionsRun) = 3 /\ ConditionsRun[3] = ConditionsGold
    BY DEF ConditionsRun
  <2>3. ConditionsGold.to = "gold"
    BY DEF ConditionsGold,
       Upsert, Latest, By, Exploded, Where, Bronze, Silver, Gold
  <2> QED
    BY <2>1, <2>2, <2>3 DEF Writes
<1>11. Writes("evaluation", "gold", "evaluation")
  <2>1. /\ "evaluation" \in DOMAIN Catalog /\ Catalog["evaluation"] = EvaluationRun
        /\ Directory("evaluation") = <<"evaluation">>
    BY DEF Catalog, Directory
  <2>2. Len(EvaluationRun) = 3 /\ EvaluationRun[3] = EvaluationGold
    BY DEF EvaluationRun
  <2>3. EvaluationGold.to = "gold"
    BY DEF EvaluationGold,
       Upsert, Latest, By, Exploded, Where, Bronze, Silver, Gold
  <2> QED
    BY <2>1, <2>2, <2>3 DEF Writes
<1>12. Writes("pacs002", "gold", "pacs002")
  <2>1. /\ "pacs002" \in DOMAIN Catalog /\ Catalog["pacs002"] = Pacs002Run
        /\ Directory("pacs002") = <<"pacs002">>
    BY DEF Catalog, Directory
  <2>2. Len(Pacs002Run) = 3 /\ Pacs002Run[3] = Pacs002Gold
    BY DEF Pacs002Run
  <2>3. Pacs002Gold.to = "gold"
    BY DEF Pacs002Gold,
       Upsert, Latest, By, Exploded, Where, Bronze, Silver, Gold
  <2> QED
    BY <2>1, <2>2, <2>3 DEF Writes
<1>13. Writes("pacs008", "gold", "pacs008")
  <2>1. /\ "pacs008" \in DOMAIN Catalog /\ Catalog["pacs008"] = Pacs008Run
        /\ Directory("pacs008") = <<"pacs008">>
    BY DEF Catalog, Directory
  <2>2. Len(Pacs008Run) = 3 /\ Pacs008Run[3] = Pacs008Gold
    BY DEF Pacs008Run
  <2>3. Pacs008Gold.to = "gold"
    BY DEF Pacs008Gold,
       Upsert, Latest, By, Exploded, Where, Bronze, Silver, Gold
  <2> QED
    BY <2>1, <2>2, <2>3 DEF Writes
<1>14. /\ Writes("network_map", "bronze", "network_map")
      /\ Writes("network_map", "gold", "network_map")
  <2>1. /\ "network_map" \in DOMAIN Catalog /\ Catalog["network_map"] = NetworkMapRun
        /\ Directory("network_map") = <<"network_map">>
    BY DEF Catalog, Directory
  <2>2. /\ Len(NetworkMapRun) = 3
        /\ NetworkMapRun[1] = NetworkMapBronze /\ NetworkMapRun[3] = NetworkMapGold
    BY DEF NetworkMapRun
  <2>3. NetworkMapBronze.to = "bronze" /\ NetworkMapGold.to = "gold"
    BY DEF NetworkMapBronze, NetworkMapGold,
       Upsert, Latest, Summed, By, Exploded, Where, Bronze, Silver, Gold
  <2> QED
    BY <2>1, <2>2, <2>3 DEF Writes
<1> QED
  BY <1>1, <1>2, <1>3, <1>4, <1>5, <1>6, <1>7, <1>8, <1>9, <1>10, <1>11, <1>12, <1>13, <1>14

(* Every table that a view reads is written by some class. *)
LEMMA SourcesAreWritten == Sources \subseteq Ingested(DOMAIN Catalog)
BY ClassesWrite, WrittenTable DEF Sources, SilverAlerts, GoldAlerts, GoldCases, GoldTasks,
   GoldCondition, BronzeTransactions, GoldTransactions, GoldPacs008, GoldPacs002,
   BronzeTypologies, BronzeNetworkMap, BronzeRule

(* A view that a builder makes whenever it runs, and which is not the       *)
(* conditions timeline                                                      *)
IsAlwaysMade(v) ==
  \E n \in 1..4 : \E k \in DOMAIN RunAll[n].outputs :
    RunAll[n].outputs[k].to = v /\ RunAll[n].outputs[k].due = {}

LEMMA AlwaysMade ==
  /\ IsAlwaysMade(<<"views", "alert_navigator/header">>)
  /\ IsAlwaysMade(<<"views", "alert_navigator/typologies_triggered">>)
  /\ IsAlwaysMade(<<"views", "alert_navigator/rules_triggered">>)
  /\ IsAlwaysMade(<<"views", "vw_transaction_detail">>)
  /\ IsAlwaysMade(<<"views", "vw_transaction_history">>)
  /\ IsAlwaysMade(<<"views", "vw_tx_network_accounts_edges">>)
  /\ IsAlwaysMade(<<"views", "vw_tx_network_counterparties_edges">>)
  /\ IsAlwaysMade(<<"views", "vw_counterparty_account_links">>)
<1>0. /\ RunAll[1] = AlertNavigator /\ RunAll[2] = TransactionDetail
      /\ RunAll[3] = TransactionHistory /\ RunAll[4] = NetworkNavigator
  BY DEF RunAll
<1>1. /\ \A k \in 1..3 : k \in DOMAIN AlertNavigator.outputs
      /\ AlertNavigator.outputs[1] = NavigatorHeader
      /\ AlertNavigator.outputs[2] = NavigatorTypologies
      /\ AlertNavigator.outputs[3] = NavigatorRules
  BY DEF AlertNavigator, Builder
<1>2. 1 \in DOMAIN TransactionDetail.outputs /\ 1 \in DOMAIN TransactionHistory.outputs
      /\ TransactionDetail.outputs[1].to = <<"views", "vw_transaction_detail">>
      /\ TransactionDetail.outputs[1].due = {}
      /\ TransactionHistory.outputs[1].to = <<"views", "vw_transaction_history">>
      /\ TransactionHistory.outputs[1].due = {}
  BY DEF TransactionDetail, TransactionHistory, HistoryOutput, Output, Builder
<1>3. /\ \A k \in 1..3 : k \in DOMAIN NetworkNavigator.outputs
      /\ NetworkNavigator.outputs[1] = Output("vw_tx_network_accounts_edges", NetworkTables, Payments)
      /\ NetworkNavigator.outputs[2] = Output("vw_tx_network_counterparties_edges", NetworkTables, Payments)
      /\ NetworkNavigator.outputs[3] = Output("vw_counterparty_account_links", NetworkTables, Payments)
  BY DEF NetworkNavigator, NetworkOutputs, Builder
<1>4. /\ IsAlwaysMade(<<"views", "alert_navigator/header">>)
      /\ IsAlwaysMade(<<"views", "alert_navigator/typologies_triggered">>)
      /\ IsAlwaysMade(<<"views", "alert_navigator/rules_triggered">>)
  BY <1>0, <1>1 DEF IsAlwaysMade, NavigatorHeader, NavigatorTypologies, NavigatorRules, Output
<1>5. /\ IsAlwaysMade(<<"views", "vw_transaction_detail">>)
      /\ IsAlwaysMade(<<"views", "vw_transaction_history">>)
  BY <1>0, <1>2 DEF IsAlwaysMade
<1>6. /\ IsAlwaysMade(<<"views", "vw_tx_network_accounts_edges">>)
      /\ IsAlwaysMade(<<"views", "vw_tx_network_counterparties_edges">>)
      /\ IsAlwaysMade(<<"views", "vw_counterparty_account_links">>)
  BY <1>0, <1>3 DEF IsAlwaysMade, Output
<1> QED
  BY <1>4, <1>5, <1>6

(* What the API serves is a table that some class writes, or a view that    *)
(* some builder always makes, or the conditions timeline.                   *)
LEMMA ServedIsMade ==
  \A t \in Served :
    t \in Ingested(DOMAIN Catalog) \/ IsAlwaysMade(t) \/ t = <<"views", "conditions_timeline">>
<1>1. \A c, layer, name : Writes(c, layer, name) /\ <<layer, name>> \in Served
        => <<layer, name>> \in Ingested(DOMAIN Catalog)
  BY WrittenTable
<1> QED
  BY <1>1, ClassesWrite, AlwaysMade DEF Served

LEMMA SuitAlways == Spec => []SuitInv
BY TypeAlways, SuitInit, SuitNext, PTL DEF Spec

(* Without faults a build finds every table and column it asks for, but for *)
(* the conditions timeline; and what the query API serves is then there,    *)
(* but for that view (Lakehouse.tla, TablesSuitTheViews).                   *)
THEOREM TablesAndViewsFit == Spec => []TablesSuitTheViews
<1>1. TypeOK /\ BuildInv /\ SuitInv => TablesSuitTheViews
  <2> SUFFICES ASSUME TypeOK, BuildInv, SuitInv, ended, faults = 0
               PROVE  /\ Sources \subseteq lake => raised \subseteq {"conditions_timeline"}
                      /\ Ingested(DOMAIN Catalog) \subseteq lake =>
                           Served \ {<<"views", "conditions_timeline">>} \subseteq lake
    BY DEF TablesSuitTheViews
  <2>1. /\ degraded = {}
        /\ Sources \subseteq lake => raised \subseteq {"conditions_timeline"}
    BY DEF SuitInv
  <2>2. ASSUME Ingested(DOMAIN Catalog) \subseteq lake, NEW v, IsAlwaysMade(v) PROVE v \in lake
    <3>1. PICK n \in 1..4 : \E k \in DOMAIN RunAll[n].outputs :
                RunAll[n].outputs[k].to = v /\ RunAll[n].outputs[k].due = {}
      BY <2>2 DEF IsAlwaysMade
    <3>2. PICK k \in DOMAIN RunAll[n].outputs :
                RunAll[n].outputs[k].to = v /\ RunAll[n].outputs[k].due = {}
      BY <3>1
    <3>3. n \in 1..6 /\ n \in 1..5 /\ n # 5
      OBVIOUS
    <3>4. Ready(RunAll[n]) /\ Sources \subseteq lake
      BY <2>2, <3>3, SourcesAreWritten, Builders DEF Ready
    <3>5. Sound(RunAll[n])
      BY <2>1, <3>3, <3>4, Builders DEF Sound
    <3>6. Made(RunAll[n].outputs[k])
      BY <3>3, <3>4, <3>5 DEF BuildInv
    <3> QED
      BY <3>2, <3>6 DEF Made
  <2> QED
    BY <2>1, <2>2, ServedIsMade
<1> QED
  BY <1>1, TypeAlways, BuildAlways, SuitAlways, PTL
=============================================================================
