-------------------------- MODULE EtlLayersProofs ---------------------------
(***************************************************************************)
(* Theorems about EtlLayers, for any keys, revisions, failures and number  *)
(* of loads.  They rest on what an upsert of HudiTable leaves behind and   *)
(* on facts about every write of EtlCatalog: CatalogRuns goes through the  *)
(* 22 classes, ShowingRuns through the 19 that bring the last load to      *)
(* gold.                                                                   *)
(***************************************************************************)
EXTENDS EtlLayers, TLAPS

(* run() makes at least one write, and no two into the same table. *)
IsRun(s) ==
  /\ DOMAIN s = 1..Len(s) /\ Len(s) \in Nat \ {0}
  /\ \A k \in 1..Len(s) : s[k].to \in Layers /\ s[k].from \in Layers \cup {"raw"}
  /\ \A j, k \in 1..Len(s) : s[j].to = s[k].to => j = k

(* A write that tells ids apart and filters nothing *)
KeepsIds(w) == "id" \in w.key /\ "id" \in w.one /\ w.dq = {TRUE, FALSE}

(* A run of such writes, each from the table of the one before *)
IsKeepingRun(s) ==
  /\ s[Len(s)].to = "gold"
  /\ \A k \in 1..Len(s) : KeepsIds(s[k]) /\ s[k].from = IF k = 1 THEN "raw" ELSE s[k - 1].to

(* The classes whose keys have the id in them in every layer: all but       *)
(* alerts, whose bad rows part from the good ones, and evaluation, whose    *)
(* gold is keyed by an id in the payload.                                   *)
KeyedById == DOMAIN Catalog \ {"alerts", "evaluation"}

Keyed(table, w) == \A r, s \in table : Same(r, s, Location(w)) => r = s
-----------------------------------------------------------------------------
(* Lemmas about the operators of HudiTable *)

(* What a batch becomes by precombining is keyed, whatever it was before. *)
LEMMA LatestIsKeyed ==
  ASSUME NEW rows, NEW cols, NEW by, NEW S \in LatestPer(rows, cols, by)
  PROVE  /\ S \subseteq rows
         /\ \A r, s \in S : Same(r, s, cols) => r = s
         /\ \A r \in rows : \E s \in S : Same(r, s, cols)
BY DEF LatestPer

(* An upsert keeps a keyed table keyed. *)
LEMMA UpsertIsKeyed ==
  ASSUME NEW table, NEW rows, NEW w, Keyed(table, w), NEW t \in Upserts(table, rows, w)
  PROVE  Keyed(t, w)
<1>1. PICK batch \in LatestPer(rows, Location(w), w.pre) : t = Overwrite(table, batch, w)
  BY DEF Upserts
<1>2. \A r, s \in batch : Same(r, s, Location(w)) => r = s
  BY LatestIsKeyed
<1>3. \A r, s : Same(r, s, Location(w)) => Same(s, r, Location(w))
  BY DEF Same
<1> QED
  BY <1>1, <1>2, <1>3 DEF Keyed, Overwrite

(* It adds rows of the batch alone. *)
LEMMA UpsertWithin ==
  ASSUME NEW table, NEW rows, NEW w, NEW t \in Upserts(table, rows, w)
  PROVE  t \subseteq table \cup rows
<1>1. PICK batch \in LatestPer(rows, Location(w), w.pre) : t = Overwrite(table, batch, w)
  BY DEF Upserts
<1>2. batch \subseteq rows
  BY LatestIsKeyed
<1> QED
  BY <1>1, <1>2 DEF Overwrite

(* A write keyed by the id loses no id, neither of the table nor of its     *)
(* input.                                                                   *)
LEMMA UpsertKeepsIds ==
  ASSUME NEW table, NEW rows, NEW w, "id" \in w.key, NEW t \in Upserts(table, rows, w)
  PROVE  \A r \in table \cup rows : \E q \in t : q.id = r.id
<1>1. PICK batch \in LatestPer(rows, Location(w), w.pre) : t = Overwrite(table, batch, w)
  BY DEF Upserts
<1>2. "id" \in Location(w)
  BY DEF Location
<1>3. \A r, s : Same(r, s, Location(w)) => r.id = s.id
  BY <1>2 DEF Same
<1>4. \A r \in rows : \E s \in batch : Same(r, s, Location(w))
  BY LatestIsKeyed
<1>5. ASSUME NEW r \in rows PROVE \E q \in t : q.id = r.id
  BY <1>1, <1>3, <1>4 DEF Overwrite
<1>6. ASSUME NEW r \in table PROVE \E q \in t : q.id = r.id
  BY <1>1, <1>3 DEF Overwrite
<1> QED
  BY <1>5, <1>6
-----------------------------------------------------------------------------
(* Lemmas about EtlCatalog *)
LEMMA ThreeWrites ==
  ASSUME NEW a, NEW b, NEW c, a.to = "bronze", b.to = "silver", c.to = "gold",
         a.from = "raw", b.from = "bronze", c.from = "silver"
  PROVE  /\ IsRun(<<a, b, c>>)
         /\ KeepsIds(a) /\ KeepsIds(b) /\ KeepsIds(c) => IsKeepingRun(<<a, b, c>>)
<1> DEFINE s == <<a, b, c>>
<1>1. DOMAIN s = 1..3 /\ Len(s) = 3 /\ s[1] = a /\ s[2] = b /\ s[3] = c
  OBVIOUS
<1>2. \A k \in 1..3 : k = 1 \/ k = 2 \/ k = 3
  OBVIOUS
<1> HIDE DEF s
<1>3. IsRun(s)
  BY <1>1, <1>2 DEF IsRun, Layers
<1>4. ASSUME KeepsIds(a), KeepsIds(b), KeepsIds(c) PROVE IsKeepingRun(s)
  BY <1>1, <1>2, <1>4 DEF IsKeepingRun
<1> QED
  BY <1>3, <1>4 DEF s

(* The 22 classes, one after the other *)
LEMMA CatalogRuns ==
  /\ \A n \in DOMAIN Catalog : IsRun(Catalog[n])
  /\ \A n \in KeyedById : IsKeepingRun(Catalog[n])
<1>1. IsRun(CasesRun) /\ IsKeepingRun(CasesRun)
  <2>1. CasesBronze.from = "raw" /\ CasesBronze.to = "bronze" /\ KeepsIds(CasesBronze)
    BY DEF CasesBronze, Bronze, Upsert, KeepsIds, Columns
  <2>2. CasesSilver.from = "bronze" /\ CasesSilver.to = "silver" /\ KeepsIds(CasesSilver)
    BY DEF CasesSilver, Silver, Latest, Upsert, KeepsIds, Columns
  <2>3. CasesGold.from = "silver" /\ CasesGold.to = "gold" /\ KeepsIds(CasesGold)
    BY DEF CasesGold, Gold, By, Latest, Upsert, KeepsIds, Columns
  <2> QED
    BY <2>1, <2>2, <2>3, ThreeWrites DEF CasesRun
<1>2. IsRun(TasksRun) /\ IsKeepingRun(TasksRun)
  <2>1. TasksBronze.from = "raw" /\ TasksBronze.to = "bronze" /\ KeepsIds(TasksBronze)
    BY DEF TasksBronze, Bronze, Upsert, KeepsIds, Columns
  <2>2. TasksSilver.from = "bronze" /\ TasksSilver.to = "silver" /\ KeepsIds(TasksSilver)
    BY DEF TasksSilver, Silver, Latest, Upsert, KeepsIds, Columns
  <2>3. TasksGold.from = "silver" /\ TasksGold.to = "gold" /\ KeepsIds(TasksGold)
    BY DEF TasksGold, Gold, By, Latest, Upsert, KeepsIds, Columns
  <2> QED
    BY <2>1, <2>2, <2>3, ThreeWrites DEF TasksRun
<1>3. IsRun(CommentsRun) /\ IsKeepingRun(CommentsRun)
  <2>1. CommentsBronze.from = "raw" /\ CommentsBronze.to = "bronze" /\ KeepsIds(CommentsBronze)
    BY DEF CommentsBronze, Bronze, Upsert, KeepsIds, Columns
  <2>2. CommentsSilver.from = "bronze" /\ CommentsSilver.to = "silver" /\ KeepsIds(CommentsSilver)
    BY DEF CommentsSilver, Silver, Upsert, KeepsIds, Columns
  <2>3. CommentsGold.from = "silver" /\ CommentsGold.to = "gold" /\ KeepsIds(CommentsGold)
    BY DEF CommentsGold, Gold, Upsert, KeepsIds, Columns
  <2> QED
    BY <2>1, <2>2, <2>3, ThreeWrites DEF CommentsRun
<1>4. IsRun(TransactionsRun) /\ IsKeepingRun(TransactionsRun)
  <2>1. TransactionsBronze.from = "raw" /\ TransactionsBronze.to = "bronze" /\ KeepsIds(TransactionsBronze)
    BY DEF TransactionsBronze, Bronze, Upsert, KeepsIds, Columns
  <2>2. TransactionsSilver.from = "bronze" /\ TransactionsSilver.to = "silver" /\ KeepsIds(TransactionsSilver)
    BY DEF TransactionsSilver, Silver, Latest, Upsert, KeepsIds, Columns
  <2>3. TransactionsGold.from = "silver" /\ TransactionsGold.to = "gold" /\ KeepsIds(TransactionsGold)
    BY DEF TransactionsGold, Gold, Upsert, KeepsIds, Columns
  <2> QED
    BY <2>1, <2>2, <2>3, ThreeWrites DEF TransactionsRun
<1>5. IsRun(AccountRun) /\ IsKeepingRun(AccountRun)
  <2>1. AccountBronze.from = "raw" /\ AccountBronze.to = "bronze" /\ KeepsIds(AccountBronze)
    BY DEF AccountBronze, Bronze, Upsert, KeepsIds, Columns
  <2>2. AccountSilver.from = "bronze" /\ AccountSilver.to = "silver" /\ KeepsIds(AccountSilver)
    BY DEF AccountSilver, Silver, Upsert, KeepsIds, Columns
  <2>3. AccountGold.from = "silver" /\ AccountGold.to = "gold" /\ KeepsIds(AccountGold)
    BY DEF AccountGold, Gold, Upsert, KeepsIds, Columns
  <2> QED
    BY <2>1, <2>2, <2>3, ThreeWrites DEF AccountRun
<1>6. IsRun(AccountHolderRun) /\ IsKeepingRun(AccountHolderRun)
  <2>1. AccountHolderBronze.from = "raw" /\ AccountHolderBronze.to = "bronze" /\ KeepsIds(AccountHolderBronze)
    BY DEF AccountHolderBronze, Bronze, Upsert, KeepsIds, Columns
  <2>2. AccountHolderSilver.from = "bronze" /\ AccountHolderSilver.to = "silver" /\ KeepsIds(AccountHolderSilver)
    BY DEF AccountHolderSilver, Silver, Upsert, KeepsIds, Columns
  <2>3. AccountHolderGold.from = "silver" /\ AccountHolderGold.to = "gold" /\ KeepsIds(AccountHolderGold)
    BY DEF AccountHolderGold, Gold, Upsert, KeepsIds, Columns
  <2> QED
    BY <2>1, <2>2, <2>3, ThreeWrites DEF AccountHolderRun
<1>7. IsRun(EntityRun) /\ IsKeepingRun(EntityRun)
  <2>1. EntityBronze.from = "raw" /\ EntityBronze.to = "bronze" /\ KeepsIds(EntityBronze)
    BY DEF EntityBronze, Bronze, Upsert, KeepsIds, Columns
  <2>2. EntitySilver.from = "bronze" /\ EntitySilver.to = "silver" /\ KeepsIds(EntitySilver)
    BY DEF EntitySilver, Silver, Upsert, KeepsIds, Columns
  <2>3. EntityGold.from = "silver" /\ EntityGold.to = "gold" /\ KeepsIds(EntityGold)
    BY DEF EntityGold, Gold, Upsert, KeepsIds, Columns
  <2> QED
    BY <2>1, <2>2, <2>3, ThreeWrites DEF EntityRun
<1>8. IsRun(CasePriorityThresholdsRun) /\ IsKeepingRun(CasePriorityThresholdsRun)
  <2>1. CasePriorityThresholdsBronze.from = "raw" /\ CasePriorityThresholdsBronze.to = "bronze" /\ KeepsIds(CasePriorityThresholdsBronze)
    BY DEF CasePriorityThresholdsBronze, Bronze, Upsert, KeepsIds, Columns
  <2>2. CasePriorityThresholdsSilver.from = "bronze" /\ CasePriorityThresholdsSilver.to = "silver" /\ KeepsIds(CasePriorityThresholdsSilver)
    BY DEF CasePriorityThresholdsSilver, Silver, Latest, Upsert, KeepsIds, Columns
  <2>3. CasePriorityThresholdsGold.from = "silver" /\ CasePriorityThresholdsGold.to = "gold" /\ KeepsIds(CasePriorityThresholdsGold)
    BY DEF CasePriorityThresholdsGold, Gold, Upsert, KeepsIds, Columns
  <2> QED
    BY <2>1, <2>2, <2>3, ThreeWrites DEF CasePriorityThresholdsRun
<1>9. IsRun(SlaPoliciesRun) /\ IsKeepingRun(SlaPoliciesRun)
  <2>1. SlaPoliciesBronze.from = "raw" /\ SlaPoliciesBronze.to = "bronze" /\ KeepsIds(SlaPoliciesBronze)
    BY DEF SlaPoliciesBronze, Bronze, Upsert, KeepsIds, Columns
  <2>2. SlaPoliciesSilver.from = "bronze" /\ SlaPoliciesSilver.to = "silver" /\ KeepsIds(SlaPoliciesSilver)
    BY DEF SlaPoliciesSilver, Silver, Latest, Upsert, KeepsIds, Columns
  <2>3. SlaPoliciesGold.from = "silver" /\ SlaPoliciesGold.to = "gold" /\ KeepsIds(SlaPoliciesGold)
    BY DEF SlaPoliciesGold, Gold, Upsert, KeepsIds, Columns
  <2> QED
    BY <2>1, <2>2, <2>3, ThreeWrites DEF SlaPoliciesRun
<1>10. IsRun(SlaEscalationThresholdsRun) /\ IsKeepingRun(SlaEscalationThresholdsRun)
  <2>1. SlaEscalationThresholdsBronze.from = "raw" /\ SlaEscalationThresholdsBronze.to = "bronze" /\ KeepsIds(SlaEscalationThresholdsBronze)
    BY DEF SlaEscalationThresholdsBronze, Bronze, Upsert, KeepsIds, Columns
  <2>2. SlaEscalationThresholdsSilver.from = "bronze" /\ SlaEscalationThresholdsSilver.to = "silver" /\ KeepsIds(SlaEscalationThresholdsSilver)
    BY DEF SlaEscalationThresholdsSilver, Silver, Latest, Upsert, KeepsIds, Columns
  <2>3. SlaEscalationThresholdsGold.from = "silver" /\ SlaEscalationThresholdsGold.to = "gold" /\ KeepsIds(SlaEscalationThresholdsGold)
    BY DEF SlaEscalationThresholdsGold, Gold, Upsert, KeepsIds, Columns
  <2> QED
    BY <2>1, <2>2, <2>3, ThreeWrites DEF SlaEscalationThresholdsRun
<1>11. IsRun(SlaEscalationRecordsRun) /\ IsKeepingRun(SlaEscalationRecordsRun)
  <2>1. SlaEscalationRecordsBronze.from = "raw" /\ SlaEscalationRecordsBronze.to = "bronze" /\ KeepsIds(SlaEscalationRecordsBronze)
    BY DEF SlaEscalationRecordsBronze, Bronze, Upsert, KeepsIds, Columns
  <2>2. SlaEscalationRecordsSilver.from = "bronze" /\ SlaEscalationRecordsSilver.to = "silver" /\ KeepsIds(SlaEscalationRecordsSilver)
    BY DEF SlaEscalationRecordsSilver, Silver, Latest, Upsert, KeepsIds, Columns
  <2>3. SlaEscalationRecordsGold.from = "silver" /\ SlaEscalationRecordsGold.to = "gold" /\ KeepsIds(SlaEscalationRecordsGold)
    BY DEF SlaEscalationRecordsGold, Gold, Upsert, KeepsIds, Columns
  <2> QED
    BY <2>1, <2>2, <2>3, ThreeWrites DEF SlaEscalationRecordsRun
<1>12. IsRun(InvestigationGroupsRun) /\ IsKeepingRun(InvestigationGroupsRun)
  <2>1. InvestigationGroupsBronze.from = "raw" /\ InvestigationGroupsBronze.to = "bronze" /\ KeepsIds(InvestigationGroupsBronze)
    BY DEF InvestigationGroupsBronze, Bronze, Upsert, KeepsIds, Columns
  <2>2. InvestigationGroupsSilver.from = "bronze" /\ InvestigationGroupsSilver.to = "silver" /\ KeepsIds(InvestigationGroupsSilver)
    BY DEF InvestigationGroupsSilver, Silver, Latest, Upsert, KeepsIds, Columns
  <2>3. InvestigationGroupsGold.from = "silver" /\ InvestigationGroupsGold.to = "gold" /\ KeepsIds(InvestigationGroupsGold)
    BY DEF InvestigationGroupsGold, Gold, Upsert, KeepsIds, Columns
  <2> QED
    BY <2>1, <2>2, <2>3, ThreeWrites DEF InvestigationGroupsRun
<1>13. IsRun(DynamicRun) /\ IsKeepingRun(DynamicRun)
  <2>1. DynamicBronze.from = "raw" /\ DynamicBronze.to = "bronze" /\ KeepsIds(DynamicBronze)
    BY DEF DynamicBronze, Bronze, Upsert, KeepsIds, Columns
  <2>2. DynamicSilver.from = "bronze" /\ DynamicSilver.to = "silver" /\ KeepsIds(DynamicSilver)
    BY DEF DynamicSilver, Silver, Latest, Upsert, KeepsIds, Columns
  <2>3. DynamicGold.from = "silver" /\ DynamicGold.to = "gold" /\ KeepsIds(DynamicGold)
    BY DEF DynamicGold, Gold, Latest, Upsert, KeepsIds, Columns
  <2> QED
    BY <2>1, <2>2, <2>3, ThreeWrites DEF DynamicRun
<1>14. IsRun(CmsUsernamesRun) /\ IsKeepingRun(CmsUsernamesRun)
  <2>1. CmsUsernamesGold.from = "raw" /\ CmsUsernamesGold.to = "gold" /\ KeepsIds(CmsUsernamesGold)
    BY DEF CmsUsernamesGold, Upsert, KeepsIds, Columns
  <2>2. DOMAIN CmsUsernamesRun = 1..1 /\ Len(CmsUsernamesRun) = 1 /\ CmsUsernamesRun[1] = CmsUsernamesGold
    BY DEF CmsUsernamesRun
  <2> QED
    BY <2>1, <2>2 DEF IsRun, IsKeepingRun, Layers
<1>15. IsRun(RulesRun) /\ IsKeepingRun(RulesRun)
  <2>1. RulesBronze.from = "raw" /\ RulesBronze.to = "bronze" /\ KeepsIds(RulesBronze)
    BY DEF RulesBronze, Bronze, Upsert, KeepsIds, Columns
  <2>2. RulesSilver.from = "bronze" /\ RulesSilver.to = "silver" /\ KeepsIds(RulesSilver)
    BY DEF RulesSilver, Silver, Latest, Upsert, KeepsIds, Columns
  <2>3. RulesGold.from = "silver" /\ RulesGold.to = "gold" /\ KeepsIds(RulesGold)
    BY DEF RulesGold, Gold, By, Upsert, KeepsIds, Columns
  <2> QED
    BY <2>1, <2>2, <2>3, ThreeWrites DEF RulesRun
<1>16. IsRun(TypologiesRun) /\ IsKeepingRun(TypologiesRun)
  <2>1. TypologiesBronze.from = "raw" /\ TypologiesBronze.to = "bronze" /\ KeepsIds(TypologiesBronze)
    BY DEF TypologiesBronze, Bronze, Upsert, KeepsIds, Columns
  <2>2. TypologiesSilver.from = "bronze" /\ TypologiesSilver.to = "silver" /\ KeepsIds(TypologiesSilver)
    BY DEF TypologiesSilver, Silver, Latest, Upsert, KeepsIds, Columns
  <2>3. TypologiesGold.from = "silver" /\ TypologiesGold.to = "gold" /\ KeepsIds(TypologiesGold)
    BY DEF TypologiesGold, Gold, Upsert, KeepsIds, Columns
  <2> QED
    BY <2>1, <2>2, <2>3, ThreeWrites DEF TypologiesRun
<1>17. IsRun(ConditionsRun) /\ IsKeepingRun(ConditionsRun)
  <2>1. ConditionsBronze.from = "raw" /\ ConditionsBronze.to = "bronze" /\ KeepsIds(ConditionsBronze)
    BY DEF ConditionsBronze, Bronze, Upsert, KeepsIds, Columns
  <2>2. ConditionsSilver.from = "bronze" /\ ConditionsSilver.to = "silver" /\ KeepsIds(ConditionsSilver)
    BY DEF ConditionsSilver, Silver, Latest, Upsert, KeepsIds, Columns
  <2>3. ConditionsGold.from = "silver" /\ ConditionsGold.to = "gold" /\ KeepsIds(ConditionsGold)
    BY DEF ConditionsGold, Gold, Upsert, KeepsIds, Columns
  <2> QED
    BY <2>1, <2>2, <2>3, ThreeWrites DEF ConditionsRun
<1>18. IsRun(EvaluationRun)
  <2>1. EvaluationBronze.from = "raw" /\ EvaluationBronze.to = "bronze"
    BY DEF EvaluationBronze, Bronze, Upsert
  <2>2. EvaluationSilver.from = "bronze" /\ EvaluationSilver.to = "silver"
    BY DEF EvaluationSilver, Silver, Latest, Upsert
  <2>3. EvaluationGold.from = "silver" /\ EvaluationGold.to = "gold"
    BY DEF EvaluationGold, Gold, By, Upsert
  <2> QED
    BY <2>1, <2>2, <2>3, ThreeWrites DEF EvaluationRun
<1>19. IsRun(Pacs002Run) /\ IsKeepingRun(Pacs002Run)
  <2>1. Pacs002Bronze.from = "raw" /\ Pacs002Bronze.to = "bronze" /\ KeepsIds(Pacs002Bronze)
    BY DEF Pacs002Bronze, Bronze, By, Upsert, KeepsIds, Columns
  <2>2. Pacs002Silver.from = "bronze" /\ Pacs002Silver.to = "silver" /\ KeepsIds(Pacs002Silver)
    BY DEF Pacs002Silver, Silver, By, Latest, Upsert, KeepsIds, Columns
  <2>3. Pacs002Gold.from = "silver" /\ Pacs002Gold.to = "gold" /\ KeepsIds(Pacs002Gold)
    BY DEF Pacs002Gold, Gold, By, Upsert, KeepsIds, Columns
  <2> QED
    BY <2>1, <2>2, <2>3, ThreeWrites DEF Pacs002Run
<1>20. IsRun(Pacs008Run) /\ IsKeepingRun(Pacs008Run)
  <2>1. Pacs008Bronze.from = "raw" /\ Pacs008Bronze.to = "bronze" /\ KeepsIds(Pacs008Bronze)
    BY DEF Pacs008Bronze, Bronze, Upsert, KeepsIds, Columns
  <2>2. Pacs008Silver.from = "bronze" /\ Pacs008Silver.to = "silver" /\ KeepsIds(Pacs008Silver)
    BY DEF Pacs008Silver, Silver, Latest, Upsert, KeepsIds, Columns
  <2>3. Pacs008Gold.from = "silver" /\ Pacs008Gold.to = "gold" /\ KeepsIds(Pacs008Gold)
    BY DEF Pacs008Gold, Gold, By, Upsert, KeepsIds, Columns
  <2> QED
    BY <2>1, <2>2, <2>3, ThreeWrites DEF Pacs008Run
<1>21. IsRun(NetworkMapRun) /\ IsKeepingRun(NetworkMapRun)
  <2>1. NetworkMapBronze.from = "raw" /\ NetworkMapBronze.to = "bronze" /\ KeepsIds(NetworkMapBronze)
    BY DEF NetworkMapBronze, Bronze, Upsert, KeepsIds, Columns
  <2>2. NetworkMapSilver.from = "bronze" /\ NetworkMapSilver.to = "silver" /\ KeepsIds(NetworkMapSilver)
    BY DEF NetworkMapSilver, Silver, Latest, Exploded, Upsert, KeepsIds, Columns
  <2>3. NetworkMapGold.from = "silver" /\ NetworkMapGold.to = "gold" /\ KeepsIds(NetworkMapGold)
    BY DEF NetworkMapGold, Gold, By, Summed, Upsert, KeepsIds, Columns
  <2> QED
    BY <2>1, <2>2, <2>3, ThreeWrites DEF NetworkMapRun
<1>22. IsRun(AlertsRun)
  <2>1. AlertsBronze.from = "raw" /\ AlertsBronze.to = "bronze"
    BY DEF AlertsBronze, Bronze, Upsert
  <2>2. AlertsDlq.from = "bronze" /\ AlertsDlq.to = "dlq"
    BY DEF AlertsDlq, Where, Latest, Upsert
  <2>3. AlertsSilver.from = "bronze" /\ AlertsSilver.to = "silver"
    BY DEF AlertsSilver, Silver, Where, Latest, Upsert
  <2>4. AlertsGold.from = "silver" /\ AlertsGold.to = "gold"
    BY DEF AlertsGold, Gold, By, Latest, Upsert
  <2>5. /\ DOMAIN AlertsRun = 1..4 /\ Len(AlertsRun) = 4
        /\ AlertsRun[1] = AlertsBronze /\ AlertsRun[2] = AlertsDlq
        /\ AlertsRun[3] = AlertsSilver /\ AlertsRun[4] = AlertsGold
    BY DEF AlertsRun
  <2>6. \A k \in 1..4 : k = 1 \/ k = 2 \/ k = 3 \/ k = 4
    OBVIOUS
  <2> QED
    BY <2>1, <2>2, <2>3, <2>4, <2>5, <2>6 DEF IsRun, Layers
<1>23. DOMAIN Catalog =
      {"cases", "tasks", "comments", "transactions", "account",
        "account_holder", "entity", "case_priority_thresholds",
        "sla_policies", "sla_escalation_thresholds", "sla_escalation_records",
        "investigation_groups", "dynamic", "cms_usernames", "rules",
        "typologies", "conditions", "evaluation", "pacs002", "pacs008",
        "network_map", "alerts"}
  BY DEF Catalog
<1>24. /\ Catalog["cases"] = CasesRun
       /\ Catalog["tasks"] = TasksRun
       /\ Catalog["comments"] = CommentsRun
       /\ Catalog["transactions"] = TransactionsRun
       /\ Catalog["account"] = AccountRun
       /\ Catalog["account_holder"] = AccountHolderRun
       /\ Catalog["entity"] = EntityRun
       /\ Catalog["case_priority_thresholds"] = CasePriorityThresholdsRun
       /\ Catalog["sla_policies"] = SlaPoliciesRun
       /\ Catalog["sla_escalation_thresholds"] = SlaEscalationThresholdsRun
       /\ Catalog["sla_escalation_records"] = SlaEscalationRecordsRun
       /\ Catalog["investigation_groups"] = InvestigationGroupsRun
       /\ Catalog["dynamic"] = DynamicRun
       /\ Catalog["cms_usernames"] = CmsUsernamesRun
       /\ Catalog["rules"] = RulesRun
       /\ Catalog["typologies"] = TypologiesRun
       /\ Catalog["conditions"] = ConditionsRun
       /\ Catalog["evaluation"] = EvaluationRun
       /\ Catalog["pacs002"] = Pacs002Run
       /\ Catalog["pacs008"] = Pacs008Run
       /\ Catalog["network_map"] = NetworkMapRun
       /\ Catalog["alerts"] = AlertsRun
  BY DEF Catalog
<1> HIDE DEF Catalog
<1> QED
  BY <1>1, <1>2, <1>3, <1>4, <1>5, <1>6, <1>7, <1>8, <1>9, <1>10, <1>11, <1>12,
     <1>13, <1>14, <1>15, <1>16, <1>17, <1>18, <1>19, <1>20, <1>21, <1>22, <1>23,
     <1>24 DEF KeyedById
-----------------------------------------------------------------------------
JobType ==
  [step : 0..Len(etl), merged : BOOLEAN, batch : SUBSET RowsOf(Revs), next : SUBSET Rows]

LEMMA SourceRowsAreRows == RowsOf(Revs) \subseteq Rows
BY DEF RowsOf, Rows

TypeInv == TypeOK /\ (job.merged => job.step # 0)

KeyInv ==
  /\ \A k \in 1..Len(etl) : Keyed(lake[etl[k].to], etl[k])
  /\ job.merged => Keyed(job.next, etl[job.step])

LEMMA StartedJob ==
  ASSUME NEW k \in 0..Len(etl), NEW b \in SUBSET RowsOf(Revs)
  PROVE  /\ [Idle EXCEPT !.step = k, !.batch = b] \in JobType
         /\ ~[Idle EXCEPT !.step = k, !.batch = b].merged
BY DEF Idle, JobType

LEMMA MergedJob ==
  ASSUME NEW j \in JobType, NEW t \in SUBSET Rows
  PROVE  /\ [j EXCEPT !.merged = TRUE, !.next = t] \in JobType
         /\ [j EXCEPT !.merged = TRUE, !.next = t].step = j.step
BY DEF JobType

LEMMA EtlIsRun == TypeOK => IsRun(etl) /\ (Names \subseteq KeyedById => IsKeepingRun(etl))
BY CatalogRuns, NamesAssumption DEF TypeOK

LEMMA SourceRows ==
  ASSUME TypeOK, clock < MaxLoads, NEW q \in Source
  PROVE  [q EXCEPT !.stamp = clock + 1] \in RowsOf(Revs)
<1>1. PICK i \in Ids, v \in Revs : q = SourceRow(i, v)
  BY DEF Source
<1>2. RefOf[<<i, v>>] \in Ids \cup {Null}
  BY SourceAssumption
<1>3. clock + 1 \in 0..MaxLoads
  BY BoundsAssumption DEF TypeOK
<1> QED
  BY <1>1, <1>2, <1>3 DEF SourceRow, RowsOf

(* What Parts makes of a row: its elements, what is summed, or itself *)
Elements(r) == {[r EXCEPT !.item = k] : k \in Items}
Sum(r) == [r EXCEPT !.rev = Null, !.day = Null]

LEMMA PartsOf ==
  ASSUME NEW w, NEW R
  PROVE  /\ \A q \in Parts(w, R) : q \in R \/ \E r \in R : q = Sum(r) \/ q \in Elements(r)
         /\ Items # {} =>
              \A r \in R : \E q \in Parts(w, R) : q = r \/ q = Sum(r) \/ q \in Elements(r)
<1>1. CASE w.exploded
  <2>1. Parts(w, R) = {[r EXCEPT !.item = k] : r \in R, k \in Items}
    BY <1>1 DEF Parts
  <2>2. \A q \in Parts(w, R) : \E r \in R : q \in Elements(r)
    BY <2>1 DEF Elements
  <2>3. \A r \in R, k \in Items : [r EXCEPT !.item = k] \in Parts(w, R)
    BY <2>1
  <2>4. ASSUME NEW k \in Items, NEW r \in R PROVE \E q \in Parts(w, R) : q \in Elements(r)
    BY <2>3 DEF Elements
  <2> QED
    BY <2>2, <2>4
<1>2. CASE ~w.exploded /\ w.summed
  <2>1. Parts(w, R) = {[r EXCEPT !.rev = Null, !.day = Null] : r \in R}
    BY <1>2 DEF Parts
  <2>2. \A q \in Parts(w, R) : \E r \in R : q = Sum(r)
    BY <2>1 DEF Sum
  <2>3. \A r \in R : Sum(r) \in Parts(w, R)
    BY <2>1 DEF Sum
  <2> QED
    BY <2>2, <2>3
<1>3. CASE ~w.exploded /\ ~w.summed
  <2>1. Parts(w, R) = R
    BY <1>3 DEF Parts
  <2> QED
    BY <2>1
<1> QED
  BY <1>1, <1>2, <1>3

LEMMA PartsAreRows ==
  ASSUME NEW r \in Rows
  PROVE  /\ Sum(r) \in Rows /\ Sum(r).id = r.id
         /\ \A q \in Elements(r) : q \in Rows /\ q.id = r.id
<1>1. Sum(r) \in Rows /\ Sum(r).id = r.id
  BY DEF Sum, Rows, RowsOf
<1>2. ASSUME NEW k \in Items
      PROVE  [r EXCEPT !.item = k] \in Rows /\ [r EXCEPT !.item = k].id = r.id
  BY DEF Rows, RowsOf
<1> QED
  BY <1>1, <1>2 DEF Elements

(* What a write reads are rows of the layer below, or of the job's batch. *)
LEMMA InputRows ==
  ASSUME TypeOK, NEW w, w.from \in Layers \cup {"raw"}, NEW batch \in SUBSET Rows,
         NEW rows \in Inputs(w, batch)
  PROVE  rows \subseteq Rows
<1> DEFINE below == IF w.from = "raw" THEN batch ELSE lake[w.from]
<1>1. below \subseteq Rows
  BY DEF TypeOK
<1>2. PICK R \in LatestPer(below, w.one, w.by) : rows = {r \in Parts(w, R) : r.ok \in w.dq}
  BY DEF Inputs
<1>3. R \subseteq Rows
  BY <1>1, LatestIsKeyed
<1>4. Parts(w, R) \subseteq Rows
  BY <1>3, PartsOf, PartsAreRows
<1> QED
  BY <1>2, <1>4

LEMMA TypeInit == Init => TypeInv
<1> SUFFICES ASSUME Init PROVE TypeInv
  OBVIOUS
<1>1. Len(etl) \in Nat
  BY CatalogRuns, NamesAssumption DEF Init, IsRun
<1> QED
  BY <1>1, BoundsAssumption DEF Init, TypeInv, TypeOK, Idle

LEMMA TypeNext == TypeInv /\ [Next]_vars => TypeInv'
<1> SUFFICES ASSUME TypeInv, [Next]_vars PROVE TypeInv'
  OBVIOUS
<1> USE DEF TypeInv
<1>1. IsRun(etl) /\ Len(etl) \in Nat \ {0}
  BY EtlIsRun DEF IsRun
<1>2. ASSUME NEW j, job' = j, etl' = etl,
             j \in JobType, j.merged => j.step # 0,
             lake' \in [Layers -> SUBSET Rows], clock' \in 0..MaxLoads,
             failures' \in 0..MaxFailures, last' \in [Ids -> SUBSET Revs],
             settled' \in BOOLEAN, promised' \subseteq Ids
      PROVE  TypeInv'
  BY <1>2 DEF TypeOK, JobType
<1>3. Idle \in JobType /\ ~Idle.merged
  BY <1>1 DEF Idle, JobType
<1>4. job \in JobType /\ job.batch \subseteq RowsOf(Revs) /\ job.batch \subseteq Rows
  BY SourceRowsAreRows DEF TypeOK, JobType
<1>5. ASSUME Start PROVE TypeInv'
  <2>1. PICK r \in Source, s \in Source :
          job' = [Idle EXCEPT !.step = 1,
                    !.batch = {[q EXCEPT !.stamp = clock + 1] : q \in {r, s}}]
    BY <1>5 DEF Start
  <2>2. {[q EXCEPT !.stamp = clock + 1] : q \in {r, s}} \subseteq RowsOf(Revs)
    BY <1>5, SourceRows DEF Start
  <2> DEFINE b == {[q EXCEPT !.stamp = clock + 1] : q \in {r, s}}
             j == [Idle EXCEPT !.step = 1, !.batch = b]
  <2> HIDE DEF b
  <2>3. j \in JobType /\ ~j.merged
    <3>1. 1 \in 0..Len(etl) /\ b \in SUBSET RowsOf(Revs)
      BY <1>1, <2>2 DEF b
    <3> QED
      BY <1>3, <3>1, StartedJob
  <2>4. clock' \in 0..MaxLoads
    BY <1>5, BoundsAssumption DEF Start, TypeOK
  <2>5. job' = j
    BY <2>1 DEF b
  <2> HIDE DEF j
  <2> QED
    BY <1>2, <1>5, <2>3, <2>4, <2>5 DEF Start, TypeOK
<1>6. ASSUME Merge PROVE TypeInv'
  <2> DEFINE w == etl[job.step]
  <2>1. job.step \in 1..Len(etl)
    BY <1>1, <1>4, <1>6 DEF Merge, JobType
  <2>2. w.to \in Layers /\ w.from \in Layers \cup {"raw"}
    BY <1>1, <2>1 DEF IsRun
  <2>3. PICK rows \in Inputs(w, job.batch) : \E t \in Upserts(lake[w.to], rows, w) :
          job' = [job EXCEPT !.merged = TRUE, !.next = t]
    BY <1>6 DEF Merge
  <2>4. PICK t \in Upserts(lake[w.to], rows, w) :
          job' = [job EXCEPT !.merged = TRUE, !.next = t]
    BY <2>3
  <2>5. rows \subseteq Rows
    BY <1>4, <2>2, <2>3, InputRows
  <2>6. t \subseteq Rows
    BY <2>2, <2>5, UpsertWithin DEF TypeOK
  <2> DEFINE j == [job EXCEPT !.merged = TRUE, !.next = t]
  <2>7. j \in JobType /\ j.step # 0
    <3>1. job.step # 0 /\ t \in SUBSET Rows
      BY <2>1, <2>6
    <3> QED
      BY <1>4, <3>1, MergedJob
  <2> HIDE DEF j
  <2> QED
    BY <1>2, <1>6, <2>4, <2>7 DEF Merge, TypeOK, j
<1>7. ASSUME Commit PROVE TypeInv'
  <2> DEFINE k == job.step
             j == IF Ends(k) THEN Idle
                  ELSE [Idle EXCEPT !.step = NextStep(k), !.batch = job.batch]
  <2>1. k \in 1..Len(etl)
    BY <1>1, <1>4, <1>7 DEF Commit, JobType
  <2>2. j \in JobType /\ ~j.merged
    <3>1. CASE Ends(k)
      BY <1>3, <3>1
    <3>2. CASE ~Ends(k)
      <4>1. NextStep(k) \in 0..Len(etl) /\ job.batch \in SUBSET RowsOf(Revs)
        BY <1>1, <1>4, <2>1, <3>2 DEF Ends, NextStep
      <4> QED
        BY <1>3, <3>2, <4>1, StartedJob
    <3> QED
      BY <3>1, <3>2
  <2>3. lake' \in [Layers -> SUBSET Rows]
    BY <1>1, <1>4, <1>7, <2>1 DEF Commit, TypeOK, JobType, IsRun
  <2>4. \A r \in job.batch : r.id \in Ids /\ r.rev \in Revs
    BY <1>4 DEF RowsOf
  <2>5. last' \in [Ids -> SUBSET Revs]
    <3> DEFINE revs(i) == {r.rev : r \in {s \in job.batch : s.id = i}}
    <3>1. last' = IF k = 1 THEN [i \in Ids |-> IF revs(i) = {} THEN last[i] ELSE revs(i)] ELSE last
      BY <1>7 DEF Commit
    <3>2. \A i \in Ids : revs(i) \in SUBSET Revs
      BY <2>4
    <3>3. last \in [Ids -> SUBSET Revs]
      BY DEF TypeOK
    <3> HIDE DEF revs
    <3> QED
      BY <3>1, <3>2, <3>3
  <2>6. promised' \subseteq Ids /\ settled' \in BOOLEAN
    BY <1>7, <2>4 DEF Commit, TypeOK, Ends
  <2>7. job' = j
    BY <1>7 DEF Commit
  <2> HIDE DEF j
  <2> QED
    BY <1>2, <1>7, <2>2, <2>3, <2>5, <2>6, <2>7 DEF Commit, TypeOK
<1>8. ASSUME Raise PROVE TypeInv'
  BY <1>2, <1>3, <1>8 DEF Raise, TypeOK
<1>9. ASSUME Fail PROVE TypeInv'
  <2>1. failures' \in 0..MaxFailures
    BY <1>9, BoundsAssumption DEF Fail, TypeOK
  <2> QED
    BY <1>2, <1>3, <1>9, <2>1 DEF Fail, TypeOK
<1>10. CASE UNCHANGED vars
  BY <1>10 DEF vars, TypeOK
<1> QED
  BY <1>5, <1>6, <1>7, <1>8, <1>9, <1>10 DEF Next

LEMMA TypeAlways == Spec => []TypeInv
BY TypeInit, TypeNext, PTL DEF Spec

LEMMA KeyNext == TypeInv /\ KeyInv /\ [Next]_vars => KeyInv'
<1> SUFFICES ASSUME TypeInv, KeyInv, [Next]_vars PROVE KeyInv'
  OBVIOUS
<1>1. IsRun(etl) /\ etl' = etl
  BY EtlIsRun DEF TypeInv, Next, Start, Merge, Commit, Raise, Fail, vars
<1>2. ASSUME NEW j, job' = j, lake' = lake,
             j.merged => Keyed(j.next, etl[j.step])
      PROVE  KeyInv'
  BY <1>1, <1>2 DEF KeyInv, TypeInv, TypeOK, Keyed
<1>3. job.step \in 0..Len(etl) /\ (job.merged => job.step # 0)
  BY DEF TypeInv, TypeOK
<1>4. ASSUME Start PROVE KeyInv'
  BY <1>2, <1>4 DEF Start, Idle
<1>5. ASSUME Merge PROVE KeyInv'
  <2> DEFINE k == job.step
             w == etl[k]
  <2>1. PICK rows \in Inputs(w, job.batch) : \E t \in Upserts(lake[w.to], rows, w) :
          job' = [job EXCEPT !.merged = TRUE, !.next = t]
    BY <1>5 DEF Merge
  <2>2. PICK t \in Upserts(lake[w.to], rows, w) :
          job' = [job EXCEPT !.merged = TRUE, !.next = t]
    BY <2>1
  <2>3. k \in 1..Len(etl)
    BY <1>1, <1>3, <1>5 DEF Merge, IsRun
  <2>4. Keyed(lake[w.to], w)
    BY <2>3 DEF KeyInv
  <2>5. Keyed(t, w)
    BY <2>4, UpsertIsKeyed
  <2> DEFINE j == [job EXCEPT !.merged = TRUE, !.next = t]
  <2>6. j.next = t /\ j.step = k
    BY DEF TypeInv, TypeOK
  <2> HIDE DEF j
  <2>7. job' = j /\ lake' = lake
    BY <1>5, <2>2 DEF Merge, j
  <2> QED
    BY <1>2, <2>5, <2>6, <2>7
<1>6. ASSUME Commit PROVE KeyInv'
  <2> DEFINE k == job.step
             j == IF Ends(k) THEN Idle
                  ELSE [Idle EXCEPT !.step = NextStep(k), !.batch = job.batch]
  <2>1. k \in 1..Len(etl) /\ Keyed(job.next, etl[k])
    BY <1>1, <1>3, <1>6 DEF Commit, KeyInv, IsRun
  <2>2. ~j.merged
    BY DEF Idle
  <2>3. job' = j /\ lake' = [lake EXCEPT ![etl[k].to] = job.next]
    BY <1>6 DEF Commit
  <2> HIDE DEF j
  <2>4. ~job'.merged
    BY <2>2, <2>3
  <2>5. ASSUME NEW i \in 1..Len(etl) PROVE Keyed(lake'[etl[i].to], etl[i])
    <3>1. CASE i = k
      BY <2>1, <2>3, <3>1, <1>1 DEF TypeInv, TypeOK, IsRun
    <3>2. CASE i # k
      <4>1. etl[i].to # etl[k].to
        BY <1>1, <2>1, <3>2 DEF IsRun
      <4> QED
        BY <2>3, <4>1, <1>1 DEF KeyInv, TypeInv, TypeOK, IsRun
    <3> QED
      BY <3>1, <3>2
  <2> QED
    BY <1>1, <2>4, <2>5 DEF KeyInv, Keyed
<1>7. ASSUME Raise \/ Fail PROVE KeyInv'
  BY <1>2, <1>7 DEF Raise, Fail, Idle
<1>8. CASE UNCHANGED vars
  BY <1>8 DEF vars, KeyInv, Keyed
<1> QED
  BY <1>4, <1>5, <1>6, <1>7, <1>8 DEF Next

LEMMA KeyAlways == Spec => []KeyInv
<1>1. Init => KeyInv
  <2>1. ASSUME Init PROVE IsRun(etl)
    BY <2>1, CatalogRuns, NamesAssumption DEF Init
  <2> QED
    BY <2>1 DEF Init, KeyInv, Keyed, Idle, IsRun
<1> QED
  BY <1>1, KeyNext, TypeAlways, PTL DEF Spec

(* The tables and the job keep their types, whatever jobs come or die        *)
(* (Table_ETLs).                                                             *)
THEOREM TypeCorrect == Spec => []TypeOK
BY TypeAlways, PTL DEF TypeInv
-----------------------------------------------------------------------------
IdsOf(rows) == {r.id : r \in rows}

(* The ids of a batch climb from layer to layer with the job that brought   *)
(* them, and no write drops an id.                                          *)
PromiseInv ==
  /\ promised \subseteq IdsOf(lake["gold"])
  /\ LET w == etl[job.step]
     IN  /\ job.step \notin {0, 1} => IdsOf(job.batch) \subseteq IdsOf(lake[w.from])
         /\ job.merged => IdsOf(lake[w.to]) \cup IdsOf(job.batch) \subseteq IdsOf(job.next)

(* No id is lost between a layer and what the next write makes of it. *)
LEMMA InputsKeepIds ==
  ASSUME TypeOK, Items # {}, NEW w, KeepsIds(w), w.from \in Layers \cup {"raw"},
         NEW batch \in SUBSET Rows, NEW rows \in Inputs(w, batch)
  PROVE  IdsOf(IF w.from = "raw" THEN batch ELSE lake[w.from]) \subseteq IdsOf(rows)
<1> DEFINE below == IF w.from = "raw" THEN batch ELSE lake[w.from]
<1>1. below \subseteq Rows
  BY DEF TypeOK
<1>2. PICK R \in LatestPer(below, w.one, w.by) : rows = {r \in Parts(w, R) : r.ok \in w.dq}
  BY DEF Inputs
<1>3. R \subseteq Rows
  BY <1>1, LatestIsKeyed
<1>4. \A r \in below : \E s \in R : s.id = r.id
  <2>1. \A r \in below : \E s \in R : Same(r, s, w.one)
    BY LatestIsKeyed
  <2> QED
    BY <2>1 DEF Same, KeepsIds
<1>5. \A r \in R : \E q \in Parts(w, R) : q.id = r.id
  BY <1>3, PartsOf, PartsAreRows
<1>6. \A q \in Parts(w, R) : q.ok \in w.dq
  <2>1. \A q \in Parts(w, R) : q \in Rows
    BY <1>3, PartsOf, PartsAreRows
  <2>2. \A q \in Rows : q.ok \in BOOLEAN
    BY DEF Rows, RowsOf
  <2>3. w.dq = BOOLEAN
    BY DEF KeepsIds
  <2> QED
    BY <2>1, <2>2, <2>3
<1>7. Parts(w, R) \subseteq rows
  BY <1>2, <1>6
<1> HIDE DEF below
<1>8. \A r \in below : \E q \in rows : q.id = r.id
  BY <1>4, <1>5, <1>7
<1> QED
  BY <1>8 DEF IdsOf, below

LEMMA PromiseNext ==
  ASSUME Names \subseteq KeyedById, Items # {},
         TypeInv, PromiseInv, [Next]_vars
  PROVE  PromiseInv'
<1> DEFINE k == job.step
           w == etl[k]
<1>1. IsRun(etl) /\ IsKeepingRun(etl) /\ etl' = etl /\ Len(etl) \in Nat \ {0}
  BY EtlIsRun DEF TypeInv, IsRun, Next, Start, Merge, Commit, Raise, Fail, vars
<1>2. /\ k \in 0..Len(etl) /\ (job.merged => k # 0)
      /\ job.batch \subseteq Rows
  BY SourceRowsAreRows DEF TypeInv, TypeOK
<1>3. k # 0 => /\ w.to \in Layers /\ w.from \in Layers \cup {"raw"} /\ KeepsIds(w)
               /\ k \in 1..Len(etl) /\ w.from = IF k = 1 THEN "raw" ELSE etl[k - 1].to
  BY <1>1, <1>2 DEF IsRun, IsKeepingRun
<1>4. ASSUME job'.step \in {0, 1}, ~job'.merged, UNCHANGED <<lake, promised>>
      PROVE  PromiseInv'
  BY <1>4 DEF PromiseInv
<1>5. CASE Start
  BY <1>2, <1>4, <1>5 DEF Start, Idle
<1>6. CASE Merge
  <2> DEFINE batch == job.batch
  <2>1. k # 0 /\ ~job.merged
    BY <1>6 DEF Merge
  <2>2. PICK rows \in Inputs(w, batch) : \E t \in Upserts(lake[w.to], rows, w) :
          job' = [job EXCEPT !.merged = TRUE, !.next = t]
    BY <1>6 DEF Merge
  <2>3. PICK t \in Upserts(lake[w.to], rows, w) :
          job' = [job EXCEPT !.merged = TRUE, !.next = t]
    BY <2>2
  <2>4. IdsOf(IF w.from = "raw" THEN batch ELSE lake[w.from]) \subseteq IdsOf(rows)
    BY <1>2, <1>3, <2>1, <2>2, InputsKeepIds DEF TypeInv
  <2>5. IdsOf(batch) \subseteq IdsOf(rows)
    <3>1. CASE k = 1
      BY <1>3, <2>1, <2>4, <3>1
    <3>2. CASE k # 1
      <4>1. IdsOf(batch) \subseteq IdsOf(lake[w.from])
        BY <2>1, <3>2 DEF PromiseInv
      <4>2. w.from \in Layers /\ w.from # "raw"
        BY <1>1, <1>3, <2>1, <3>2 DEF IsRun, Layers
      <4> QED
        BY <2>4, <4>1, <4>2
    <3> QED
      BY <3>1, <3>2
  <2>6. \A r \in lake[w.to] \cup rows : \E q \in t : q.id = r.id
    <3>1. "id" \in w.key
      BY <1>3, <2>1 DEF KeepsIds
    <3>2. t \in Upserts(lake[w.to], rows, w)
      BY <2>3
    <3> HIDE DEF w
    <3> QED
      BY <3>1, <3>2, UpsertKeepsIds
  <2>7. IdsOf(lake[w.to]) \cup IdsOf(batch) \subseteq IdsOf(t)
    <3> HIDE DEF batch, w
    <3>1. IdsOf(lake[w.to]) \subseteq IdsOf(t)
      BY <2>6 DEF IdsOf
    <3>2. IdsOf(rows) \subseteq IdsOf(t)
      BY <2>6 DEF IdsOf
    <3> QED
      BY <2>5, <3>1, <3>2
  <2>8. job'.step = k /\ job'.batch = batch /\ job'.next = t
    BY <1>2, <2>3 DEF TypeInv, TypeOK
  <2>9. UNCHANGED <<lake, promised>>
    BY <1>6 DEF Merge
  <2> QED
    BY <1>1, <2>1, <2>7, <2>8, <2>9 DEF PromiseInv
<1>7. CASE Commit
  <2> DEFINE batch == job.batch
             next == job.next
  <2>1. job.merged /\ k # 0 /\ lake' = [lake EXCEPT ![w.to] = next]
    BY <1>2, <1>7 DEF Commit
  <2>2. IdsOf(lake[w.to]) \subseteq IdsOf(next) /\ IdsOf(batch) \subseteq IdsOf(next)
    BY <2>1 DEF PromiseInv
  <2>3. lake'[w.to] = next /\ \A t \in Layers \ {w.to} : lake'[t] = lake[t]
    BY <1>3, <2>1 DEF TypeInv, TypeOK
  <2>4. promised \subseteq IdsOf(lake'["gold"])
    BY <2>2, <2>3 DEF PromiseInv, Layers
  <2>5. CASE Ends(k)
    <3>1. w.to = "gold"
      BY <1>1, <2>5 DEF Ends, IsKeepingRun
    <3>2. promised' = promised \cup IdsOf(batch)
      BY <1>7, <2>5 DEF Commit, IdsOf
    <3>3. job' = Idle
      BY <1>2, <1>7, <2>5 DEF Commit
    <3> QED
      BY <2>2, <2>3, <2>4, <3>1, <3>2, <3>3 DEF PromiseInv, Idle
  <2>6. CASE ~Ends(k)
    <3>1. promised' = promised
      BY <1>7, <2>6 DEF Commit
    <3>2. job' = [Idle EXCEPT !.step = k + 1, !.batch = batch]
      BY <1>2, <1>7, <2>6 DEF Commit, NextStep
    <3>3. job'.step = k + 1 /\ job'.batch = batch /\ ~job'.merged
      BY <3>2 DEF Idle
    <3>4. etl[k + 1].from = w.to
      BY <1>1, <1>2, <1>3, <2>1, <2>6 DEF Ends, IsKeepingRun
    <3> QED
      BY <1>1, <2>2, <2>3, <2>4, <3>1, <3>3, <3>4 DEF PromiseInv
  <2> QED
    BY <2>5, <2>6
<1>8. CASE Raise \/ Fail
  BY <1>2, <1>4, <1>8 DEF Raise, Fail, Idle
<1>9. CASE UNCHANGED vars
  BY <1>9 DEF vars, PromiseInv
<1> QED
  BY <1>5, <1>6, <1>7, <1>8, <1>9 DEF Next

(* What a job that ended well has brought stays in gold, in every class      *)
(* whose keys contain the id, for any number of loads and failures (the      *)
(* run() of the classes of Table_ETLs).                                      *)
THEOREM PromisesAreKept ==
  ASSUME Names \subseteq KeyedById, Items # {}
  PROVE  Spec => []PromisedIsKept
<1>1. Init => PromiseInv
  BY DEF Init, PromiseInv, Idle
<1>2. TypeInv /\ PromiseInv /\ [Next]_vars => PromiseInv'
  BY PromiseNext
<1>3. PromiseInv => PromisedIsKept
  BY DEF PromiseInv, PromisedIsKept, IdsOf
<1> QED
  BY <1>1, <1>2, <1>3, TypeAlways, PTL DEF Spec
-----------------------------------------------------------------------------
(* Different ids do not share the identifier of their payloads. *)
RefsTellIdsApart ==
  \A x, y \in Ids \X Revs : RefOf[x] = RefOf[y] => RefOf[x] = Null \/ x[1] = y[1]

(* Rows of one id meet in this table, as they were all created at once. *)
ById(w) == Location(w) \subseteq {"id", "born"}

(* The first write of a run takes its rows from the source as they are. *)
Loads(w) ==
  /\ w.from = "raw" /\ w.one = Columns /\ w.dq = {TRUE, FALSE}
  /\ ~w.exploded /\ ~w.summed
  /\ "id" \in w.key
  /\ w.pre = "rev" => Location(w) = {"id"}

(* A later one takes all ids from the table below.  It need not choose       *)
(* between rows of one id, or it chooses by the time of ingestion.           *)
Follows(w, below, first) ==
  /\ w.from = below.to /\ w.dq = {TRUE, FALSE} /\ "id" \in w.one
  /\ ~w.exploded /\ ~w.summed
  /\ "id" \in w.key \/ (Location(w) = {"ref", "day"} /\ w.key = {"ref"} /\ RefsTellIdsApart)
  /\ ById(below) \/ (first.pre # "rev" /\ w.by = "stamp" /\ w.pre = "stamp")

(* A run that brings the last load of each id to gold *)
IsShowingRun(s) ==
  /\ s[Len(s)].to = "gold" /\ Loads(s[1])
  /\ \A k \in 2..Len(s) : Follows(s[k], s[k - 1], s[1])

IsLastById(s) == ById(s[Len(s)])

LEMMA ThreeShowingWrites ==
  ASSUME NEW a, NEW b, NEW c, Loads(a), Follows(b, a, a), Follows(c, b, a), c.to = "gold"
  PROVE  IsShowingRun(<<a, b, c>>) /\ (ById(c) => IsLastById(<<a, b, c>>))
<1> DEFINE s == <<a, b, c>>
<1>1. Len(s) = 3 /\ s[1] = a /\ s[2] = b /\ s[3] = c
  OBVIOUS
<1>2. \A k \in 2..3 : k = 2 \/ k = 3
  OBVIOUS
<1> HIDE DEF s
<1>3. IsShowingRun(s) /\ (ById(c) => IsLastById(s))
  BY <1>1, <1>2 DEF IsShowingRun, IsLastById
<1> QED
  BY <1>3 DEF s

LEMMA ShowingRuns ==
  /\ \A n \in Replacing : IsShowingRun(Catalog[n]) /\ IsLastById(Catalog[n])
  /\ RefsTellIdsApart => \A n \in Accumulating : IsShowingRun(Catalog[n])
<1>1. IsShowingRun(CasesRun) /\ IsLastById(CasesRun)
  <2>1. Loads(CasesBronze)
    BY DEF CasesBronze, Bronze, Upsert, Loads, Location, Columns
  <2>2. Follows(CasesSilver, CasesBronze, CasesBronze)
    BY DEF CasesSilver, Silver, Latest, CasesBronze, Bronze, Upsert, Follows, ById,
       Location, Columns
  <2>3. Follows(CasesGold, CasesSilver, CasesBronze) /\ CasesGold.to = "gold" /\ ById(CasesGold)
    BY DEF CasesGold, Gold, By, Latest, CasesSilver, Silver, CasesBronze, Bronze,
       Upsert, Follows, ById, Location, Columns
  <2> QED
    BY <2>1, <2>2, <2>3, ThreeShowingWrites DEF CasesRun
<1>2. IsShowingRun(TasksRun) /\ IsLastById(TasksRun)
  <2>1. Loads(TasksBronze)
    BY DEF TasksBronze, Bronze, Upsert, Loads, Location, Columns
  <2>2. Follows(TasksSilver, TasksBronze, TasksBronze)
    BY DEF TasksSilver, Silver, Latest, TasksBronze, Bronze, Upsert, Follows, ById,
       Location, Columns
  <2>3. Follows(TasksGold, TasksSilver, TasksBronze) /\ TasksGold.to = "gold" /\ ById(TasksGold)
    BY DEF TasksGold, Gold, By, Latest, TasksSilver, Silver, TasksBronze, Bronze,
       Upsert, Follows, ById, Location, Columns
  <2> QED
    BY <2>1, <2>2, <2>3, ThreeShowingWrites DEF TasksRun
<1>3. IsShowingRun(CommentsRun) /\ IsLastById(CommentsRun)
  <2>1. Loads(CommentsBronze)
    BY DEF CommentsBronze, Bronze, Upsert, Loads, Location, Columns
  <2>2. Follows(CommentsSilver, CommentsBronze, CommentsBronze)
    BY DEF CommentsSilver, Silver, CommentsBronze, Bronze, Upsert, Follows, ById,
       Location, Columns
  <2>3. Follows(CommentsGold, CommentsSilver, CommentsBronze) /\ CommentsGold.to = "gold" /\ ById(CommentsGold)
    BY DEF CommentsGold, Gold, CommentsSilver, Silver, CommentsBronze, Bronze,
       Upsert, Follows, ById, Location, Columns
  <2> QED
    BY <2>1, <2>2, <2>3, ThreeShowingWrites DEF CommentsRun
<1>4. IsShowingRun(TransactionsRun) /\ IsLastById(TransactionsRun)
  <2>1. Loads(TransactionsBronze)
    BY DEF TransactionsBronze, Bronze, Upsert, Loads, Location, Columns
  <2>2. Follows(TransactionsSilver, TransactionsBronze, TransactionsBronze)
    BY DEF TransactionsSilver, Silver, Latest, TransactionsBronze, Bronze, Upsert,
       Follows, ById, Location, Columns
  <2>3. Follows(TransactionsGold, TransactionsSilver, TransactionsBronze) /\ TransactionsGold.to = "gold" /\ ById(TransactionsGold)
    BY DEF TransactionsGold, Gold, TransactionsSilver, Silver, Latest,
       TransactionsBronze, Bronze, Upsert, Follows, ById, Location, Columns
  <2> QED
    BY <2>1, <2>2, <2>3, ThreeShowingWrites DEF TransactionsRun
<1>5. IsShowingRun(AccountRun) /\ IsLastById(AccountRun)
  <2>1. Loads(AccountBronze)
    BY DEF AccountBronze, Bronze, Upsert, Loads, Location, Columns
  <2>2. Follows(AccountSilver, AccountBronze, AccountBronze)
    BY DEF AccountSilver, Silver, AccountBronze, Bronze, Upsert, Follows, ById,
       Location, Columns
  <2>3. Follows(AccountGold, AccountSilver, AccountBronze) /\ AccountGold.to = "gold" /\ ById(AccountGold)
    BY DEF AccountGold, Gold, AccountSilver, Silver, AccountBronze, Bronze, Upsert,
       Follows, ById, Location, Columns
  <2> QED
    BY <2>1, <2>2, <2>3, ThreeShowingWrites DEF AccountRun
<1>6. IsShowingRun(AccountHolderRun) /\ IsLastById(AccountHolderRun)
  <2>1. Loads(AccountHolderBronze)
    BY DEF AccountHolderBronze, Bronze, Upsert, Loads, Location, Columns
  <2>2. Follows(AccountHolderSilver, AccountHolderBronze, AccountHolderBronze)
    BY DEF AccountHolderSilver, Silver, AccountHolderBronze, Bronze, Upsert,
       Follows, ById, Location, Columns
  <2>3. Follows(AccountHolderGold, AccountHolderSilver, AccountHolderBronze) /\ AccountHolderGold.to = "gold" /\ ById(AccountHolderGold)
    BY DEF AccountHolderGold, Gold, AccountHolderSilver, Silver,
       AccountHolderBronze, Bronze, Upsert, Follows, ById, Location, Columns
  <2> QED
    BY <2>1, <2>2, <2>3, ThreeShowingWrites DEF AccountHolderRun
<1>7. IsShowingRun(CasePriorityThresholdsRun) /\ IsLastById(CasePriorityThresholdsRun)
  <2>1. Loads(CasePriorityThresholdsBronze)
    BY DEF CasePriorityThresholdsBronze, Bronze, Upsert, Loads, Location, Columns
  <2>2. Follows(CasePriorityThresholdsSilver, CasePriorityThresholdsBronze, CasePriorityThresholdsBronze)
    BY DEF CasePriorityThresholdsSilver, Silver, Latest,
       CasePriorityThresholdsBronze, Bronze, Upsert, Follows, ById, Location, Columns
  <2>3. Follows(CasePriorityThresholdsGold, CasePriorityThresholdsSilver, CasePriorityThresholdsBronze) /\ CasePriorityThresholdsGold.to = "gold" /\ ById(CasePriorityThresholdsGold)
    BY DEF CasePriorityThresholdsGold, Gold, CasePriorityThresholdsSilver, Silver,
       Latest, CasePriorityThresholdsBronze, Bronze, Upsert, Follows, ById, Location, Columns
  <2> QED
    BY <2>1, <2>2, <2>3, ThreeShowingWrites DEF CasePriorityThresholdsRun
<1>8. IsShowingRun(SlaPoliciesRun) /\ IsLastById(SlaPoliciesRun)
  <2>1. Loads(SlaPoliciesBronze)
    BY DEF SlaPoliciesBronze, Bronze, Upsert, Loads, Location, Columns
  <2>2. Follows(SlaPoliciesSilver, SlaPoliciesBronze, SlaPoliciesBronze)
    BY DEF SlaPoliciesSilver, Silver, Latest, SlaPoliciesBronze, Bronze, Upsert,
       Follows, ById, Location, Columns
  <2>3. Follows(SlaPoliciesGold, SlaPoliciesSilver, SlaPoliciesBronze) /\ SlaPoliciesGold.to = "gold" /\ ById(SlaPoliciesGold)
    BY DEF SlaPoliciesGold, Gold, SlaPoliciesSilver, Silver, Latest,
       SlaPoliciesBronze, Bronze, Upsert, Follows, ById, Location, Columns
  <2> QED
    BY <2>1, <2>2, <2>3, ThreeShowingWrites DEF SlaPoliciesRun
<1>9. IsShowingRun(SlaEscalationThresholdsRun) /\ IsLastById(SlaEscalationThresholdsRun)
  <2>1. Loads(SlaEscalationThresholdsBronze)
    BY DEF SlaEscalationThresholdsBronze, Bronze, Upsert, Loads, Location, Columns
  <2>2. Follows(SlaEscalationThresholdsSilver, SlaEscalationThresholdsBronze, SlaEscalationThresholdsBronze)
    BY DEF SlaEscalationThresholdsSilver, Silver, Latest,
       SlaEscalationThresholdsBronze, Bronze, Upsert, Follows, ById, Location, Columns
  <2>3. Follows(SlaEscalationThresholdsGold, SlaEscalationThresholdsSilver, SlaEscalationThresholdsBronze) /\ SlaEscalationThresholdsGold.to = "gold" /\ ById(SlaEscalationThresholdsGold)
    BY DEF SlaEscalationThresholdsGold, Gold, SlaEscalationThresholdsSilver,
       Silver, Latest, SlaEscalationThresholdsBronze, Bronze, Upsert, Follows, ById, Location, Columns
  <2> QED
    BY <2>1, <2>2, <2>3, ThreeShowingWrites DEF SlaEscalationThresholdsRun
<1>10. IsShowingRun(SlaEscalationRecordsRun) /\ IsLastById(SlaEscalationRecordsRun)
  <2>1. Loads(SlaEscalationRecordsBronze)
    BY DEF SlaEscalationRecordsBronze, Bronze, Upsert, Loads, Location, Columns
  <2>2. Follows(SlaEscalationRecordsSilver, SlaEscalationRecordsBronze, SlaEscalationRecordsBronze)
    BY DEF SlaEscalationRecordsSilver, Silver, Latest, SlaEscalationRecordsBronze,
       Bronze, Upsert, Follows, ById, Location, Columns
  <2>3. Follows(SlaEscalationRecordsGold, SlaEscalationRecordsSilver, SlaEscalationRecordsBronze) /\ SlaEscalationRecordsGold.to = "gold" /\ ById(SlaEscalationRecordsGold)
    BY DEF SlaEscalationRecordsGold, Gold, SlaEscalationRecordsSilver, Silver,
       Latest, SlaEscalationRecordsBronze, Bronze, Upsert, Follows, ById, Location, Columns
  <2> QED
    BY <2>1, <2>2, <2>3, ThreeShowingWrites DEF SlaEscalationRecordsRun
<1>11. IsShowingRun(InvestigationGroupsRun) /\ IsLastById(InvestigationGroupsRun)
  <2>1. Loads(InvestigationGroupsBronze)
    BY DEF InvestigationGroupsBronze, Bronze, Upsert, Loads, Location, Columns
  <2>2. Follows(InvestigationGroupsSilver, InvestigationGroupsBronze, InvestigationGroupsBronze)
    BY DEF InvestigationGroupsSilver, Silver, Latest, InvestigationGroupsBronze,
       Bronze, Upsert, Follows, ById, Location, Columns
  <2>3. Follows(InvestigationGroupsGold, InvestigationGroupsSilver, InvestigationGroupsBronze) /\ InvestigationGroupsGold.to = "gold" /\ ById(InvestigationGroupsGold)
    BY DEF InvestigationGroupsGold, Gold, InvestigationGroupsSilver, Silver,
       Latest, InvestigationGroupsBronze, Bronze, Upsert, Follows, ById, Location, Columns
  <2> QED
    BY <2>1, <2>2, <2>3, ThreeShowingWrites DEF InvestigationGroupsRun
<1>12. IsShowingRun(DynamicRun) /\ IsLastById(DynamicRun)
  <2>1. Loads(DynamicBronze)
    BY DEF DynamicBronze, Bronze, Upsert, Loads, Location, Columns
  <2>2. Follows(DynamicSilver, DynamicBronze, DynamicBronze)
    BY DEF DynamicSilver, Silver, Latest, DynamicBronze, Bronze, Upsert, Follows,
       ById, Location, Columns
  <2>3. Follows(DynamicGold, DynamicSilver, DynamicBronze) /\ DynamicGold.to = "gold" /\ ById(DynamicGold)
    BY DEF DynamicGold, Gold, Latest, DynamicSilver, Silver, DynamicBronze, Bronze,
       Upsert, Follows, ById, Location, Columns
  <2> QED
    BY <2>1, <2>2, <2>3, ThreeShowingWrites DEF DynamicRun
<1>13. IsShowingRun(CmsUsernamesRun) /\ IsLastById(CmsUsernamesRun)
  <2>1. Loads(CmsUsernamesGold) /\ CmsUsernamesGold.to = "gold" /\ ById(CmsUsernamesGold)
    BY DEF CmsUsernamesGold, Upsert, Loads, ById, Location, Columns
  <2>2. Len(CmsUsernamesRun) = 1 /\ CmsUsernamesRun[1] = CmsUsernamesGold
    BY DEF CmsUsernamesRun
  <2> QED
    BY <2>1, <2>2 DEF IsShowingRun, IsLastById
<1>14. IsShowingRun(RulesRun) /\ IsLastById(RulesRun)
  <2>1. Loads(RulesBronze)
    BY DEF RulesBronze, Bronze, Upsert, Loads, Location, Columns
  <2>2. Follows(RulesSilver, RulesBronze, RulesBronze)
    BY DEF RulesSilver, Silver, Latest, RulesBronze, Bronze, Upsert, Follows, ById,
       Location, Columns
  <2>3. Follows(RulesGold, RulesSilver, RulesBronze) /\ RulesGold.to = "gold" /\ ById(RulesGold)
    BY DEF RulesGold, Gold, By, RulesSilver, Silver, Latest, RulesBronze, Bronze,
       Upsert, Follows, ById, Location, Columns
  <2> QED
    BY <2>1, <2>2, <2>3, ThreeShowingWrites DEF RulesRun
<1>15. IsShowingRun(TypologiesRun)
  <2>1. Loads(TypologiesBronze)
    BY DEF TypologiesBronze, Bronze, Upsert, Loads, Location, Columns
  <2>2. Follows(TypologiesSilver, TypologiesBronze, TypologiesBronze)
    BY DEF TypologiesSilver, Silver, Latest, TypologiesBronze, Bronze, Upsert,
       Follows, ById, Location, Columns
  <2>3. Follows(TypologiesGold, TypologiesSilver, TypologiesBronze) /\ TypologiesGold.to = "gold"
    BY DEF TypologiesGold, Gold, TypologiesSilver, Silver, Latest,
       TypologiesBronze, Bronze, Upsert, Follows, ById, Location, Columns
  <2> QED
    BY <2>1, <2>2, <2>3, ThreeShowingWrites DEF TypologiesRun
<1>16. IsShowingRun(ConditionsRun)
  <2>1. Loads(ConditionsBronze)
    BY DEF ConditionsBronze, Bronze, Upsert, Loads, Location, Columns
  <2>2. Follows(ConditionsSilver, ConditionsBronze, ConditionsBronze)
    BY DEF ConditionsSilver, Silver, Latest, ConditionsBronze, Bronze, Upsert,
       Follows, ById, Location, Columns
  <2>3. Follows(ConditionsGold, ConditionsSilver, ConditionsBronze) /\ ConditionsGold.to = "gold"
    BY DEF ConditionsGold, Gold, ConditionsSilver, Silver, Latest,
       ConditionsBronze, Bronze, Upsert, Follows, ById, Location, Columns
  <2> QED
    BY <2>1, <2>2, <2>3, ThreeShowingWrites DEF ConditionsRun
<1>17. RefsTellIdsApart => IsShowingRun(EvaluationRun)
  <2> SUFFICES ASSUME RefsTellIdsApart PROVE IsShowingRun(EvaluationRun)
    OBVIOUS
  <2>1. Loads(EvaluationBronze)
    BY DEF EvaluationBronze, Bronze, Upsert, Loads, Location, Columns
  <2>2. Follows(EvaluationSilver, EvaluationBronze, EvaluationBronze)
    BY DEF EvaluationSilver, Silver, Latest, EvaluationBronze, Bronze, Upsert,
       Follows, ById, Location, Columns
  <2>3. Follows(EvaluationGold, EvaluationSilver, EvaluationBronze) /\ EvaluationGold.to = "gold"
    BY DEF EvaluationGold, Gold, By, EvaluationSilver, Silver, Latest,
       EvaluationBronze, Bronze, Upsert, Follows, ById, Location, Columns
  <2> QED
    BY <2>1, <2>2, <2>3, ThreeShowingWrites DEF EvaluationRun
<1>18. IsShowingRun(Pacs002Run)
  <2>1. Loads(Pacs002Bronze)
    BY DEF Pacs002Bronze, Bronze, By, Upsert, Loads, Location, Columns
  <2>2. Follows(Pacs002Silver, Pacs002Bronze, Pacs002Bronze)
    BY DEF Pacs002Silver, Silver, By, Latest, Pacs002Bronze, Bronze, Upsert,
       Follows, ById, Location, Columns
  <2>3. Follows(Pacs002Gold, Pacs002Silver, Pacs002Bronze) /\ Pacs002Gold.to = "gold"
    BY DEF Pacs002Gold, Gold, By, Pacs002Silver, Silver, Latest, Pacs002Bronze,
       Bronze, Upsert, Follows, ById, Location, Columns
  <2> QED
    BY <2>1, <2>2, <2>3, ThreeShowingWrites DEF Pacs002Run
<1>19. IsShowingRun(Pacs008Run)
  <2>1. Loads(Pacs008Bronze)
    BY DEF Pacs008Bronze, Bronze, Upsert, Loads, Location, Columns
  <2>2. Follows(Pacs008Silver, Pacs008Bronze, Pacs008Bronze)
    BY DEF Pacs008Silver, Silver, Latest, Pacs008Bronze, Bronze, Upsert, Follows,
       ById, Location, Columns
  <2>3. Follows(Pacs008Gold, Pacs008Silver, Pacs008Bronze) /\ Pacs008Gold.to = "gold"
    BY DEF Pacs008Gold, Gold, By, Pacs008Silver, Silver, Latest, Pacs008Bronze,
       Bronze, Upsert, Follows, ById, Location, Columns
  <2> QED
    BY <2>1, <2>2, <2>3, ThreeShowingWrites DEF Pacs008Run
<1>20. /\ Catalog["cases"] = CasesRun
       /\ Catalog["tasks"] = TasksRun
       /\ Catalog["comments"] = CommentsRun
       /\ Catalog["transactions"] = TransactionsRun
       /\ Catalog["account"] = AccountRun
       /\ Catalog["account_holder"] = AccountHolderRun
       /\ Catalog["case_priority_thresholds"] = CasePriorityThresholdsRun
       /\ Catalog["sla_policies"] = SlaPoliciesRun
       /\ Catalog["sla_escalation_thresholds"] = SlaEscalationThresholdsRun
       /\ Catalog["sla_escalation_records"] = SlaEscalationRecordsRun
       /\ Catalog["investigation_groups"] = InvestigationGroupsRun
       /\ Catalog["dynamic"] = DynamicRun
       /\ Catalog["cms_usernames"] = CmsUsernamesRun
       /\ Catalog["rules"] = RulesRun
       /\ Catalog["typologies"] = TypologiesRun
       /\ Catalog["conditions"] = ConditionsRun
       /\ Catalog["evaluation"] = EvaluationRun
       /\ Catalog["pacs002"] = Pacs002Run
       /\ Catalog["pacs008"] = Pacs008Run
  BY DEF Catalog
<1> HIDE DEF Catalog
<1> QED
  BY <1>1, <1>2, <1>3, <1>4, <1>5, <1>6, <1>7, <1>8, <1>9, <1>10, <1>11, <1>12, <1>13,
     <1>14, <1>15, <1>16, <1>17, <1>18, <1>19, <1>20 DEF Replacing, Accumulating
-----------------------------------------------------------------------------
(* A row as the source made it, but for the time of its ingestion            *)
Genuine(r) == r.rev \in Revs /\ r.born = r.id /\ r.day = r.rev /\ r.ref = RefOf[<<r.id, r.rev>>]

(* The only rows of the same id that are not older are of its last load, L. *)
Ahead(r, tables, L) ==
  \A t \in Layers : \A s \in tables[t] : s.id = r.id => s.rev \in L[r.id] \/ s.stamp < r.stamp

(* The last load of each id is in table T, ahead of everything else. *)
Shown(T, run, tables, L) ==
  \A i \in Ids : L[i] # {} =>
    \E r \in T : /\ r.id = i /\ r.rev \in L[i] /\ Ahead(r, tables, L)
                 /\ run[1].pre = "rev" => \A v \in L[i] : v <= r.rev

(* The rows of T come from the tables. *)
Known(T, tables) ==
  \A r \in T : \E t \in Layers : \E s \in tables[t] :
    s.id = r.id /\ s.rev = r.rev /\ s.stamp = r.stamp

(* T is what the first write makes of the table and its batch. *)
Loaded(T, run, table, batch) ==
  /\ T \subseteq table \cup batch
  /\ \A r \in table : (\A s \in batch : s.id # r.id) => r \in T
  /\ \A r \in batch : \E q \in T \cap batch :
       /\ q.id = r.id
       /\ run[1].pre = "rev" => \A s \in batch : s.id = r.id => s.rev <= q.rev

OnePerId(T) == \A r, s \in T : r.id = s.id => r = s

LEMMA KeyedIsOnePerId ==
  ASSUME NEW T, NEW w, ById(w), Keyed(T, w), \A r \in T : Genuine(r)
  PROVE  OnePerId(T)
<1>1. \A r, s \in T : r.id = s.id => \A c \in Location(w) : r[c] = s[c]
  BY DEF ById, Genuine
<1> QED
  BY <1>1 DEF OnePerId, Keyed, Same

(* Choosing among rows of one id keeps what is shown, either because there   *)
(* is no choice or because the latest stay.                                  *)
LEMMA LatestShows ==
  ASSUME NEW X \in SUBSET Rows, NEW run, NEW tables \in [Layers -> SUBSET Rows], NEW L, NEW cols, NEW by,
         Shown(X, run, tables, L), Known(X, tables),
         \A r, s \in X : Same(r, s, cols) => r.id = s.id,
         OnePerId(X) \/ (run[1].pre # "rev" /\ by = "stamp"),
         NEW S \in LatestPer(X, cols, by)
  PROVE  /\ Shown(S, run, tables, L) /\ Known(S, tables)
         /\ S \subseteq X /\ (OnePerId(X) => OnePerId(S))
<1>1. S \subseteq X
  BY LatestIsKeyed
<1>2. Known(S, tables) /\ (OnePerId(X) => OnePerId(S))
  BY <1>1 DEF Known, OnePerId
<1>3. ASSUME NEW i \in Ids, L[i] # {}
      PROVE  \E r \in S : /\ r.id = i /\ r.rev \in L[i] /\ Ahead(r, tables, L)
                          /\ run[1].pre = "rev" => \A v \in L[i] : v <= r.rev
  <2>1. PICK r \in X : /\ r.id = i /\ r.rev \in L[i] /\ Ahead(r, tables, L)
                       /\ run[1].pre = "rev" => \A v \in L[i] : v <= r.rev
    BY <1>3 DEF Shown
  <2>2. PICK s \in S : Same(r, s, cols) /\ r[by] <= s[by]
    BY DEF LatestPer
  <2>3. s \in X /\ s.id = i
    BY <1>1, <2>1, <2>2
  <2>4. CASE OnePerId(X)
    BY <2>1, <2>2, <2>3, <2>4 DEF OnePerId
  <2>5. CASE run[1].pre # "rev" /\ by = "stamp"
    <3>1. r.stamp \in Nat /\ s.stamp \in Nat /\ r.stamp <= s.stamp
      BY <2>1, <2>2, <2>3, <2>5, BoundsAssumption DEF Rows, RowsOf
    <3>2. \E t \in Layers : \E q \in tables[t] : q.id = s.id /\ q.rev = s.rev /\ q.stamp = s.stamp
      BY <2>3 DEF Known
    <3>3. s.rev \in L[i]
      BY <2>1, <2>3, <3>1, <3>2 DEF Ahead
    <3>4. Ahead(s, tables, L)
      <4> SUFFICES ASSUME NEW u \in Layers, NEW p \in tables[u], p.id = i
                   PROVE  p.rev \in L[i] \/ p.stamp < s.stamp
        BY <2>3 DEF Ahead
      <4>1. p.stamp \in Nat
        BY BoundsAssumption DEF Rows, RowsOf
      <4> QED
        BY <2>1, <3>1, <4>1 DEF Ahead
    <3> QED
      BY <2>3, <2>5, <3>3, <3>4
  <2> QED
    BY <2>4, <2>5
<1> QED
  BY <1>1, <1>2, <1>3 DEF Shown

(* A write that Follows shows in its table what is shown in the one below. *)
LEMMA WriteShows ==
  ASSUME TypeOK, NEW w, NEW below, NEW batch \in SUBSET Rows, Follows(w, below, etl[1]),
         w.from \in Layers, w.to \in Layers, Keyed(lake[below.to], below),
         \A t \in Layers : \A r \in lake[t] : Genuine(r),
         Shown(lake[w.from], etl, lake, last),
         NEW rows \in Inputs(w, batch), Writable(rows, w), NEW t \in Upserts(lake[w.to], rows, w)
  PROVE  Shown(t, etl, lake, last) /\ Known(t, lake) /\ \A r \in t : Genuine(r)
<1> DEFINE table == lake[w.from]
           Fine(X) == /\ Shown(X, etl, lake, last) /\ Known(X, lake)
                      /\ X \subseteq Rows /\ \A r \in X : Genuine(r)
           NoChoice == ById(below)
           ByTime == etl[1].pre # "rev" /\ w.by = "stamp" /\ w.pre = "stamp"
<1>1. lake \in [Layers -> SUBSET Rows] /\ table \subseteq Rows
  BY DEF TypeOK
<1>2. Fine(table)
  BY <1>1 DEF Known
<1>3. NoChoice => OnePerId(table)
  BY KeyedIsOnePerId DEF Follows
<1>4. PICK R \in LatestPer(table, w.one, w.by) : rows = {r \in R : r.ok \in w.dq}
  <2>1. w.from # "raw"
    BY DEF Layers
  <2>2. \A S : Parts(w, S) = S
    BY DEF Parts, Follows
  <2> QED
    BY <2>1, <2>2 DEF Inputs
<1>5. NoChoice \/ ByTime
  BY DEF Follows
<1>6. Fine(R) /\ (NoChoice => OnePerId(R))
  <2>1. \A r, s \in table : Same(r, s, w.one) => r.id = s.id
    BY DEF Same, Follows
  <2>2. OnePerId(table) \/ (etl[1].pre # "rev" /\ w.by = "stamp")
    BY <1>3, <1>5
  <2> HIDE DEF table
  <2>3. /\ Shown(R, etl, lake, last) /\ Known(R, lake)
        /\ R \subseteq table /\ (OnePerId(table) => OnePerId(R))
    BY <1>1, <1>2, <2>1, <2>2, LatestShows
  <2> QED
    BY <1>2, <1>3, <2>3
<1>7. rows = R
  <2>1. \A r \in Rows : r.ok \in BOOLEAN
    BY DEF Rows, RowsOf
  <2>2. w.dq = BOOLEAN
    BY DEF Follows
  <2> QED
    BY <1>4, <1>6, <2>1, <2>2
<1> HIDE DEF table
<1>9. Fine(rows) /\ (NoChoice => OnePerId(rows))
  BY <1>6, <1>7
<1>10. \A r, s \in rows : Same(r, s, Location(w)) => r.id = s.id
  <2> SUFFICES ASSUME NEW r \in rows, NEW s \in rows, Same(r, s, Location(w))
               PROVE  r.id = s.id
    OBVIOUS
  <2>1. CASE "id" \in w.key
    BY <2>1 DEF Same, Location
  <2>2. CASE Location(w) = {"ref", "day"} /\ w.key = {"ref"} /\ RefsTellIdsApart
    <3>1. r.ref = s.ref
      BY <2>2 DEF Same
    <3>2. r.ref # Null
      BY <2>2 DEF Writable
    <3>3. r.ref = RefOf[<<r.id, r.rev>>] /\ s.ref = RefOf[<<s.id, s.rev>>]
      BY <1>9 DEF Genuine
    <3>4. r \in Rows /\ s \in Rows
      BY <1>9
    <3>5. <<r.id, r.rev>> \in Ids \X Revs /\ <<s.id, s.rev>> \in Ids \X Revs
      BY <1>9, <3>4 DEF Rows, RowsOf, Genuine
    <3>6. <<r.id, r.rev>>[1] = r.id /\ <<s.id, s.rev>>[1] = s.id
      OBVIOUS
    <3> QED
      BY <2>2, <3>1, <3>2, <3>3, <3>5, <3>6 DEF RefsTellIdsApart
  <2> QED
    BY <2>1, <2>2 DEF Follows
<1>11. PICK best \in LatestPer(rows, Location(w), w.pre) : t = Overwrite(lake[w.to], best, w)
  BY DEF Upserts
<1>12. Shown(best, etl, lake, last) /\ Known(best, lake) /\ best \subseteq rows
  <2>1. OnePerId(rows) \/ (etl[1].pre # "rev" /\ w.pre = "stamp")
    BY <1>5, <1>9
  <2> QED
    BY <1>1, <1>9, <1>10, <2>1, LatestShows
<1>13. best \subseteq t /\ t \subseteq lake[w.to] \cup best
  BY <1>11 DEF Overwrite
<1>14. Known(t, lake)
  BY <1>12, <1>13 DEF Known
<1>15. Shown(t, etl, lake, last)
  BY <1>12, <1>13 DEF Shown
<1>16. \A r \in t : Genuine(r)
  BY <1>9, <1>12, <1>13
<1> QED
  BY <1>14, <1>15, <1>16

(* What the first write makes of a batch *)
LEMMA WriteLoads ==
  ASSUME TypeOK, NEW w, w = etl[1], Loads(w), w.to \in Layers, NEW batch \in SUBSET Rows,
         NEW rows \in Inputs(w, batch), NEW t \in Upserts(lake[w.to], rows, w)
  PROVE  Loaded(t, etl, lake[w.to], batch)
<1>1. rows = batch
  <2>1. PICK R \in LatestPer(batch, Columns, w.by) : rows = {r \in R : r.ok \in w.dq}
    <3>1. w.from = "raw" /\ w.one = Columns
      BY DEF Loads
    <3>2. \A S : Parts(w, S) = S
      BY DEF Parts, Loads
    <3> QED
      BY <3>1, <3>2 DEF Inputs
  <2>2. R \subseteq batch /\ \A r \in batch : \E s \in R : Same(r, s, Columns)
    BY <2>1, LatestIsKeyed
  <2>3. \A r, s \in Rows : Same(r, s, Columns) => r = s
    BY DEF Same, Columns, Rows, RowsOf
  <2>4. R = batch
    BY <2>2, <2>3
  <2>5. \A r \in batch : r.ok \in w.dq
    BY DEF Rows, RowsOf, Loads
  <2> QED
    BY <2>1, <2>4, <2>5
<1>2. PICK best \in LatestPer(batch, Location(w), w.pre) : t = Overwrite(lake[w.to], best, w)
  BY <1>1 DEF Upserts
<1>3. best \subseteq batch /\ best \subseteq t /\ t \subseteq lake[w.to] \cup batch
  BY <1>2, LatestIsKeyed DEF Overwrite
<1>4. "id" \in Location(w)
  BY DEF Location, Loads
<1>5. ASSUME NEW r \in lake[w.to], \A s \in batch : s.id # r.id PROVE r \in t
  <2>1. \A s \in best : ~Same(r, s, Location(w))
    BY <1>3, <1>4, <1>5 DEF Same
  <2> QED
    BY <1>2, <2>1 DEF Overwrite
<1>6. ASSUME NEW r \in batch
      PROVE  \E q \in t \cap batch :
               q.id = r.id /\ (w.pre = "rev" => \A s \in batch : s.id = r.id => s.rev <= q.rev)
  <2>1. PICK q \in best : Same(r, q, Location(w))
    BY <1>2, LatestIsKeyed
  <2>2. q.id = r.id
    BY <1>4, <2>1 DEF Same
  <2>3. ASSUME w.pre = "rev", NEW s \in batch, s.id = r.id PROVE s.rev <= q.rev
    <3>1. Location(w) = {"id"}
      BY <2>3 DEF Loads
    <3>2. PICK p \in best : Same(s, p, Location(w)) /\ s.rev <= p.rev
      BY <1>2, <2>3 DEF LatestPer
    <3>3. p = q
      <4>1. Same(p, q, Location(w))
        BY <2>2, <2>3, <3>1, <3>2 DEF Same
      <4> QED
        BY <1>2, <4>1, LatestIsKeyed
    <3> QED
      BY <3>2, <3>3
  <2> QED
    BY <1>3, <2>2, <2>3
<1> QED
  BY <1>3, <1>5, <1>6 DEF Loaded
(* What is shown stays so while the other tables take rows they know. *)
LEMMA ShownStays ==
  ASSUME NEW T, NEW run, NEW tables, NEW new, NEW L, Shown(T, run, tables, L),
         \A t \in Layers : Known(new[t], tables)
  PROVE  Shown(T, run, new, L)
<1>1. ASSUME NEW r, Ahead(r, tables, L) PROVE Ahead(r, new, L)
  <2> SUFFICES ASSUME NEW t \in Layers, NEW s \in new[t], s.id = r.id
               PROVE  s.rev \in L[r.id] \/ s.stamp < r.stamp
    BY DEF Ahead
  <2>1. \E u \in Layers : \E q \in tables[u] : q.id = s.id /\ q.rev = s.rev /\ q.stamp = s.stamp
    BY DEF Known
  <2> QED
    BY <1>1, <2>1 DEF Ahead
<1> QED
  BY <1>1 DEF Shown

(* m is what last holds of id i once a batch is committed. *)
LoadedRevs(m, l, batch, i) ==
  IF \E r \in batch : r.id = i
  THEN /\ \A s \in batch : s.id = i => s.rev \in m
       /\ \A v \in m : \E s \in batch : s.id = i /\ s.rev = v
  ELSE m = l

LEMMA LastOfBatch ==
  ASSUME NEW batch, NEW i, NEW l, NEW m,
         m = LET revs == {r.rev : r \in {s \in batch : s.id = i}} IN IF revs = {} THEN l ELSE revs
  PROVE  LoadedRevs(m, l, batch, i)
<1> DEFINE revs == {r.rev : r \in {s \in batch : s.id = i}}
<1>1. m = IF revs = {} THEN l ELSE revs
  OBVIOUS
<1>2. \A s \in batch : s.id = i => s.rev \in revs
  OBVIOUS
<1>3. \A v \in revs : \E s \in batch : s.id = i /\ s.rev = v
  OBVIOUS
<1> HIDE DEF revs
<1> QED
  BY <1>1, <1>2, <1>3 DEF LoadedRevs

(* The first commit shows the batch, newer than anything there was. *)
LEMMA ShownFirst ==
  ASSUME NEW run, NEW tables \in [Layers -> SUBSET Rows], NEW to \in Layers, NEW L, NEW c,
         NEW batch \in SUBSET Rows, NEW T, Loaded(T, run, tables[to], batch),
         Shown(tables[to], run, tables, L), \A s \in batch : s.stamp = c,
         \A t \in Layers : \A s \in tables[t] : s.stamp < c,
         NEW M, \A i \in Ids : LoadedRevs(M[i], L[i], batch, i)
  PROVE  Shown(T, run, [tables EXCEPT ![to] = T], M)
<1> DEFINE new == [tables EXCEPT ![to] = T]
<1>1. \A t \in Layers : \A s \in new[t] : s \in batch \/ s \in tables[t]
  BY DEF Loaded
<1> HIDE DEF new
<1> SUFFICES ASSUME NEW i \in Ids, M[i] # {}
             PROVE  \E r \in T : /\ r.id = i /\ r.rev \in M[i] /\ Ahead(r, new, M)
                                 /\ run[1].pre = "rev" => \A v \in M[i] : v <= r.rev
  BY DEF Shown, new
<1>2. CASE \E r \in batch : r.id = i
  <2>1. PICK r \in batch : r.id = i
    BY <1>2
  <2>2. \A v \in M[i] : \E s \in batch : s.id = i /\ s.rev = v
    BY <2>1 DEF LoadedRevs
  <2>3. \A s \in batch : s.id = i => s.rev \in M[i]
    BY <2>1 DEF LoadedRevs
  <2>4. PICK q \in T \cap batch :
          /\ q.id = i
          /\ run[1].pre = "rev" => \A s \in batch : s.id = i => s.rev <= q.rev
    BY <2>1 DEF Loaded
  <2>5. Ahead(q, new, M)
    <3> SUFFICES ASSUME NEW t \in Layers, NEW s \in new[t], s.id = i
                 PROVE  s.rev \in M[i] \/ s.stamp < q.stamp
      BY <2>4 DEF Ahead
    <3> QED
      BY <1>1, <2>3, <2>4
  <2>6. run[1].pre = "rev" => \A v \in M[i] : v <= q.rev
    BY <2>2, <2>4
  <2> QED
    BY <2>3, <2>4, <2>5, <2>6
<1>3. CASE \A s \in batch : s.id # i
  <2>1. M[i] = L[i]
    BY <1>3 DEF LoadedRevs
  <2>2. PICK r \in tables[to] : /\ r.id = i /\ r.rev \in L[i] /\ Ahead(r, tables, L)
                                /\ run[1].pre = "rev" => \A v \in L[i] : v <= r.rev
    BY <2>1 DEF Shown
  <2>3. r \in T
    BY <1>3, <2>2 DEF Loaded
  <2>4. Ahead(r, new, M)
    BY <1>1, <1>3, <2>1, <2>2 DEF Ahead
  <2> QED
    BY <2>1, <2>2, <2>3, <2>4
<1> QED
  BY <1>2, <1>3

(* The table below a job at work shows the last load, and so does what it    *)
(* makes of it; gold does whenever nothing is under way.  Bronze always does. *)
ShownInv ==
  /\ \A t \in Layers : \A s \in lake[t] : Genuine(s) /\ s.stamp <= clock
  /\ Shown(lake[etl[1].to], etl, lake, last)
  /\ settled => Shown(lake["gold"], etl, lake, last)
  /\ LET w == etl[job.step]
     IN  job.step # 0 =>
           /\ \A s \in job.batch : Genuine(s) /\ s.stamp = clock
           /\ \A s \in job.next : Genuine(s)
           /\ job.step = 1 => \A t \in Layers : \A s \in lake[t] : s.stamp < clock
           /\ job.step # 1 => Shown(lake[w.from], etl, lake, last)
           /\ job.merged /\ job.step = 1 => Loaded(job.next, etl, lake[w.to], job.batch)
           /\ job.merged /\ job.step # 1 => Shown(job.next, etl, lake, last) /\ Known(job.next, lake)

LEMMA ShownInit == Init => ShownInv
<1> SUFFICES ASSUME Init PROVE ShownInv
  OBVIOUS
<1>1. \A t \in Layers : lake[t] = {}
  BY DEF Init
<1>2. \A T : Shown(T, etl, lake, last)
  BY DEF Init, Shown
<1> QED
  BY <1>1, <1>2 DEF Init, ShownInv, Idle

LEMMA FreshBatch ==
  ASSUME NEW q \in Source
  PROVE  LET r == [q EXCEPT !.stamp = clock + 1] IN Genuine(r) /\ r.stamp = clock + 1
<1>1. PICK i \in Ids, v \in Revs : q = SourceRow(i, v)
  BY DEF Source
<1> QED
  BY <1>1 DEF SourceRow, Genuine

LEMMA ShownNext ==
  ASSUME TypeInv, KeyInv, IsShowingRun(etl), ShownInv, [Next]_vars
  PROVE  ShownInv'
<1> DEFINE k == job.step
           w == etl[k]
           batch == job.batch
           next == job.next
<1>1. IsRun(etl) /\ etl' = etl /\ Len(etl) \in Nat \ {0}
  BY EtlIsRun DEF TypeInv, IsRun, Next, Start, Merge, Commit, Raise, Fail, vars
<1>2. /\ k \in 0..Len(etl) /\ (job.merged => k # 0)
      /\ batch \subseteq Rows /\ next \subseteq Rows
      /\ lake \in [Layers -> SUBSET Rows] /\ clock \in Nat
  BY BoundsAssumption, SourceRowsAreRows DEF TypeInv, TypeOK
<1>3. k # 0 => w.to \in Layers /\ k \in 1..Len(etl)
  BY <1>1, <1>2 DEF IsRun
<1>4. k # 0 /\ k # 1 => /\ Follows(w, etl[k - 1], etl[1]) /\ w.from = etl[k - 1].to
                        /\ w.from \in Layers /\ k - 1 \in 1..Len(etl)
  <2> SUFFICES ASSUME k # 0, k # 1
               PROVE  /\ Follows(w, etl[k - 1], etl[1]) /\ w.from = etl[k - 1].to
                      /\ w.from \in Layers /\ k - 1 \in 1..Len(etl)
    OBVIOUS
  <2>1. k \in 2..Len(etl) /\ k - 1 \in 1..Len(etl)
    BY <1>1, <1>2
  <2>2. Follows(w, etl[k - 1], etl[1])
    BY <2>1 DEF IsShowingRun
  <2> QED
    BY <1>1, <2>1, <2>2 DEF Follows, IsRun
<1>5. \A t \in Layers : \A s \in lake[t] : s.stamp \in Nat
  BY <1>2, BoundsAssumption DEF Rows, RowsOf
<1>6. ASSUME job'.step = 0, UNCHANGED <<lake, last, settled>>, clock' = clock
      PROVE  ShownInv'
  BY <1>1, <1>6 DEF ShownInv
<1>7. CASE Start
  <2>1. PICK r \in Source, s \in Source :
          job' = [Idle EXCEPT !.step = 1,
                    !.batch = {[q EXCEPT !.stamp = clock + 1] : q \in {r, s}}]
    BY <1>7 DEF Start
  <2>2. /\ job'.step = 1 /\ ~job'.merged /\ job'.next = {}
        /\ job'.batch = {[q EXCEPT !.stamp = clock + 1] : q \in {r, s}}
    BY <1>2, <2>1 DEF Idle
  <2>3. UNCHANGED <<lake, last, settled>> /\ clock' = clock + 1
    BY <1>7 DEF Start
  <2>4. \A p \in job'.batch : Genuine(p) /\ p.stamp = clock'
    BY <2>2, <2>3, FreshBatch
  <2>5. \A t \in Layers : \A p \in lake'[t] : Genuine(p) /\ p.stamp <= clock' /\ p.stamp < clock'
    BY <1>2, <1>5, <2>3 DEF ShownInv
  <2> QED
    BY <1>1, <2>2, <2>3, <2>4, <2>5 DEF ShownInv
<1>8. CASE Merge
  <2>1. k # 0 /\ ~job.merged
    BY <1>8 DEF Merge
  <2>2. PICK rows \in Inputs(w, batch) : Writable(rows, w) /\ \E t \in Upserts(lake[w.to], rows, w) :
          job' = [job EXCEPT !.merged = TRUE, !.next = t]
    BY <1>8 DEF Merge
  <2>3. PICK t \in Upserts(lake[w.to], rows, w) :
          job' = [job EXCEPT !.merged = TRUE, !.next = t]
    BY <2>2
  <2>4. job'.step = k /\ job'.batch = batch /\ job'.next = t
    BY <1>2, <2>3 DEF TypeInv, TypeOK
  <2>5. UNCHANGED <<lake, last, settled, clock>>
    BY <1>8 DEF Merge
  <2>6. CASE k = 1
    <3>1. Loaded(t, etl, lake[w.to], batch)
      BY <1>2, <1>3, <2>1, <2>2, <2>6, WriteLoads DEF IsShowingRun, TypeInv
    <3>2. \A s \in t : Genuine(s)
      BY <1>3, <2>1, <3>1, <2>6 DEF Loaded, ShownInv
    <3> QED
      BY <1>1, <2>1, <2>4, <2>5, <2>6, <3>1, <3>2 DEF ShownInv
  <2>7. CASE k # 1
    <3>1. Shown(t, etl, lake, last) /\ Known(t, lake) /\ \A s \in t : Genuine(s)
      <4>1. Keyed(lake[etl[k - 1].to], etl[k - 1])
        BY <1>4, <2>1, <2>7 DEF KeyInv
      <4>2. Shown(lake[w.from], etl, lake, last)
        BY <2>1, <2>7 DEF ShownInv
      <4>3. \A u \in Layers : \A r \in lake[u] : Genuine(r)
        BY DEF ShownInv
      <4> HIDE DEF w, batch
      <4> QED
        BY <1>2, <1>3, <1>4, <2>1, <2>2, <2>3, <2>7, <4>1, <4>2, <4>3, WriteShows DEF TypeInv
    <3> QED
      BY <1>1, <2>1, <2>4, <2>5, <2>7, <3>1 DEF ShownInv
  <2> QED
    BY <2>6, <2>7
<1>9. CASE Commit
  <2>1. job.merged /\ k # 0 /\ lake' = [lake EXCEPT ![w.to] = next] /\ clock' = clock
    BY <1>2, <1>9 DEF Commit
  <2>2. lake'[w.to] = next /\ \A t \in Layers \ {w.to} : lake'[t] = lake[t]
    BY <1>2, <1>3, <2>1
  <2>3. settled' = (Ends(k) \/ (settled /\ k # 1))
    BY <1>9 DEF Commit
  <2>4. /\ Ends(k) => w.to = "gold" /\ job'.step = 0
        /\ ~Ends(k) => /\ job'.step = k + 1 /\ ~job'.merged
                       /\ job'.batch = batch /\ job'.next = {}
                       /\ etl[k + 1].from = w.to /\ k + 1 # 1
    <3>1. CASE Ends(k)
      <4>1. job' = Idle
        BY <1>9, <3>1 DEF Commit
      <4> QED
        BY <1>2, <3>1, <4>1 DEF Ends, IsShowingRun, Idle
    <3>2. CASE ~Ends(k)
      <4>1. job' = [Idle EXCEPT !.step = k + 1, !.batch = batch]
        BY <1>9, <3>2 DEF Commit, NextStep
      <4>2. k + 1 \in 2..Len(etl) /\ k + 1 - 1 = k
        BY <1>1, <1>2, <2>1, <3>2 DEF Ends
      <4>3. \A m \in 2..Len(etl) : etl[m].from = etl[m - 1].to
        BY DEF IsShowingRun, Follows
      <4>4. etl[k + 1].from = w.to
        <5>1. \A m : m = k + 1 => m - 1 = k
          BY <1>2
        <5> HIDE DEF k
        <5> QED
          BY <4>2, <4>3, <5>1
      <4>5. job' = [Idle EXCEPT !.step = k + 1, !.batch = batch]
        BY <1>2, <4>1
      <4>6. k + 1 # 1
        BY <4>2
      <4> HIDE DEF k, w, batch, next
      <4> QED
        BY <3>2, <4>4, <4>5, <4>6 DEF Idle
    <3> QED
      BY <3>1, <3>2
  <2>5. /\ \A s \in batch : Genuine(s) /\ s.stamp = clock
        /\ \A s \in next : Genuine(s)
    BY <2>1 DEF ShownInv
  <2>6. ASSUME \A s \in next : s.stamp <= clock,
               Shown(lake'[etl[1].to], etl, lake', last'),
               Shown(next, etl, lake', last'),
               settled' /\ ~Ends(k) => Shown(lake'["gold"], etl, lake', last')
        PROVE  ShownInv'
    <3>1. \A t \in Layers : \A s \in lake'[t] : Genuine(s) /\ s.stamp <= clock'
      BY <2>1, <2>2, <2>5, <2>6 DEF ShownInv
    <3>2. settled' => Shown(lake'["gold"], etl, lake', last')
      BY <2>2, <2>4, <2>6
    <3>3. CASE Ends(k)
      BY <1>1, <2>4, <2>6, <3>1, <3>2, <3>3 DEF ShownInv
    <3>4. CASE ~Ends(k)
      <4>1. Shown(lake'[etl[k + 1].from], etl, lake', last')
        BY <2>2, <2>4, <2>6, <3>4
      <4> HIDE DEF k, w, batch, next
      <4> QED
        BY <1>1, <2>1, <2>4, <2>5, <2>6, <3>1, <3>2, <3>4, <4>1 DEF ShownInv
    <3> QED
      BY <3>3, <3>4
  <2>7. CASE k = 1
    <3>1. Loaded(next, etl, lake[w.to], batch) /\ Shown(lake[w.to], etl, lake, last)
      BY <2>1, <2>7 DEF ShownInv
    <3>2. \A i \in Ids : LoadedRevs(last'[i], last[i], batch, i)
      <4> SUFFICES ASSUME NEW i \in Ids PROVE LoadedRevs(last'[i], last[i], batch, i)
        OBVIOUS
      <4>1. last'[i] = LET revs == {r.rev : r \in {s \in batch : s.id = i}}
                       IN  IF revs = {} THEN last[i] ELSE revs
        BY <1>9, <2>7 DEF Commit
      <4> QED
        BY <4>1, LastOfBatch
    <3>3. \A t \in Layers : \A s \in lake[t] : s.stamp < clock
      BY <2>7 DEF ShownInv
    <3>4. Shown(next, etl, lake', last')
      <4>1. w.to \in Layers /\ \A s \in batch : s.stamp = clock
        BY <1>3, <2>1, <2>5
      <4> HIDE DEF w, batch, next
      <4> QED
        BY <1>2, <2>1, <3>1, <3>2, <3>3, <4>1, ShownFirst
    <3>5. \A s \in next : s.stamp <= clock
      BY <1>2, <1>3, <1>5, <2>1, <2>5, <3>1, <3>3 DEF Loaded
    <3> QED
      BY <2>2, <2>3, <2>6, <2>7, <3>4, <3>5
  <2>8. CASE k # 1
    <3>1. Shown(next, etl, lake, last) /\ Known(next, lake)
      BY <2>1, <2>8 DEF ShownInv
    <3>2. last' = last
      BY <1>9, <2>8 DEF Commit
    <3>3. \A t \in Layers : Known(lake'[t], lake)
      BY <2>2, <3>1 DEF Known
    <3>4. \A T : Shown(T, etl, lake, last) => Shown(T, etl, lake', last')
      BY <3>2, <3>3, ShownStays
    <3>5. \A s \in next : s.stamp <= clock
      BY <3>1 DEF Known, ShownInv
    <3>6. etl[1].to # w.to /\ etl[1].to \in Layers
      BY <1>1, <1>3, <2>1, <2>8 DEF IsRun
    <3>7. Shown(lake'[etl[1].to], etl, lake', last')
      BY <2>2, <3>4, <3>6 DEF ShownInv
    <3>8. settled' /\ ~Ends(k) => Shown(lake'["gold"], etl, lake', last')
      <4>1. CASE w.to = "gold"
        BY <2>2, <3>1, <3>4, <4>1
      <4>2. CASE w.to # "gold"
        BY <2>2, <2>3, <3>4, <4>2 DEF ShownInv, Layers
      <4> QED
        BY <4>1, <4>2
    <3> QED
      BY <2>6, <3>1, <3>4, <3>5, <3>7, <3>8
  <2> QED
    BY <2>7, <2>8
<1>10. CASE Raise \/ Fail
  BY <1>2, <1>6, <1>10 DEF Raise, Fail, Idle
<1>11. CASE UNCHANGED vars
  BY <1>11 DEF vars, ShownInv
<1> QED
  BY <1>7, <1>8, <1>9, <1>10, <1>11 DEF Next
LEMMA ShownAlways == Spec => [](IsShowingRun(etl) => ShownInv)
<1>1. [Next]_vars => etl' = etl
  BY DEF Next, Start, Merge, Commit, Raise, Fail, vars
<1>2. TypeInv /\ KeyInv /\ (IsShowingRun(etl) => ShownInv) /\ [Next]_vars
        => (IsShowingRun(etl) => ShownInv)'
  <2> SUFFICES ASSUME TypeInv, KeyInv, IsShowingRun(etl) => ShownInv, [Next]_vars,
                      IsShowingRun(etl)'
               PROVE  ShownInv'
    OBVIOUS
  <2>1. IsShowingRun(etl)
    BY <1>1
  <2> QED
    BY <2>1, ShownNext
<1> QED
  BY <1>2, ShownInit, TypeAlways, KeyAlways, PTL DEF Spec

(* Once the last job has ended, gold shows of each id one row, of its last   *)
(* load, in all 14 classes keyed by the business key, for any keys,          *)
(* revisions, number of loads and failures (the run() of the classes of      *)
(* Table_ETLs).                                                              *)
THEOREM GoldIsAtTheLastLoad == Spec => []GoldShowsLastLoad
<1>1. TypeInv /\ KeyInv /\ (IsShowingRun(etl) => ShownInv) => GoldShowsLastLoad
  <2> SUFFICES ASSUME TypeInv, KeyInv, IsShowingRun(etl) => ShownInv,
                      settled, IsOne(Replacing), NEW i \in Ids, last[i] # {}
               PROVE  \E g \in Of(i) : /\ Of(i) = {g}
                                       /\ g.rev \in last[i]
                                       /\ etl[1].pre = "rev" => \A v \in last[i] : v <= g.rev
    BY DEF GoldShowsLastLoad
  <2>1. IsShowingRun(etl) /\ ById(etl[Len(etl)])
    BY ShowingRuns DEF IsOne, IsLastById
  <2>2. Len(etl) \in 1..Len(etl) /\ etl[Len(etl)].to = "gold"
    BY <2>1, EtlIsRun DEF IsShowingRun, IsRun, TypeInv
  <2>3. OnePerId(lake["gold"])
    <3>1. Keyed(lake["gold"], etl[Len(etl)])
      BY <2>2 DEF KeyInv
    <3>2. \A r \in lake["gold"] : Genuine(r)
      BY <2>1 DEF ShownInv, Layers
    <3> QED
      BY <2>1, <3>1, <3>2, KeyedIsOnePerId
  <2>4. PICK g \in lake["gold"] : /\ g.id = i /\ g.rev \in last[i]
                                  /\ etl[1].pre = "rev" => \A v \in last[i] : v <= g.rev
    BY <2>1 DEF ShownInv, Shown
  <2>5. Of(i) = {g}
    BY <2>3, <2>4 DEF Of, OnePerId
  <2> QED
    BY <2>4, <2>5
<1> QED
  BY <1>1, TypeAlways, KeyAlways, ShownAlways, PTL

(* In the five classes whose gold keeps rows of other revisions, the last    *)
(* load of each id is among them, if the messages of different ids do not    *)
(* carry the same evaluation id (the run() of the classes of Table_ETLs).    *)
THEOREM GoldHasTheLastLoad ==
  ASSUME RefsTellIdsApart
  PROVE  Spec => []GoldHoldsLastLoad
<1>1. (IsShowingRun(etl) => ShownInv) => GoldHoldsLastLoad
  <2> SUFFICES ASSUME IsShowingRun(etl) => ShownInv, settled, IsOne(Accumulating),
                      NEW i \in Ids, last[i] # {}
               PROVE  \E g \in Of(i) : g.rev \in last[i]
    BY DEF GoldHoldsLastLoad
  <2>1. IsShowingRun(etl)
    BY ShowingRuns DEF IsOne
  <2>2. \E g \in lake["gold"] : g.id = i /\ g.rev \in last[i]
    BY <2>1 DEF ShownInv, Shown
  <2> QED
    BY <2>2 DEF Of
<1> QED
  BY <1>1, ShownAlways, PTL
-----------------------------------------------------------------------------
(* Every revision of every id in S is in T. *)
Covers(T, S) == \A r \in S : \E g \in T : g.id = r.id /\ g.rev = r.rev

KeepsRevs(w) ==
  /\ {"id", "rev"} \subseteq w.key \cap w.one /\ w.dq = {TRUE, FALSE}
  /\ ~w.exploded /\ ~w.summed

(* A run that takes every revision from bronze to gold *)
IsCoveringRun(s) ==
  /\ s[1].to = "bronze" /\ s[Len(s)].to = "gold" /\ Len(s) # 1
  /\ \A k \in 2..Len(s) : s[k].from = s[k - 1].to /\ KeepsRevs(s[k])

CoverInv ==
  /\ settled => Covers(lake["gold"], lake["bronze"])
  /\ job.step \notin {0, 1} =>
       /\ Covers(lake[etl[job.step].from], lake["bronze"])
       /\ job.merged => Covers(job.next, lake["bronze"])

LEMMA ConditionsCover == IsCoveringRun(Catalog["conditions"])
<1>1. Catalog["conditions"] = <<ConditionsBronze, ConditionsSilver, ConditionsGold>>
  BY DEF Catalog, ConditionsRun
<1>2. ConditionsBronze.to = "bronze"
  BY DEF ConditionsBronze, Bronze, Upsert
<1>3. ConditionsSilver.from = "bronze" /\ ConditionsSilver.to = "silver" /\ KeepsRevs(ConditionsSilver)
  BY DEF ConditionsSilver, Silver, Latest, Upsert, KeepsRevs, Columns
<1>4. ConditionsGold.from = "silver" /\ ConditionsGold.to = "gold" /\ KeepsRevs(ConditionsGold)
  BY DEF ConditionsGold, Gold, Upsert, KeepsRevs, Columns
<1> DEFINE s == <<ConditionsBronze, ConditionsSilver, ConditionsGold>>
<1>5. /\ Len(s) = 3 /\ s[1] = ConditionsBronze /\ s[2] = ConditionsSilver /\ s[3] = ConditionsGold
      /\ \A k \in 2..3 : k = 2 \/ k = 3
  OBVIOUS
<1> HIDE DEF s
<1>6. IsCoveringRun(s)
  BY <1>2, <1>3, <1>4, <1>5 DEF IsCoveringRun
<1> QED
  BY <1>1, <1>6 DEF s

LEMMA WriteCovers ==
  ASSUME TypeOK, NEW w, NEW batch, KeepsRevs(w), w.from \in Layers,
         NEW rows \in Inputs(w, batch), NEW t \in Upserts(lake[w.to], rows, w)
  PROVE  Covers(t, lake[w.from])
<1>1. PICK R \in LatestPer(lake[w.from], w.one, w.by) : rows = {r \in R : r.ok \in w.dq}
  <2>1. \A S : Parts(w, S) = S
    BY DEF Parts, KeepsRevs
  <2>2. w.from # "raw"
    BY DEF Layers
  <2> QED
    BY <2>1, <2>2 DEF Inputs
<1>2. R \subseteq lake[w.from] /\ \A r \in lake[w.from] : \E s \in R : Same(r, s, w.one)
  BY <1>1, LatestIsKeyed
<1>3. rows = R
  <2>1. R \subseteq Rows
    BY <1>2 DEF TypeOK
  <2> QED
    BY <1>1, <2>1 DEF Rows, RowsOf, KeepsRevs
<1>4. Covers(rows, lake[w.from])
  BY <1>2, <1>3 DEF Covers, Same, KeepsRevs
<1>5. PICK best \in LatestPer(rows, Location(w), w.pre) : t = Overwrite(lake[w.to], best, w)
  BY DEF Upserts
<1>6. Covers(best, rows)
  <2>1. \A r \in rows : \E s \in best : Same(r, s, Location(w))
    BY <1>5, LatestIsKeyed
  <2> QED
    BY <2>1 DEF Covers, Same, Location, KeepsRevs
<1>7. best \subseteq t
  BY <1>5 DEF Overwrite
<1> QED
  BY <1>4, <1>6, <1>7 DEF Covers

LEMMA CoverNext ==
  ASSUME TypeInv, IsCoveringRun(etl), CoverInv, [Next]_vars
  PROVE  CoverInv'
<1> DEFINE k == job.step
           w == etl[k]
           next == job.next
<1>1. IsRun(etl) /\ etl' = etl /\ Len(etl) \in Nat \ {0}
  BY EtlIsRun DEF TypeInv, IsRun, Next, Start, Merge, Commit, Raise, Fail, vars
<1>2. /\ k \in 0..Len(etl) /\ (job.merged => k # 0)
      /\ lake \in [Layers -> SUBSET Rows]
  BY DEF TypeInv, TypeOK
<1>3. \A m \in 2..Len(etl) : etl[m].from = etl[m - 1].to /\ KeepsRevs(etl[m]) /\ m - 1 \in 1..Len(etl)
  BY <1>1 DEF IsCoveringRun
<1>4. k \notin {0, 1} => /\ KeepsRevs(w) /\ w.from \in Layers /\ w.to \in Layers \ {"bronze"}
                         /\ Covers(lake[w.from], lake["bronze"])
  <2> SUFFICES ASSUME k \notin {0, 1}
               PROVE  /\ KeepsRevs(w) /\ w.from \in Layers /\ w.to \in Layers \ {"bronze"}
                      /\ Covers(lake[w.from], lake["bronze"])
    OBVIOUS
  <2>1. k \in 2..Len(etl) /\ k \in 1..Len(etl) /\ 1 \in 1..Len(etl)
    BY <1>1, <1>2
  <2>2. w.from \in Layers /\ KeepsRevs(w)
    BY <1>1, <1>3, <2>1 DEF IsRun
  <2>3. w.to \in Layers /\ w.to # "bronze"
    BY <1>1, <2>1 DEF IsRun, IsCoveringRun
  <2> QED
    BY <2>2, <2>3 DEF CoverInv
<1>5. ASSUME job'.step \in {0, 1}, UNCHANGED <<lake, settled>>
      PROVE  CoverInv'
  BY <1>5 DEF CoverInv
<1>6. CASE Start
  BY <1>2, <1>5, <1>6 DEF Start, Idle
<1>7. CASE Merge
  <2>1. PICK rows \in Inputs(w, job.batch) : \E t \in Upserts(lake[w.to], rows, w) :
          job' = [job EXCEPT !.merged = TRUE, !.next = t]
    BY <1>7 DEF Merge
  <2>2. PICK t \in Upserts(lake[w.to], rows, w) :
          job' = [job EXCEPT !.merged = TRUE, !.next = t]
    BY <2>1
  <2>3. job'.step = k /\ job'.next = t
    BY <1>2, <2>2 DEF TypeInv, TypeOK
  <2>4. UNCHANGED <<lake, settled>>
    BY <1>7 DEF Merge
  <2>5. k \notin {0, 1} => Covers(t, lake["bronze"])
    <3> SUFFICES ASSUME k \notin {0, 1} PROVE Covers(t, lake["bronze"])
      OBVIOUS
    <3>1. Covers(t, lake[w.from])
      <4> HIDE DEF w
      <4> QED
        BY <1>4, <2>1, <2>2, WriteCovers DEF TypeInv
    <3> QED
      BY <1>4, <3>1 DEF Covers
  <2> HIDE DEF k, w
  <2> QED
    BY <1>1, <1>4, <2>3, <2>4, <2>5 DEF CoverInv, k, w
<1>8. CASE Commit
  <2>1. job.merged /\ k # 0 /\ lake' = [lake EXCEPT ![w.to] = next]
    BY <1>2, <1>8 DEF Commit
  <2>2. settled' = (Ends(k) \/ (settled /\ k # 1))
    BY <1>8 DEF Commit
  <2>3. w.to \in Layers /\ lake'[w.to] = next /\ \A t \in Layers \ {w.to} : lake'[t] = lake[t]
    BY <1>1, <1>2, <2>1 DEF IsRun
  <2>4. /\ Ends(k) => w.to = "gold" /\ k # 1 /\ job'.step = 0
        /\ ~Ends(k) => /\ job'.step = k + 1 /\ ~job'.merged
                       /\ etl[k + 1].from = w.to
    <3>1. CASE Ends(k)
      <4>1. job' = Idle
        BY <1>8, <3>1 DEF Commit
      <4> QED
        BY <1>2, <3>1, <4>1 DEF Ends, IsCoveringRun, Idle
    <3>2. CASE ~Ends(k)
      <4>1. job' = [Idle EXCEPT !.step = k + 1, !.batch = job.batch]
        BY <1>2, <1>8, <3>2 DEF Commit, NextStep
      <4>2. k + 1 \in 2..Len(etl) /\ \A m : m = k + 1 => m - 1 = k
        BY <1>1, <1>2, <2>1, <3>2 DEF Ends
      <4> HIDE DEF k
      <4>3. etl[k + 1].from = w.to
        BY <1>3, <4>2
      <4> QED
        BY <3>2, <4>1, <4>3 DEF Idle
    <3> QED
      BY <3>1, <3>2
  <2>5. ASSUME Covers(next, lake'["bronze"]),
               settled' /\ ~Ends(k) => Covers(lake'["gold"], lake'["bronze"])
        PROVE  CoverInv'
    <3>1. settled' => Covers(lake'["gold"], lake'["bronze"])
      BY <2>3, <2>4, <2>5
    <3> HIDE DEF k, w, next
    <3> QED
      BY <1>1, <2>3, <2>4, <2>5, <3>1 DEF CoverInv
  <2>6. CASE k = 1
    <3>1. w.to = "bronze" /\ (~settled' \/ Ends(k))
      BY <2>2, <2>6 DEF IsCoveringRun
    <3>2. w.to = "bronze" /\ ~settled'
      BY <2>4, <2>6, <3>1
    <3> QED
      BY <2>3, <2>5, <3>2 DEF Covers
  <2>7. CASE k # 1
    <3>1. Covers(next, lake["bronze"]) /\ lake'["bronze"] = lake["bronze"]
      BY <1>4, <2>1, <2>3, <2>7 DEF CoverInv, Layers
    <3>2. settled' /\ ~Ends(k) => Covers(lake'["gold"], lake'["bronze"])
      <4>1. CASE w.to = "gold"
        BY <2>3, <3>1, <4>1
      <4>2. CASE w.to # "gold"
        BY <2>2, <2>3, <3>1, <4>2 DEF CoverInv, Layers
      <4> QED
        BY <4>1, <4>2
    <3> QED
      BY <2>5, <3>1, <3>2
  <2> QED
    BY <2>6, <2>7
<1>9. CASE Raise \/ Fail
  BY <1>2, <1>5, <1>9 DEF Raise, Fail, Idle
<1>10. CASE UNCHANGED vars
  BY <1>10 DEF vars, CoverInv
<1> QED
  BY <1>6, <1>7, <1>8, <1>9, <1>10 DEF Next

(* Once the last job has ended, gold has every revision of a condition that  *)
(* bronze has: none takes the place of another (ConditionsETL.run).          *)
THEOREM AllConditionsAreInGold == Spec => []ConditionsAccumulate
<1> DEFINE Inv == IsCoveringRun(etl) => CoverInv
<1>1. Init => Inv
  BY DEF Init, CoverInv, Covers, Idle, Layers
<1>2. TypeInv /\ Inv /\ [Next]_vars => Inv'
  <2> SUFFICES ASSUME TypeInv, Inv, [Next]_vars, IsCoveringRun(etl)' PROVE CoverInv'
    OBVIOUS
  <2>1. etl' = etl
    BY DEF Next, Start, Merge, Commit, Raise, Fail, vars
  <2>2. IsCoveringRun(etl)
    BY <2>1
  <2> QED
    BY <2>2, CoverNext
<1>3. Inv => ConditionsAccumulate
  <2> SUFFICES ASSUME Inv, settled, IsOne({"conditions"}), NEW r \in lake["bronze"]
               PROVE  \E g \in Of(r.id) : g.rev = r.rev
    BY DEF ConditionsAccumulate
  <2>1. Covers(lake["gold"], lake["bronze"])
    BY ConditionsCover DEF IsOne, CoverInv
  <2> QED
    BY <2>1 DEF Covers, Of
<1> QED
  BY <1>1, <1>2, <1>3, TypeAlways, PTL DEF Spec
=============================================================================
