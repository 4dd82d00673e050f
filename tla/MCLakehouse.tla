---------------------------- MODULE MCLakehouse ----------------------------
(***************************************************************************)
(* Lakehouse instantiated for TLC: the classes that views read, delivered  *)
(* as the NiFi flow does, under aliases, and by path alone.                *)
(***************************************************************************)
EXTENDS Lakehouse, TLC

(* Spelled by a client or as a path segment: what _normalize_table_name makes of it *)
Spellings ==
  [s \in {"", "alerts", "cases", "tasks", "transaction", "transactions", "pacs008",
          "pacs002", "condition", "typology", "network_map", "rule", "pain001", "screening",
          "customers", "bucket", "enrichment_screening", "file"} |-> s]
  @@ "Network-Map" :> "network_map" @@ "raw/Alerts/" :> "alerts"

(* UpdateAttribute and ReplaceText of the flow: the table by name, and its path *)
Sent(table, kind) ==
  [table |-> table, db |-> "", key |-> <<"file">>, raw |-> <<"bucket", table, "file">>,
   kind |-> kind]
(* the generic branch of the flow, for tables found in the catalog of a database *)
Generic(db, table) ==
  [table |-> table, db |-> db, key |-> <<"file">>,
   raw |-> <<"bucket", "enrichment_screening", "file">>, kind |-> table]
ByPath(raw, kind) == [table |-> "", db |-> "", key |-> <<>>, raw |-> raw, kind |-> kind]

FlowTables ==
  {Sent("alerts", "alert"), Sent("cases", "case"), Sent("tasks", "task"),
   Sent("transaction", "transaction"), Sent("pacs008", "pacs008"),
   Sent("pacs002", "pacs002"), Sent("condition", "condition"),
   Sent("typology", "typology"), Sent("network_map", "network_map"),
   Sent("rule", "rule"), Sent("pain001", "pain001")}

Requests ==
  FlowTables \cup
  {Generic("enrichment", "screening"), Generic("enrichment", "customers"),
   Generic("archive", "customers"), Sent("raw/Alerts/", "alert"),
   ByPath(<<"bucket", "Network-Map", "file">>, "network_map"),
   ByPath(<<"alerts", "cases", "file">>, "case")}

ViewClasses ==
  {"alerts", "cases", "tasks", "transactions", "pacs008", "pacs002", "conditions",
   "typologies", "network_map", "rules"}
AllButOne == {ViewClasses \ {c} : c \in ViewClasses}
Everything == DOMAIN Catalog
Full == {ViewClasses}
Some == {{}, ViewClasses, Everything} \cup AllButOne
=============================================================================
