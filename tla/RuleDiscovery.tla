--------------------------- MODULE RuleDiscovery ---------------------------
(***************************************************************************)
(* JupyterHub/notebooks/Rule_Discovery.ipynb: an analyst picks an          *)
(* evaluation, sees its alert and the rules that fired, and replays one of *)
(* them over the gold tables.  The replay should give what the rule saw    *)
(* when the transaction was evaluated, on tables loaded much later.        *)
(*                                                                         *)
(* The kernel handles one message of a widget at a time, so each handler   *)
(* is one action.  A choice in the browser arrives as an index into the    *)
(* options that the kernel has by then: any of them may be chosen.         *)
(* A DataFrame keeps to the files its table had when it was loaded.        *)
(*                                                                         *)
(* The warehouse is a record of tables, of which only the columns that     *)
(* decide are kept.  Times are dc_cre_dt_tm, all on one clock.             *)
(***************************************************************************)
EXTENDS Integers, FiniteSets, FiniteSetsExt

CONSTANTS Evaluations,  \* rows of gold/evaluation, listed in the dropdown
          Warehouses,   \* contents that the other tables may have
          Results,      \* the alert of bronze/alerts of each evaluation, as the
                        \* rules and weights of its typologies; {} without one
          Rules,        \* rules of RULE_QUERIES to consider in the widgets
          Recorded,     \* an independent variable as the alert records it
          None,         \* no evaluation, no rule, no value; null
          NaN,          \* not a number: null in a float column of pandas
          MaxLoads,     \* bound: runs of the loading cell after the first
          MaxFaults     \* bound: queries that fail

AllRules == {"030", "044", "045", "002", "016", "017", "003", "004", "076", "001", "091",
             "078", "028", "083", "084"}

Tables == {"pacs002", "pacs008", "configs", "births", "holders"}

(* The columns of an evaluation.  A null amount is one that could not be     *)
(* read; ids may repeat, as gold/evaluation keeps a row per day of an id.    *)
Columns == {"id", "tenant", "tx", "debtor", "creditor", "debtorId", "creditorId", "at",
            "date", "amount"}

ASSUME RulesAssumption == Rules \subseteq AllRules /\ None \notin Rules
ASSUME EvaluationsAssumption ==
  /\ None \notin Evaluations
  /\ \A e \in Evaluations : /\ DOMAIN e = Columns
                            /\ e.at \in Nat /\ e.amount \in Int \cup {None}
                            /\ e.date.year \in Int
ASSUME WarehousesAssumption ==
  \A w \in Warehouses :
    /\ DOMAIN w = Tables
    /\ IsFiniteSet(w.pacs002) /\ \A r \in w.pacs002 : r.at \in Nat
    /\ IsFiniteSet(w.holders)
    /\ \A b \in w.births : b.birth # None => b.birth.year \in Int
ASSUME BoundsAssumption == MaxLoads \in Nat /\ MaxFaults \in Nat
-----------------------------------------------------------------------------
(* The rule queries                                                         *)

Found(n) == [iv |-> n, exit |-> FALSE]

(* Nothing to measure: exit condition .x01, or no window is configured.     *)
(* It is displayed as 0 all the same.                                       *)
Exit == [iv |-> 0, exit |-> TRUE]

(* Confirmed successful transactions of these sides of the evaluation, in   *)
(* its tenant                                                               *)
Success(w, e, sides) ==
  {r \in w.pacs002 : /\ r.status = "ACCC" /\ r.tenant = e.tenant
                     /\ \A s \in sides : r[s] = e[s]}

\* Variants: a filter on the accounts alone, and ones without the time of the alert.
SuccessAnyTenant(w, e, sides) ==
  {r \in w.pacs002 : r.status = "ACCC" /\ \A s \in sides : r[s] = e[s]}
UpToAny(rows, e) == rows
BeforeAny(rows, e) == rows

UpTo(rows, e) == {r \in rows : r.at <= e.at}
Before(rows, e) == {r \in rows : r.at < e.at}

Times(rows) == {r.at : r \in rows}
Count(rows) == Found(Cardinality(rows))
SinceLatest(rows, e) == IF rows = {} THEN Exit ELSE Found(e.at - Max(Times(rows)))

(* get_maxQueryRange: of the newest configuration *)
MaxQueryRange(id, w, tenant) ==
  LET rows == {c \in w.configs : c.rule = id /\ c.tenant = tenant}
  IN  IF rows = {} THEN None
      ELSE (CHOOSE c \in rows : \A d \in rows : d.updated <= c.updated).range

InWindow(id, w, e, side) ==
  LET ms == MaxQueryRange(id, w, e.tenant)
  IN  IF ms = None THEN Exit
      ELSE Count({r \in UpTo(Success(w, e, {side}), e) : r.at + ms >= e.at})

\* Variant: the tenant is forgotten.
Rule030AnyTenant(w, e) == Count(UpTo(SuccessAnyTenant(w, e, {"debtor", "creditor"}), e))
Rule030(w, e) == Count(UpTo(Success(w, e, {"debtor", "creditor"}), e))
Rule044(w, e) == Count(UpTo(Success(w, e, {"debtor"}), e))
Rule045(w, e) == Count(UpTo(Success(w, e, {"creditor"}), e))
Rule002(w, e) == InWindow("002", w, e, "debtor")
Rule016(w, e) == InWindow("016", w, e, "creditor")
Rule017(w, e) == InWindow("017", w, e, "debtor")
Rule003(w, e) == SinceLatest(Before(Success(w, e, {"creditor"}), e), e)
\* Variant: the transaction itself counts as prior activity.
Rule004UpTo(w, e) == SinceLatest(UpTo(Success(w, e, {"debtor"}), e), e)
Rule004(w, e) == SinceLatest(Before(Success(w, e, {"debtor"}), e), e)

(* Between the two latest transactions, the first of which is taken for the *)
(* one that was evaluated                                                   *)
BetweenLatest(rows) ==
  LET newest == CHOOSE r \in rows : \A q \in rows : q.at <= r.at
  IN  IF Cardinality(rows) < 2 THEN Exit
      ELSE Found(newest.at - Max(Times(rows \ {newest})))

Rule076(w, e) == BetweenLatest(UpTo(Success(w, e, {"debtor"}), e))

Rule001(w, e) ==
  LET rows == UpTo(Success(w, e, {"creditor"}), e)
  IN  IF rows = {} THEN Exit ELSE Found(e.at - Min(Times(rows)))

Rule091(w, e) == Found(e.amount)

(* The payment of the evaluation, in gold for the purpose, which is a dash  *)
(* when there is none, and in bronze for the date of birth, which may be    *)
(* null.  Of several rows, the first that is found in the files.  Dates are *)
(* years and days of the year.                                              *)
Payments(rows, e) == {p \in rows : p.tx = e.tx /\ p.tenant = e.tenant}
OneOf(rows) == CHOOSE p \in rows : TRUE

Rule078(w, e) ==
  LET found == Payments(w.pacs008, e)
  IN  Found(IF found = {} THEN None ELSE OneOf(found).purpose)

Rule028(w, e) ==
  LET found == Payments(w.births, e)
      born == OneOf(found).birth
  IN  IF found = {} \/ born = None THEN Exit
      ELSE Found(e.date.year - born.year - (IF e.date.day < born.day THEN 1 ELSE 0))

(* Every row of account_holder counts, also one of the same account *)
Held(w, e, owner) == {h \in w.holders : h.owner = owner /\ h.tenant = e.tenant}
Rule083(w, e) == Count(Held(w, e, e.debtorId))
Rule084(w, e) == Count(Held(w, e, e.creditorId))

(* RULE_QUERIES *)
Replay(id, w, e) ==
  CASE id = "030" -> Rule030(w, e) [] id = "044" -> Rule044(w, e)
    [] id = "045" -> Rule045(w, e) [] id = "002" -> Rule002(w, e)
    [] id = "016" -> Rule016(w, e) [] id = "017" -> Rule017(w, e)
    [] id = "003" -> Rule003(w, e) [] id = "004" -> Rule004(w, e)
    [] id = "076" -> Rule076(w, e) [] id = "001" -> Rule001(w, e)
    [] id = "091" -> Rule091(w, e) [] id = "078" -> Rule078(w, e)
    [] id = "028" -> Rule028(w, e) [] id = "083" -> Rule083(w, e)
    [] id = "084" -> Rule084(w, e)

Windowed == {"002", "016", "017"}

(* extract_alert_inputs: an amount that is None is taken for 0, but pandas  *)
(* has NaN in its place, which is as good as a number.                      *)
Inputs(e, null) == [e EXCEPT !.amount = IF e.amount = None THEN null ELSE e.amount]
OfPandas(e) == Inputs(e, NaN)
OfSpark(e) == Inputs(e, 0)
-----------------------------------------------------------------------------
VARIABLES
  loaded,   \* the tables as the loading cell found them
  alert,    \* the evaluation selected in the alert dropdown, or None
  offered,  \* the rules in the rule dropdown
  rule,     \* the one selected, or None
  meta,     \* the evaluation whose metadata, typologies and rules are displayed
  table,    \* independent variables displayed for its rules
  disc,     \* the discovery displayed, or None
  steady,   \* history: table was made from loaded, and nothing has failed since
  loads, faults  \* counters of the bounds above

shown == <<meta, table, disc>>
vars == <<loaded, alert, offered, rule, shown, steady, loads, faults>>

Nothing == [r \in {} |-> 0]

Cleared ==
  /\ alert' = None /\ offered' = {} /\ rule' = None
  /\ meta' = None /\ table' = Nothing /\ disc' = None

Init ==
  /\ loaded \in Warehouses
  /\ alert = None /\ offered = {} /\ rule = None
  /\ meta = None /\ table = Nothing /\ disc = None
  /\ steady = FALSE
  /\ loads = 0 /\ faults = 0

(* A later content of the warehouse: a row of pacs002 may have been revised *)
Follows(w, v) ==
  /\ \A r \in v.pacs002 : \E q \in w.pacs002 : q.tx = r.tx /\ q.tenant = r.tenant
  /\ \A t \in DOMAIN v \ {"pacs002"} : v[t] \subseteq w[t]

(* The loading cell is run again and reads the tables in this order; what   *)
(* fails to load stays as it was.  So does what is displayed.               *)
LoadOrder == <<"pacs002", "pacs008", "configs", "births", "holders">>

Load(w, n) ==
  /\ loads < MaxLoads
  /\ Follows(w, loaded)
  /\ loads' = loads + 1
  /\ loaded' = [t \in DOMAIN w |->
                  IF \E i \in 1..n : LoadOrder[i] = t THEN w[t] ELSE loaded[t]]
  /\ steady' = FALSE
  /\ UNCHANGED <<alert, offered, rule, shown, faults>>

(* The cell of the widgets is run again *)
Render ==
  /\ Cleared
  /\ steady' = FALSE
  /\ UNCHANGED <<loaded, loads, faults>>
-----------------------------------------------------------------------------
(* extract_rule_results and on_alert_selected *)
RulesOf(results) == {r.rule : r \in results}
Weighted(results) == {r.rule : r \in {q \in results : q.weight > 0}} \cap Rules

\* Variant: the value that the alert records, although the query is known.
TableValueRecorded(id, w, e) == Recorded

(* The table is made from the row of eval_df, a pandas frame, in which the  *)
(* time of the evaluation is a string: the windowed queries raise once they *)
(* have a range to subtract.                                                *)
TableValue(id, w, e) ==
  IF id \notin Rules \/ (id \in Windowed /\ MaxQueryRange(id, w, e.tenant) # None)
  THEN Recorded ELSE Replay(id, w, OfPandas(e)).iv

(* failing: rules whose query fails, in which case the recorded value is    *)
(* displayed; gone: the alert could not be read, which looks like an        *)
(* evaluation without an alert.                                             *)
Display(e, failing, gone) ==
  LET results == IF gone THEN {} ELSE Results[e]
      fired == Weighted(results)
  IN  /\ alert' = e /\ meta' = e
      /\ table' = [r \in RulesOf(results) |->
                     IF r \in failing THEN Recorded ELSE TableValue(r, loaded, e)]
      /\ offered' = IF fired = {} THEN Rules ELSE fired
      /\ rule' = None /\ disc' = None

\* Variant: the discovery is not cleared.
SelectKeepsDiscovery(e) ==
  /\ e # alert
  /\ alert' = e /\ meta' = e /\ rule' = None /\ disc' = disc
  /\ table' = [r \in RulesOf(Results[e]) |-> TableValue(r, loaded, e)]
  /\ offered' = Rules /\ steady' = TRUE
  /\ UNCHANGED <<loaded, loads, faults>>

Select(e) ==
  /\ e # alert
  /\ Display(e, {}, FALSE)
  /\ steady' = TRUE
  /\ UNCHANGED <<loaded, loads, faults>>

SelectFails(e) ==
  /\ e # alert
  /\ faults < MaxFaults
  /\ \/ Display(e, {}, TRUE)
     \/ \E r \in Rules : Display(e, {r}, FALSE)
  /\ faults' = faults + 1
  /\ steady' = FALSE
  /\ UNCHANGED <<loaded, loads>>

(* A text in the filter gives the dropdown new options, and the first of    *)
(* them, which is no alert, is selected; so does the analyst.               *)
Deselect ==
  /\ alert # None
  /\ Cleared
  /\ steady' = FALSE
  /\ UNCHANGED <<loaded, loads, faults>>

ChooseRule(r) ==
  /\ r # rule
  /\ rule' = r
  /\ UNCHANGED <<loaded, alert, offered, shown, steady, loads, faults>>

(* on_run_clicked *)
Ready == alert # None /\ rule # None

(* display_rule_discovery, from a row of the DataFrame *)
Discovery(id, row) == [of |-> row, rule |-> id, iv |-> Replay(id, loaded, OfSpark(row)).iv]

(* The row is fetched again, by its id alone and the first that comes *)
Run ==
  /\ IF Ready THEN \E row \in {e \in Evaluations : e.id = alert.id} :
                     disc' = Discovery(rule, row)
     ELSE disc' = None
  /\ UNCHANGED <<loaded, alert, offered, rule, meta, table, steady, loads, faults>>

(* The query raises, and only an error is displayed *)
RunFails ==
  /\ Ready
  /\ faults < MaxFaults
  /\ faults' = faults + 1
  /\ disc' = None
  /\ UNCHANGED <<loaded, alert, offered, rule, meta, table, steady, loads>>

Next ==
  \/ \E w \in Warehouses, n \in 1..5 : Load(w, n)
  \/ Render
  \/ \E e \in Evaluations : Select(e) \/ SelectFails(e)
  \/ Deselect
  \/ \E r \in offered \cup {None} : ChooseRule(r)
  \/ Run \/ RunFails

Spec == Init /\ [][Next]_vars
-----------------------------------------------------------------------------
(* Correctness *)

(* What is selected was offered, and every independent variable displayed   *)
(* is one: no gap and no count is ever negative, whatever was loaded after  *)
(* the transaction.  The age of rule 028 and the amount of rule 091 are     *)
(* whatever the documents say.                                              *)
Purposes == UNION {{p.purpose : p \in w.pacs008} : w \in Warehouses}
Measured(id) == IF id \in {"028", "091"} THEN Int \cup {NaN} ELSE Nat
Values(id) == Measured(id) \cup Purposes \cup {Recorded, None}

TypeOK ==
  /\ alert \in Evaluations \cup {None} /\ meta \in Evaluations \cup {None}
  /\ offered \subseteq Rules /\ rule \in offered \cup {None}
  /\ \A r \in DOMAIN table : table[r] \in Values(r)
  /\ disc = None \/ disc.iv \in Values(disc.rule)
  /\ steady \in BOOLEAN /\ loads \in 0..MaxLoads /\ faults \in 0..MaxFaults

(* A discovery is displayed only below the metadata of the alert it is      *)
(* about, and only of a rule that could be chosen for that alert: selecting *)
(* another one, or filtering the list, clears it (disc_output).             *)
DiscoveryFitsAlert ==
  disc # None =>
    alert # None /\ disc.of.id = alert.id /\ meta = alert /\ disc.rule \in offered

(* The analyst sees one value of a rule twice: in the table of rules, made  *)
(* from a row of pandas, and in the discovery, made from a row of Spark     *)
(* that is fetched again.  Unless something failed or was loaded in between *)
(* they agree, but for windowed rules, for the amount of an evaluation that *)
(* has none, and for an evaluation with several rows (extract_alert_inputs, *)
(* on_alert_selected, on_run_clicked).                                      *)
TableMatchesDiscovery ==
  steady /\ disc # None /\ disc.rule \in DOMAIN table \ Windowed /\ disc.of = alert
         /\ (disc.rule = "091" => alert.amount # None)
    => table[disc.rule] = disc.iv

(* What arrives after the evaluated transaction does not disturb the replay *)
(* of a rule that reads pacs002 up to the alert: loading it again gives the *)
(* same values, as the spec of each rule asks ("up to the alert date").     *)
(* Rules 083 and 084 have no such bound.                                    *)
Past(w, e) == {r \in w.pacs002 : r.at <= e.at}

SameUpTo(w, v, e) ==
  /\ Past(w, e) = Past(v, e)
  /\ w.pacs008 = v.pacs008 /\ w.births = v.births /\ w.configs = v.configs

OldAlertsKeepTheirReplay ==
  [][\A e \in Evaluations : SameUpTo(loaded, loaded', e) =>
       \A id \in AllRules \ {"083", "084"} : Replay(id, loaded', e) = Replay(id, loaded, e)]_vars

(* Rules that measure the same history from different angles agree on it:   *)
(* transactions of a pair are among those of its debtor and of its          *)
(* creditor, those of a window among those of a lifetime, a creditor is as  *)
(* old as its oldest transaction or older than its latest, and has an age   *)
(* exactly if it has transactions.                                          *)
RulesAgree ==
  \A e \in Evaluations :
    LET iv(id) == Replay(id, loaded, e).iv
        exit(id) == Replay(id, loaded, e).exit
    IN  /\ iv("030") <= iv("044") /\ iv("030") <= iv("045")
        /\ iv("002") <= iv("044") /\ iv("017") <= iv("044") /\ iv("016") <= iv("045")
        /\ iv("003") <= iv("001")
        /\ exit("001") <=> iv("045") = 0

(* The note of Rule-004 that it is similar to Rule-076, made exact: if the  *)
(* evaluated transaction was successful and is the only one of its debtor   *)
(* at its time, both rules give the same.                                   *)
OnlyOneAtItsTime(w, e) ==
  LET now == {r \in Success(w, e, {"debtor"}) : r.at = e.at}
  IN  \E r \in now : r.tx = e.tx /\ now = {r}

DebtorGapsAgree ==
  \A e \in Evaluations :
    OnlyOneAtItsTime(loaded, e) => Rule076(loaded, e) = Rule004(loaded, e)
=============================================================================
