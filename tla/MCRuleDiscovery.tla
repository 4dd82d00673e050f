-------------------------- MODULE MCRuleDiscovery --------------------------
(***************************************************************************)
(* RuleDiscovery instantiated for TLC: two evaluations of one debtor, one  *)
(* of them with two rows, the other without an amount, and four contents   *)
(* of the warehouse, each of which may follow the ones before it.          *)
(***************************************************************************)
EXTENDS RuleDiscovery

CONSTANTS Peer, Bill    \* purposes

Row(tx, tenant, debtor, creditor, status, at) ==
  [tx |-> tx, tenant |-> tenant, debtor |-> debtor, creditor |-> creditor,
   status |-> status, at |-> at]

Evaluation(id, tx, creditor, at) ==
  [id |-> id, tenant |-> "t1", tx |-> tx, debtor |-> "d", creditor |-> creditor,
   debtorId |-> "D", creditorId |-> "C", at |-> at,
   date |-> [year |-> 2025, day |-> 100 + at], amount |-> 10 * at]

First == Evaluation("e1", "x2", "c", 4)
Again == [First EXCEPT !.at = 5, !.amount = 41]
Second == [Evaluation("e2", "x5", "k", 6) EXCEPT !.amount = None]
MCEvaluations == {First, Again, Second}

(* A rule of two typologies counts once, with its greatest weight; one      *)
(* weighs nothing, and one has no query.                                    *)
Result(id, weight) == [rule |-> id, weight |-> weight]
MCResults ==
  [e \in MCEvaluations |->
     IF e.id = "e1" THEN {Result("044", 100), Result("076", 200), Result("004", 0),
                          Result("002", 100), Result("006", 100)}
     ELSE {Result("091", 100), Result("028", 100)}]

(* x1 and x2 are in the past of both evaluations, x3 is another tenant's    *)
(* of the same accounts, and x4 comes at the time of x2.                    *)
Early == {Row("x1", "t1", "d", "c", "ACCC", 1), Row("x2", "t1", "d", "c", "ACCC", 4),
         Row("x3", "t2", "d", "c", "ACCC", 2)}
Twin == Row("x4", "t1", "d", "k", "ACCC", 4)
Later == {Row("x5", "t1", "d", "k", "ACCC", 6), Row("x6", "t1", "k", "c", "ACCC", 7)}

(* A payment that was rejected, and accepted when its row was revised *)
Rejected == Row("x7", "t1", "d", "c", "RJCT", 3)
Accepted == [Rejected EXCEPT !.status = "ACCC"]

Config(id, updated, range) ==
  [rule |-> id, tenant |-> "t1", updated |-> updated, range |-> range]
Holder(account, created) ==
  [owner |-> "D", tenant |-> "t1", account |-> account, created |-> created]

Payment(tx, purpose) == [tx |-> tx, tenant |-> "t1", purpose |-> purpose]
Born(tx, birth) == [tx |-> tx, tenant |-> "t1", birth |-> birth]

Warehouse(rows, configs, holders) ==
  [pacs002 |-> rows,
   pacs008 |-> {Payment("x2", Peer), Payment("x5", Bill)},
   configs |-> configs,
   births |-> {Born("x2", [year |-> 1990, day |-> 105]), Born("x5", None),
               Born("x5", [year |-> 2030, day |-> 1])},
   holders |-> holders]

MCWarehouses ==
  LET old == {Config("002", 1, 1)}
      new == old \cup {Config("002", 2, 3), Config("016", 1, 2), Config("017", 1, None)}
      one == {Holder("d", 1)}
      both == one \cup {Holder("d", 2), Holder("k", 2)}
  IN  {Warehouse(Early \cup {Rejected}, {}, one),
       Warehouse(Early \cup {Rejected}, old, one),
       Warehouse(Early \cup {Rejected} \cup Later, old, both),
       Warehouse(Early \cup {Accepted, Twin} \cup Later, new, both)}
=============================================================================
