------------------------ MODULE RuleDiscoveryProofs ------------------------
(***************************************************************************)
(* Proofs about RuleDiscovery, for any evaluations, warehouses and rules.  *)
(* What the queries of two rules have in common is reduced to set          *)
(* inclusions; a latest transaction exists because those considered are    *)
(* bounded by the time of the alert, which turns it into a least natural   *)
(* number, the only induction needed (well-foundedness of Nat).            *)
(***************************************************************************)
EXTENDS RuleDiscovery, FiniteSetTheorems, WellFoundedInduction, TLAPS

(* The displayed discovery is the part of the state that the handlers of    *)
(* the widgets keep together.                                               *)
DiscoveryInv ==
  /\ meta = alert
  /\ rule \in offered \cup {None}
  /\ DiscoveryFitsAlert

LEMMA DiscoveryInit == Init => DiscoveryInv
BY DEF Init, DiscoveryInv, DiscoveryFitsAlert

LEMMA ClearedFits == Cleared => DiscoveryInv'
BY DEF Cleared, DiscoveryInv, DiscoveryFitsAlert

LEMMA DisplayFits ==
  ASSUME NEW e, NEW failing, NEW gone, Display(e, failing, gone)
  PROVE  DiscoveryInv'
BY DEF Display, DiscoveryInv, DiscoveryFitsAlert

LEMMA DiscoveryStep == DiscoveryInv /\ [Next]_vars => DiscoveryInv'
<1> SUFFICES ASSUME DiscoveryInv, [Next]_vars PROVE DiscoveryInv'
  OBVIOUS
<1>1. ASSUME NEW w \in Warehouses, NEW n \in 1..5, Load(w, n) PROVE DiscoveryInv'
  BY <1>1 DEF Load, shown, DiscoveryInv, DiscoveryFitsAlert
<1>2. CASE Render
  BY <1>2, ClearedFits DEF Render
<1>3. ASSUME NEW e \in Evaluations, Select(e) PROVE DiscoveryInv'
  BY <1>3, DisplayFits DEF Select
<1>4. ASSUME NEW e \in Evaluations, SelectFails(e) PROVE DiscoveryInv'
  BY <1>4, DisplayFits DEF SelectFails
<1>5. CASE Deselect
  BY <1>5, ClearedFits DEF Deselect
<1>6. ASSUME NEW r \in offered \cup {None}, ChooseRule(r) PROVE DiscoveryInv'
  BY <1>6 DEF ChooseRule, shown, DiscoveryInv, DiscoveryFitsAlert
<1>7. CASE Run
  <2>1. CASE Ready
    <3>1. PICK row : row.id = alert.id /\ disc' = Discovery(rule, row)
      BY <1>7, <2>1 DEF Run
    <3>2. disc'.of = row /\ disc'.rule = rule
      BY <3>1 DEF Discovery
    <3>3. rule \in offered /\ meta = alert /\ alert # None
      BY <2>1 DEF Ready, DiscoveryInv
    <3> QED
      BY <1>7, <3>1, <3>2, <3>3 DEF Run, DiscoveryInv, DiscoveryFitsAlert
  <2>2. CASE ~Ready
    BY <1>7, <2>2 DEF Run, DiscoveryInv, DiscoveryFitsAlert
  <2> QED
    BY <2>1, <2>2
<1>8. CASE RunFails
  BY <1>8 DEF RunFails, DiscoveryInv, DiscoveryFitsAlert
<1>9. CASE UNCHANGED vars
  BY <1>9 DEF vars, shown, DiscoveryInv, DiscoveryFitsAlert
<1> QED
  BY <1>1, <1>2, <1>3, <1>4, <1>5, <1>6, <1>7, <1>8, <1>9 DEF Next

(* A discovery is never displayed below another alert than its own          *)
(* (on_alert_selected clears disc_output before anything else).             *)
THEOREM DiscoveryIsOfItsAlert == Spec => []DiscoveryFitsAlert
<1>1. DiscoveryInv => DiscoveryFitsAlert
  BY DEF DiscoveryInv
<1> QED
  BY <1>1, DiscoveryInit, DiscoveryStep, PTL DEF Spec
-----------------------------------------------------------------------------
(* Each table loaded is that of some content of the warehouse, though not   *)
(* all of the same.                                                         *)
LoadedInv == DOMAIN loaded = Tables /\ \A t \in Tables : \E w \in Warehouses : loaded[t] = w[t]

LEMMA LoadedInit == Init => LoadedInv
BY WarehousesAssumption DEF Init, LoadedInv

LEMMA LoadedStep == LoadedInv /\ [Next]_vars => LoadedInv'
<1> SUFFICES ASSUME LoadedInv, [Next]_vars PROVE LoadedInv'
  OBVIOUS
<1>1. ASSUME NEW w \in Warehouses, NEW n \in 1..5, Load(w, n) PROVE LoadedInv'
  <2>1. DOMAIN w = Tables
    BY WarehousesAssumption
  <2>2. DOMAIN loaded' = Tables
    BY <1>1, <2>1 DEF Load
  <2>3. ASSUME NEW t \in Tables PROVE loaded'[t] = w[t] \/ loaded'[t] = loaded[t]
    BY <1>1, <2>1 DEF Load
  <2> QED
    BY <2>2, <2>3 DEF LoadedInv
<1>2. CASE UNCHANGED loaded
  BY <1>2 DEF LoadedInv
<1> QED
  BY <1>1, <1>2 DEF Next, Render, Select, SelectFails, Deselect, ChooseRule, Run, RunFails, vars

LEMMA AlwaysLoaded == Spec => []LoadedInv
BY LoadedInit, LoadedStep, PTL DEF Spec

(* What the proofs about the queries need of the tables *)
Sound(w) == IsFiniteSet(w.pacs002) /\ \A r \in w.pacs002 : r.at \in Nat

LEMMA LoadedIsSound == LoadedInv => Sound(loaded)
<1> SUFFICES ASSUME LoadedInv PROVE Sound(loaded)
  OBVIOUS
<1>1. PICK w \in Warehouses : loaded["pacs002"] = w["pacs002"]
  BY DEF LoadedInv, Tables
<1> QED
  BY <1>1, WarehousesAssumption DEF Sound
-----------------------------------------------------------------------------
(* Queries over the same past give the same *)
LEMMA SamePast ==
  ASSUME NEW e \in Evaluations, NEW w, NEW v, Sound(w), Sound(v), Past(w, e) = Past(v, e), NEW S
  PROVE  /\ UpTo(Success(w, e, S), e) = UpTo(Success(v, e, S), e)
         /\ Before(Success(w, e, S), e) = Before(Success(v, e, S), e)
<1>1. ASSUME NEW x, Sound(x)
      PROVE  /\ UpTo(Success(x, e, S), e) =
                  {r \in Past(x, e) : r.status = "ACCC" /\ r.tenant = e.tenant /\ \A s \in S : r[s] = e[s]}
             /\ Before(Success(x, e, S), e) =
                  {r \in Past(x, e) : r.at < e.at /\ r.status = "ACCC" /\ r.tenant = e.tenant
                                      /\ \A s \in S : r[s] = e[s]}
  BY <1>1, EvaluationsAssumption DEF UpTo, Before, Success, Past, Sound
<1> QED
  BY <1>1

LEMMA SameReplay ==
  ASSUME NEW e \in Evaluations, NEW w, NEW v, Sound(w), Sound(v), SameUpTo(w, v, e),
         NEW id \in AllRules \ {"083", "084"}
  PROVE  Replay(id, w, e) = Replay(id, v, e)
<1>1. \A S : /\ UpTo(Success(w, e, S), e) = UpTo(Success(v, e, S), e)
             /\ Before(Success(w, e, S), e) = Before(Success(v, e, S), e)
  BY SamePast DEF SameUpTo
<1>2. \A i : MaxQueryRange(i, w, e.tenant) = MaxQueryRange(i, v, e.tenant)
  BY DEF MaxQueryRange, SameUpTo
<1>3. \A i, side : InWindow(i, w, e, side) = InWindow(i, v, e, side)
  <2> TAKE i, side
  <2>1. UpTo(Success(w, e, {side}), e) = UpTo(Success(v, e, {side}), e)
    BY <1>1
  <2>2. MaxQueryRange(i, w, e.tenant) = MaxQueryRange(i, v, e.tenant)
    BY <1>2
  <2> QED
    BY ONLY <2>1, <2>2, Zenon DEF InWindow
<1>4. /\ Rule030(w, e) = Rule030(v, e) /\ Rule044(w, e) = Rule044(v, e)
      /\ Rule045(w, e) = Rule045(v, e)
  BY <1>1 DEF Rule030, Rule044, Rule045
<1>5. /\ Rule002(w, e) = Rule002(v, e) /\ Rule016(w, e) = Rule016(v, e)
      /\ Rule017(w, e) = Rule017(v, e)
  BY <1>3 DEF Rule002, Rule016, Rule017
<1>6. /\ Rule003(w, e) = Rule003(v, e) /\ Rule004(w, e) = Rule004(v, e)
  BY <1>1 DEF Rule003, Rule004
<1>7. /\ Rule076(w, e) = Rule076(v, e) /\ Rule001(w, e) = Rule001(v, e)
  <2>1. /\ UpTo(Success(w, e, {"debtor"}), e) = UpTo(Success(v, e, {"debtor"}), e)
        /\ UpTo(Success(w, e, {"creditor"}), e) = UpTo(Success(v, e, {"creditor"}), e)
    BY <1>1
  <2>2. Rule076(w, e) = Rule076(v, e)
    BY ONLY <2>1, Zenon DEF Rule076
  <2>3. Rule001(w, e) = Rule001(v, e)
    BY ONLY <2>1, Zenon DEF Rule001
  <2> QED
    BY <2>2, <2>3
<1>8. /\ Rule091(w, e) = Rule091(v, e) /\ Rule078(w, e) = Rule078(v, e)
      /\ Rule028(w, e) = Rule028(v, e)
  BY DEF Rule091, Rule078, Rule028, Payments, OneOf, SameUpTo
<1> QED
  BY <1>4, <1>5, <1>6, <1>7, <1>8 DEF Replay, AllRules

(* What is loaded later about a later time changes no replay but those of   *)
(* Rules 083 and 084.                                                       *)
THEOREM ReplayIsStable == Spec => OldAlertsKeepTheirReplay
<1> DEFINE Stable == \A e \in Evaluations : SameUpTo(loaded, loaded', e) =>
             \A id \in AllRules \ {"083", "084"} : Replay(id, loaded', e) = Replay(id, loaded, e)
<1>1. Sound(loaded) /\ Sound(loaded)' => [Stable]_vars
  <2> SUFFICES ASSUME Sound(loaded), Sound(loaded)', NEW e \in Evaluations,
                      SameUpTo(loaded, loaded', e), NEW id \in AllRules \ {"083", "084"}
               PROVE  Replay(id, loaded', e) = Replay(id, loaded, e)
    OBVIOUS
  <2>1. Sound(loaded')
    BY DEF Sound
  <2> QED
    BY <2>1, SameReplay
<1> QED
  BY <1>1, AlwaysLoaded, LoadedIsSound, PTL DEF OldAlertsKeepTheirReplay
-----------------------------------------------------------------------------
(* What the queries count is finite, and more sides select less *)
LEMMA Counted ==
  ASSUME NEW w, Sound(w), NEW e \in Evaluations, NEW S
  PROVE  /\ IsFiniteSet(UpTo(Success(w, e, S), e))
         /\ IsFiniteSet(Before(Success(w, e, S), e))
         /\ Cardinality(UpTo(Success(w, e, S), e)) \in Nat
<1>1. UpTo(Success(w, e, S), e) \in SUBSET w.pacs002 /\ Before(Success(w, e, S), e) \in SUBSET w.pacs002
  BY DEF UpTo, Before, Success
<1> QED
  BY <1>1, FS_Subset, FS_CardinalityType DEF Sound

LEMMA FewerThan ==
  ASSUME NEW w, Sound(w), NEW e \in Evaluations, NEW S, NEW T, S \subseteq T
  PROVE  Cardinality(UpTo(Success(w, e, T), e)) <= Cardinality(UpTo(Success(w, e, S), e))
<1>1. UpTo(Success(w, e, T), e) \in SUBSET UpTo(Success(w, e, S), e)
  BY DEF UpTo, Success
<1> QED
  BY <1>1, Counted, FS_Subset

LEMMA WindowCountsFewer ==
  ASSUME NEW w, Sound(w), NEW e \in Evaluations, NEW id, NEW side
  PROVE  InWindow(id, w, e, side).iv <= Cardinality(UpTo(Success(w, e, {side}), e))
<1> DEFINE rows == UpTo(Success(w, e, {side}), e)
           ms == MaxQueryRange(id, w, e.tenant)
           inside == {r \in rows : r.at + ms >= e.at}
<1>1. IsFiniteSet(rows) /\ Cardinality(rows) \in Nat
  BY Counted
<1>2. Cardinality(inside) <= Cardinality(rows)
  <2>1. inside \in SUBSET rows
    OBVIOUS
  <2> HIDE DEF rows, inside
  <2> QED
    BY <1>1, <2>1, FS_Subset
<1>3. InWindow(id, w, e, side) = IF ms = None THEN Exit ELSE Count(inside)
  BY DEF InWindow
<1>4. Exit.iv = 0 /\ Count(inside).iv = Cardinality(inside)
  BY DEF Exit, Count, Found
<1> HIDE DEF rows, ms, inside
<1>5. InWindow(id, w, e, side).iv <= Cardinality(rows)
  <2>1. CASE ms = None
    BY <1>1, <1>3, <1>4, <2>1
  <2>2. CASE ms # None
    BY <1>2, <1>3, <1>4, <2>2
  <2> QED
    BY <2>1, <2>2
<1> QED
  BY <1>5 DEF rows

(* Least and greatest elements, without induction over sets *)
LEMMA Least ==
  ASSUME NEW T, T \subseteq Nat, T # {}
  PROVE  \E x \in T : \A y \in T : x <= y
<1> DEFINE R == {ss \in Nat \X Nat : ss[1] < ss[2]}
<1>1. IsWellFoundedOn(R, Nat)
  BY NatLessThanWellFounded DEF OpToRel
<1>2. \A x, y \in Nat : <<y, x>> \notin R => x <= y
  OBVIOUS
<1> HIDE DEF R
<1>3. PICK x \in T : \A y \in T : <<y, x>> \notin R
  BY <1>1, WFMin
<1> QED
  BY <1>2, <1>3

LEMMA MinIsLeast ==
  ASSUME NEW T, T \subseteq Nat, T # {}
  PROVE  Min(T) \in T /\ \A y \in T : Min(T) <= y
BY Least DEF Min

LEMMA MaxOfBounded ==
  ASSUME NEW b \in Nat, NEW T, T \subseteq 0..b, T # {}
  PROVE  Max(T) \in T /\ \A y \in T : y <= Max(T)
<1> DEFINE D == {b - x : x \in T}
<1>1. D \subseteq Nat /\ D # {}
  <2>1. \A x \in T : b - x \in Nat
    OBVIOUS
  <2>2. PICK x \in T : TRUE
    OBVIOUS
  <2> QED
    BY <2>1, <2>2
<1>2. PICK d \in D : \A y \in D : d <= y
  BY <1>1, Least
<1>3. PICK x \in T : d = b - x
  OBVIOUS
<1>4. \A y \in T : x >= y
  BY <1>2, <1>3
<1>5. \E m \in T : \A y \in T : m >= y
  BY <1>4
<1> HIDE DEF D
<1> QED
  BY <1>5 DEF Max
-----------------------------------------------------------------------------
(* A creditor is not older than its latest transaction is long ago *)
LEMMA AgeCoversGap ==
  ASSUME NEW w, Sound(w), NEW e \in Evaluations
  PROVE  Rule003(w, e).iv <= Rule001(w, e).iv
<1> DEFINE S == Success(w, e, {"creditor"})
           before == Before(S, e)
           upto == UpTo(S, e)
<1>1. e.at \in Nat /\ before \subseteq upto /\ \A r \in upto : r.at \in 0..e.at
  BY EvaluationsAssumption DEF Sound, Success, Before, UpTo
<1>2. Times(before) \subseteq 0..e.at /\ Times(upto) \subseteq 0..e.at
  BY <1>1 DEF Times
<1>3. Rule003(w, e).iv = IF before = {} THEN 0 ELSE e.at - Max(Times(before))
  BY DEF Rule003, SinceLatest, Exit, Found
<1>4. Rule001(w, e).iv = IF upto = {} THEN 0 ELSE e.at - Min(Times(upto))
  BY DEF Rule001, Exit, Found
<1> HIDE DEF S, before, upto
<1>5. upto # {} => Min(Times(upto)) \in 0..e.at /\ \A t \in Times(upto) : Min(Times(upto)) <= t
  <2> SUFFICES ASSUME upto # {} PROVE Min(Times(upto)) \in 0..e.at
                 /\ \A t \in Times(upto) : Min(Times(upto)) <= t
    OBVIOUS
  <2>1. Times(upto) \subseteq Nat /\ Times(upto) # {}
    BY <1>2 DEF Times
  <2> QED
    BY <1>2, <2>1, MinIsLeast
<1>6. CASE before = {}
  BY <1>1, <1>3, <1>4, <1>5, <1>6
<1>7. CASE before # {}
  <2>1. Times(before) # {} /\ upto # {}
    BY <1>1, <1>7 DEF Times
  <2>2. Max(Times(before)) \in Times(before)
    BY <1>1, <1>2, <2>1, MaxOfBounded
  <2>3. Max(Times(before)) \in Times(upto)
    BY <1>1, <2>2 DEF Times
  <2> QED
    BY <1>1, <1>2, <1>3, <1>4, <1>5, <1>7, <2>1, <2>3
<1> QED
  BY <1>6, <1>7

LEMMA AgreeOnSound ==
  ASSUME Sound(loaded)
  PROVE  RulesAgree
<1> SUFFICES ASSUME NEW e \in Evaluations
             PROVE  LET iv(id) == Replay(id, loaded, e).iv
                        exit(id) == Replay(id, loaded, e).exit
                    IN  /\ iv("030") <= iv("044") /\ iv("030") <= iv("045")
                        /\ iv("002") <= iv("044") /\ iv("017") <= iv("044")
                        /\ iv("016") <= iv("045")
                        /\ iv("003") <= iv("001")
                        /\ exit("001") <=> iv("045") = 0
  BY DEF RulesAgree
<1> DEFINE N(S) == Cardinality(UpTo(Success(loaded, e, S), e))
<1>1. /\ Replay("030", loaded, e).iv = N({"debtor", "creditor"})
      /\ Replay("044", loaded, e).iv = N({"debtor"})
      /\ Replay("045", loaded, e).iv = N({"creditor"})
  BY DEF Replay, Rule030, Rule044, Rule045, Count, Found
<1>2. /\ Replay("002", loaded, e) = InWindow("002", loaded, e, "debtor")
      /\ Replay("017", loaded, e) = InWindow("017", loaded, e, "debtor")
      /\ Replay("016", loaded, e) = InWindow("016", loaded, e, "creditor")
      /\ Replay("003", loaded, e) = Rule003(loaded, e)
      /\ Replay("001", loaded, e) = Rule001(loaded, e)
  BY DEF Replay, Rule002, Rule016, Rule017
<1>3. N({"debtor", "creditor"}) <= N({"debtor"}) /\ N({"debtor", "creditor"}) <= N({"creditor"})
  BY FewerThan
<1>4. /\ InWindow("002", loaded, e, "debtor").iv <= N({"debtor"})
      /\ InWindow("017", loaded, e, "debtor").iv <= N({"debtor"})
      /\ InWindow("016", loaded, e, "creditor").iv <= N({"creditor"})
  BY WindowCountsFewer
<1>5. Rule003(loaded, e).iv <= Rule001(loaded, e).iv
  BY AgeCoversGap
<1>6. Rule001(loaded, e).exit <=> N({"creditor"}) = 0
  <2>1. Rule001(loaded, e).exit <=> UpTo(Success(loaded, e, {"creditor"}), e) = {}
    BY DEF Rule001, Exit, Found
  <2> QED
    BY <2>1, Counted, FS_EmptySet
<1> HIDE DEF N
<1> QED
  BY <1>1, <1>2, <1>3, <1>4, <1>5, <1>6

(* Whatever the tables hold, rules that look at the same history from       *)
(* different angles agree about it.                                         *)
THEOREM RulesAlwaysAgree == Spec => []RulesAgree
BY AlwaysLoaded, LoadedIsSound, AgreeOnSound, PTL
-----------------------------------------------------------------------------
(* With the evaluated transaction alone at its time, what Rule-076 takes    *)
(* for it is it, and what remains is the prior activity of Rule-004.        *)
LEMMA GapsAgreeOnSound ==
  ASSUME Sound(loaded)
  PROVE  DebtorGapsAgree
<1> SUFFICES ASSUME NEW e \in Evaluations, OnlyOneAtItsTime(loaded, e)
             PROVE  Rule076(loaded, e) = Rule004(loaded, e)
  BY DEF DebtorGapsAgree
<1> DEFINE D == Success(loaded, e, {"debtor"})
           B == Before(D, e)
           U == UpTo(D, e)
<1>1. PICK own : {r \in D : r.at = e.at} = {own}
  BY DEF OnlyOneAtItsTime
<1>2. e.at \in Nat /\ \A r \in D : r.at \in Nat
  BY EvaluationsAssumption DEF Success, Sound
<1>3. own \in D /\ own.at = e.at
  BY <1>1
<1>4. U = B \cup {own} /\ own \notin B /\ U \ {own} = B
  BY <1>1, <1>2, <1>3 DEF UpTo, Before
<1>5. IsFiniteSet(B) /\ Cardinality(B) \in Nat /\ Cardinality(U) = Cardinality(B) + 1
  <2>1. IsFiniteSet(B)
    BY Counted
  <2> QED
    BY <1>4, <2>1, FS_AddElement, FS_CardinalityType
<1>6. \A r \in B : r.at \in Nat /\ r.at < e.at
  BY <1>2 DEF Before
<1>7. Rule076(loaded, e) = BetweenLatest(U) /\ Rule004(loaded, e) = SinceLatest(B, e)
  BY DEF Rule076, Rule004
<1> HIDE DEF D, B, U
<1>8. CASE B = {}
  <2>1. Cardinality(U) = 1
    BY <1>5, <1>8, FS_EmptySet
  <2> QED
    BY <1>7, <1>8, <2>1 DEF BetweenLatest, SinceLatest
<1>9. CASE B # {}
  <2>1. ~ (Cardinality(U) < 2)
    BY <1>5, <1>9, FS_EmptySet
  <2> DEFINE newest == CHOOSE r \in U : \A q \in U : q.at <= r.at
  <2>2. own \in U /\ \A q \in U : q.at <= own.at
    BY <1>2, <1>3, <1>4, <1>6
  <2>3. newest \in U /\ \A q \in U : q.at <= newest.at
    BY <2>2
  <2>4. newest = own
    <3> HIDE DEF newest
    <3> QED
      BY <1>2, <1>3, <1>4, <1>6, <2>2, <2>3
  <2>5. BetweenLatest(U) = Found(newest.at - Max(Times(U \ {newest})))
    BY <2>1 DEF BetweenLatest
  <2> HIDE DEF newest
  <2> QED
    BY <1>3, <1>4, <1>7, <1>9, <2>4, <2>5 DEF SinceLatest
<1> QED
  BY <1>8, <1>9

(* Rules 004 and 076 give the same whenever the evaluated transaction is    *)
(* the only one of its debtor at its time.                                  *)
THEOREM DebtorGapsAlwaysAgree == Spec => []DebtorGapsAgree
BY AlwaysLoaded, LoadedIsSound, GapsAgreeOnSound, PTL
-----------------------------------------------------------------------------
(* Every replay is a number, or a purpose *)
LEMMA CountIsNat ==
  ASSUME NEW S, IsFiniteSet(S)
  PROVE  Count(S).iv \in Nat
BY FS_CardinalityType DEF Count, Found

LEMMA WindowIsNat ==
  ASSUME NEW w, Sound(w), NEW e \in Evaluations, NEW id, NEW side
  PROVE  InWindow(id, w, e, side).iv \in Nat
<1> DEFINE rows == UpTo(Success(w, e, {side}), e)
           ms == MaxQueryRange(id, w, e.tenant)
           inside == {r \in rows : r.at + ms >= e.at}
<1>1. IsFiniteSet(rows) /\ inside \in SUBSET rows
  BY Counted
<1>2. InWindow(id, w, e, side) = IF ms = None THEN Exit ELSE Count(inside)
  BY DEF InWindow
<1>3. Exit.iv = 0
  BY DEF Exit
<1> HIDE DEF rows, ms, inside
<1>4. Count(inside).iv \in Nat
  BY <1>1, FS_Subset, CountIsNat
<1> QED
  BY <1>2, <1>3, <1>4

LEMMA SinceLatestIsNat ==
  ASSUME NEW e \in Evaluations, NEW rows, \A r \in rows : r.at \in Nat /\ r.at <= e.at
  PROVE  SinceLatest(rows, e).iv \in Nat
<1>1. CASE rows = {}
  BY <1>1 DEF SinceLatest, Exit
<1>2. CASE rows # {}
  <2>1. e.at \in Nat
    BY EvaluationsAssumption
  <2>2. Times(rows) \subseteq 0..e.at /\ Times(rows) # {}
    BY <1>2, <2>1 DEF Times
  <2>3. Max(Times(rows)) \in 0..e.at
    BY <2>1, <2>2, MaxOfBounded
  <2>4. SinceLatest(rows, e).iv = e.at - Max(Times(rows))
    BY <1>2 DEF SinceLatest, Found
  <2> QED
    BY <2>1, <2>3, <2>4
<1> QED
  BY <1>1, <1>2

LEMMA BetweenLatestIsNat ==
  ASSUME NEW b \in Nat, NEW rows, IsFiniteSet(rows), \A r \in rows : r.at \in 0..b
  PROVE  BetweenLatest(rows).iv \in Nat
<1>1. CASE Cardinality(rows) < 2
  BY <1>1 DEF BetweenLatest, Exit
<1>2. CASE ~ (Cardinality(rows) < 2)
  <2> DEFINE newest == CHOOSE r \in rows : \A q \in rows : q.at <= r.at
             rest == rows \ {newest}
  <2>1. rows # {}
    BY <1>2, FS_EmptySet
  <2>2. Times(rows) \subseteq 0..b /\ Times(rows) # {}
    BY <2>1 DEF Times
  <2>3. Max(Times(rows)) \in Times(rows) /\ \A t \in Times(rows) : t <= Max(Times(rows))
    BY <2>2, MaxOfBounded
  <2>4. \E r \in rows : \A q \in rows : q.at <= r.at
    BY <2>3 DEF Times
  <2>5. newest \in rows /\ \A q \in rows : q.at <= newest.at
    BY <2>4
  <2>6. BetweenLatest(rows).iv = newest.at - Max(Times(rest))
    BY <1>2 DEF BetweenLatest, Found
  <2> HIDE DEF newest
  <2>7. rest # {}
    <3> SUFFICES ASSUME rest = {} PROVE FALSE
      OBVIOUS
    <3>1. rows = {newest}
      BY <2>5
    <3> QED
      BY <1>2, <3>1, FS_Singleton
  <2>8. Times(rest) \subseteq 0..b /\ Times(rest) # {}
    BY <2>7 DEF Times
  <2>9. Max(Times(rest)) \in Times(rest)
    BY <2>8, MaxOfBounded
  <2>10. Max(Times(rest)) \in 0..b /\ Max(Times(rest)) <= newest.at
    BY <2>5, <2>8, <2>9 DEF Times
  <2> QED
    BY <2>5, <2>6, <2>10
<1> QED
  BY <1>1, <1>2

LEMMA AgeIsNat ==
  ASSUME NEW w, Sound(w), NEW e \in Evaluations
  PROVE  Rule001(w, e).iv \in Nat
<1> DEFINE rows == UpTo(Success(w, e, {"creditor"}), e)
<1>1. e.at \in Nat /\ \A r \in rows : r.at \in 0..e.at
  BY EvaluationsAssumption DEF Sound, Success, UpTo
<1>2. Rule001(w, e).iv = IF rows = {} THEN 0 ELSE e.at - Min(Times(rows))
  BY DEF Rule001, Exit, Found
<1> HIDE DEF rows
<1>3. CASE rows # {}
  <2>1. Times(rows) \subseteq 0..e.at /\ Times(rows) # {}
    BY <1>1, <1>3 DEF Times
  <2>2. Times(rows) \subseteq Nat
    BY <2>1
  <2>3. Min(Times(rows)) \in 0..e.at
    BY <2>1, <2>2, MinIsLeast
  <2> QED
    BY <1>1, <1>2, <1>3, <2>3
<1> QED
  BY <1>2, <1>3

LEMMA YearsAreInt ==
  ASSUME LoadedInv, NEW e \in Evaluations
  PROVE  Rule028(loaded, e).iv \in Int
<1> DEFINE found == Payments(loaded.births, e)
           born == OneOf(found).birth
<1>1. PICK w \in Warehouses : loaded["births"] = w["births"]
  BY DEF LoadedInv, Tables
<1>2. found # {} /\ born # None => born.year \in Int
  BY <1>1, WarehousesAssumption DEF Payments, OneOf
<1>3. e.date.year \in Int
  BY EvaluationsAssumption
<1>4. Rule028(loaded, e) = IF found = {} \/ born = None THEN Exit
        ELSE Found(e.date.year - born.year - (IF e.date.day < born.day THEN 1 ELSE 0))
  BY DEF Rule028
<1>5. Exit.iv \in Int /\ \A n : Found(n).iv = n
  BY DEF Exit, Found
<1> HIDE DEF found, born
<1>6. CASE found = {} \/ born = None
  BY <1>4, <1>5, <1>6
<1>7. CASE ~ (found = {} \/ born = None)
  <2>1. born.year \in Int
    BY <1>2, <1>7
  <2>2. (IF e.date.day < born.day THEN 1 ELSE 0) \in Int
    OBVIOUS
  <2>3. Rule028(loaded, e).iv = e.date.year - born.year - (IF e.date.day < born.day THEN 1 ELSE 0)
    BY <1>4, <1>5, <1>7
  <2> QED
    BY <1>3, <2>1, <2>2, <2>3
<1> QED
  BY <1>6, <1>7

LEMMA PurposeIsValue ==
  ASSUME LoadedInv, NEW e \in Evaluations
  PROVE  Rule078(loaded, e).iv \in Purposes \cup {None}
<1>1. PICK w \in Warehouses : loaded["pacs008"] = w["pacs008"]
  BY DEF LoadedInv, Tables
<1>2. \A p \in loaded.pacs008 : p.purpose \in Purposes
  BY <1>1 DEF Purposes
<1> DEFINE here == Payments(loaded.pacs008, e)
           p == OneOf(here)
<1>3. Rule078(loaded, e).iv = IF here = {} THEN None ELSE p.purpose
  BY DEF Rule078, Found
<1>4. here \subseteq loaded.pacs008 /\ (here # {} => p \in here)
  BY DEF Payments, OneOf
<1> HIDE DEF here, p
<1> QED
  BY <1>2, <1>3, <1>4

LEMMA HeldIsNat ==
  ASSUME LoadedInv, NEW e \in Evaluations, NEW owner
  PROVE  Count(Held(loaded, e, owner)).iv \in Nat
<1>1. PICK w \in Warehouses : loaded["holders"] = w["holders"]
  BY DEF LoadedInv, Tables
<1>2. IsFiniteSet(loaded.holders) /\ Held(loaded, e, owner) \in SUBSET loaded.holders
  BY <1>1, WarehousesAssumption DEF Held
<1> QED
  BY <1>2, FS_Subset, CountIsNat

(* Only Rule-091 looks at the amount *)
LEMMA AmountsAside ==
  ASSUME NEW w, NEW e \in Evaluations, NEW null, NEW id \in AllRules \ {"091"}
  PROVE  Replay(id, w, Inputs(e, null)) = Replay(id, w, e)
<1> DEFINE x == Inputs(e, null)
<1>1. \A c \in Columns \ {"amount"} : x[c] = e[c]
  BY EvaluationsAssumption DEF Inputs
<1>2. /\ x.tenant = e.tenant /\ x.tx = e.tx /\ x.debtor = e.debtor /\ x.creditor = e.creditor
      /\ x.debtorId = e.debtorId /\ x.creditorId = e.creditorId
      /\ x.at = e.at /\ x.date = e.date
  BY <1>1 DEF Columns
<1> HIDE DEF x
<1>3. \A S \in SUBSET {"debtor", "creditor"} : Success(w, x, S) = Success(w, e, S)
  BY <1>2 DEF Success
<1>4. \A rows : UpTo(rows, x) = UpTo(rows, e) /\ Before(rows, x) = Before(rows, e)
  BY <1>2 DEF UpTo, Before
<1>5. \A rows : SinceLatest(rows, x) = SinceLatest(rows, e)
  BY <1>2 DEF SinceLatest
<1>6. /\ {"debtor"} \in SUBSET {"debtor", "creditor"}
      /\ {"creditor"} \in SUBSET {"debtor", "creditor"}
      /\ {"debtor", "creditor"} \in SUBSET {"debtor", "creditor"}
  OBVIOUS
<1>7. \A i, s : s \in {"debtor", "creditor"} => InWindow(i, w, x, s) = InWindow(i, w, e, s)
  <2> SUFFICES ASSUME NEW i, NEW s \in {"debtor", "creditor"}
               PROVE  InWindow(i, w, x, s) = InWindow(i, w, e, s)
    OBVIOUS
  <2>1. UpTo(Success(w, x, {s}), x) = UpTo(Success(w, e, {s}), e)
    BY <1>3, <1>4
  <2>2. MaxQueryRange(i, w, x.tenant) = MaxQueryRange(i, w, e.tenant)
    BY <1>2
  <2> QED
    BY ONLY <1>2, <2>1, <2>2, Zenon DEF InWindow
<1>8. /\ Rule030(w, x) = Rule030(w, e) /\ Rule044(w, x) = Rule044(w, e)
      /\ Rule045(w, x) = Rule045(w, e)
  BY <1>3, <1>4, <1>6 DEF Rule030, Rule044, Rule045
<1>9. /\ Rule002(w, x) = Rule002(w, e) /\ Rule016(w, x) = Rule016(w, e)
      /\ Rule017(w, x) = Rule017(w, e)
  BY <1>7 DEF Rule002, Rule016, Rule017
<1>10. /\ Rule003(w, x) = Rule003(w, e) /\ Rule004(w, x) = Rule004(w, e)
  BY <1>3, <1>4, <1>5, <1>6 DEF Rule003, Rule004
<1>11. /\ UpTo(Success(w, x, {"debtor"}), x) = UpTo(Success(w, e, {"debtor"}), e)
       /\ UpTo(Success(w, x, {"creditor"}), x) = UpTo(Success(w, e, {"creditor"}), e)
  BY <1>3, <1>4, <1>6
<1>12. Rule076(w, x) = Rule076(w, e)
  BY ONLY <1>11, Zenon DEF Rule076
<1>13. Rule001(w, x) = Rule001(w, e)
  BY ONLY <1>2, <1>11, Zenon DEF Rule001
<1>14. \A rows : Payments(rows, x) = Payments(rows, e)
  BY <1>2 DEF Payments
<1>15. Rule078(w, x) = Rule078(w, e)
  <2>1. Payments(w.pacs008, x) = Payments(w.pacs008, e)
    BY <1>14
  <2> QED
    BY ONLY <2>1 DEF Rule078
<1>16. Rule028(w, x) = Rule028(w, e)
  BY ONLY <1>2, <1>14, Zenon DEF Rule028
<1>17. Rule083(w, x) = Rule083(w, e) /\ Rule084(w, x) = Rule084(w, e)
  BY <1>2 DEF Rule083, Rule084, Held
<1>18. Replay(id, w, x) = Replay(id, w, e)
  BY <1>8, <1>9, <1>10, <1>12, <1>13, <1>15, <1>16, <1>17 DEF Replay, AllRules
<1> QED
  BY <1>18 DEF x

LEMMA AmountOfInputs ==
  ASSUME NEW w, NEW e \in Evaluations, NEW null
  PROVE  Replay("091", w, Inputs(e, null)).iv = IF e.amount = None THEN null ELSE e.amount
<1>1. "amount" \in DOMAIN e
  BY EvaluationsAssumption DEF Columns
<1>2. Inputs(e, null).amount = IF e.amount = None THEN null ELSE e.amount
  BY <1>1 DEF Inputs
<1> QED
  BY <1>2 DEF Replay, Rule091, Found

LEMMA ReplayIsValue ==
  ASSUME LoadedInv, NEW e \in Evaluations, NEW id \in AllRules \ {"091"}
  PROVE  Replay(id, loaded, e).iv \in Values(id)
<1>s. Sound(loaded)
  BY LoadedIsSound
<1>1. /\ Rule030(loaded, e).iv \in Nat /\ Rule044(loaded, e).iv \in Nat
      /\ Rule045(loaded, e).iv \in Nat
  BY <1>s, Counted, CountIsNat DEF Rule030, Rule044, Rule045
<1>2. /\ Rule002(loaded, e).iv \in Nat /\ Rule016(loaded, e).iv \in Nat
      /\ Rule017(loaded, e).iv \in Nat
  BY <1>s, WindowIsNat DEF Rule002, Rule016, Rule017
<1>3. \A S : \A r \in Success(loaded, e, S) : r.at \in Nat
  BY <1>s DEF Sound, Success
<1>4. \A S : \A r \in Before(Success(loaded, e, S), e) : r.at \in Nat /\ r.at <= e.at
  BY <1>3, EvaluationsAssumption DEF Before
<1>5. Rule003(loaded, e).iv \in Nat /\ Rule004(loaded, e).iv \in Nat
  BY <1>4, SinceLatestIsNat DEF Rule003, Rule004
<1>6. Rule076(loaded, e).iv \in Nat
  <2> DEFINE rows == UpTo(Success(loaded, e, {"debtor"}), e)
  <2>1. e.at \in Nat /\ IsFiniteSet(rows) /\ \A r \in rows : r.at \in 0..e.at
    BY <1>s, <1>3, Counted, EvaluationsAssumption DEF UpTo
  <2>2. Rule076(loaded, e) = BetweenLatest(rows)
    BY DEF Rule076
  <2> HIDE DEF rows
  <2> QED
    BY <2>1, <2>2, BetweenLatestIsNat
<1>7. Rule001(loaded, e).iv \in Nat
  BY <1>s, AgeIsNat
<1>9. Rule078(loaded, e).iv \in Purposes \cup {None} /\ Rule028(loaded, e).iv \in Int
  BY PurposeIsValue, YearsAreInt
<1>10. Rule083(loaded, e).iv \in Nat /\ Rule084(loaded, e).iv \in Nat
  BY HeldIsNat DEF Rule083, Rule084
<1> QED
  BY <1>1, <1>2, <1>5, <1>6, <1>7, <1>9, <1>10 DEF Replay, AllRules, Values, Measured

LEMMA InputsGiveValue ==
  ASSUME LoadedInv, NEW e \in Evaluations, NEW id \in AllRules, NEW null \in Int \cup {NaN}
  PROVE  Replay(id, loaded, Inputs(e, null)).iv \in Values(id)
<1>1. CASE id # "091"
  BY <1>1, AmountsAside, ReplayIsValue
<1>2. CASE id = "091"
  BY <1>2, AmountOfInputs, EvaluationsAssumption DEF Values, Measured
<1> QED
  BY <1>1, <1>2

LEMMA DisplayIsTyped ==
  ASSUME LoadedInv, NEW e \in Evaluations, NEW failing, NEW gone, Display(e, failing, gone)
  PROVE  /\ alert' \in Evaluations /\ meta' \in Evaluations /\ offered' \subseteq Rules
         /\ rule' = None /\ disc' = None
         /\ \A r \in DOMAIN table' : table'[r] \in Values(r)
<1>1. \A r : TableValue(r, loaded, e) \in Values(r)
  <2>1. \A r \in Rules : Replay(r, loaded, OfPandas(e)).iv \in Values(r)
    BY RulesAssumption, InputsGiveValue DEF OfPandas
  <2> QED
    BY <2>1 DEF TableValue, Values
<1>2. \A r : Recorded \in Values(r)
  BY DEF Values
<1>3. \A r \in DOMAIN table' : table'[r] \in {Recorded, TableValue(r, loaded, e)}
  BY DEF Display
<1>4. \A r \in DOMAIN table' : table'[r] \in Values(r)
  BY <1>1, <1>2, <1>3
<1> QED
  BY <1>4 DEF Display, Weighted

LEMMA NothingIsEmpty == DOMAIN Nothing = {}
BY DEF Nothing

LEMMA TypeInit == Init => TypeOK
<1> SUFFICES ASSUME Init PROVE TypeOK
  OBVIOUS
<1>1. \A r \in DOMAIN table : table[r] \in Values(r)
  BY NothingIsEmpty DEF Init
<1>2. loads \in 0..MaxLoads /\ faults \in 0..MaxFaults
  BY BoundsAssumption DEF Init
<1> QED
  BY <1>1, <1>2 DEF Init, TypeOK

LEMMA TypeStep == TypeOK /\ LoadedInv /\ [Next]_vars => TypeOK'
<1> SUFFICES ASSUME TypeOK, LoadedInv, [Next]_vars PROVE TypeOK'
  OBVIOUS
<1>n. MaxLoads \in Nat /\ MaxFaults \in Nat
  BY BoundsAssumption
<1>c. Cleared => /\ alert' = None /\ meta' = None /\ offered' = {} /\ rule' = None /\ disc' = None
                 /\ \A r \in DOMAIN table' : table'[r] \in Values(r)
  BY NothingIsEmpty DEF Cleared
<1>1. ASSUME NEW w \in Warehouses, NEW n \in 1..5, Load(w, n) PROVE TypeOK'
  <2>1. loads' \in 0..MaxLoads
    BY <1>1, <1>n DEF Load, TypeOK
  <2>2. steady' = FALSE /\ UNCHANGED <<alert, offered, rule, meta, table, disc, faults>>
    BY <1>1 DEF Load, shown
  <2> QED
    BY <2>1, <2>2 DEF TypeOK
<1>2. CASE Render
  BY <1>2, <1>c DEF Render, TypeOK
<1>3. ASSUME NEW e \in Evaluations, Select(e) PROVE TypeOK'
  <2>1. Display(e, {}, FALSE) /\ steady' = TRUE /\ UNCHANGED <<loads, faults>>
    BY <1>3 DEF Select
  <2>2. /\ alert' \in Evaluations /\ meta' \in Evaluations /\ offered' \subseteq Rules
        /\ rule' = None /\ disc' = None
        /\ \A r \in DOMAIN table' : table'[r] \in Values(r)
    BY <2>1, DisplayIsTyped
  <2> QED
    BY <2>1, <2>2 DEF TypeOK
<1>4. ASSUME NEW e \in Evaluations, SelectFails(e) PROVE TypeOK'
  <2>1. PICK failing, gone : Display(e, failing, gone)
    BY <1>4 DEF SelectFails
  <2>2. /\ alert' \in Evaluations /\ meta' \in Evaluations /\ offered' \subseteq Rules
        /\ rule' = None /\ disc' = None
        /\ \A r \in DOMAIN table' : table'[r] \in Values(r)
    BY <2>1, DisplayIsTyped
  <2>3. steady' = FALSE /\ loads' = loads /\ faults' \in 0..MaxFaults
    BY <1>4, <1>n DEF SelectFails, TypeOK
  <2> QED
    BY <2>2, <2>3 DEF TypeOK
<1>5. CASE Deselect
  BY <1>5, <1>c DEF Deselect, TypeOK
<1>6. ASSUME NEW r \in offered \cup {None}, ChooseRule(r) PROVE TypeOK'
  BY <1>6 DEF ChooseRule, shown, TypeOK
<1>7. CASE Run
  <2>1. disc' = None \/ disc'.iv \in Values(disc'.rule)
    <3>1. CASE Ready
      <4>1. rule \in AllRules
        BY <3>1, RulesAssumption DEF Ready, TypeOK
      <4>2. PICK row \in Evaluations : disc' = Discovery(rule, row)
        BY <1>7, <3>1 DEF Run
      <4>3. disc'.rule = rule /\ disc'.iv = Replay(rule, loaded, Inputs(row, 0)).iv
        BY <4>2 DEF Discovery, OfSpark
      <4> QED
        BY <4>1, <4>3, InputsGiveValue
    <3>2. CASE ~Ready
      BY <1>7, <3>2 DEF Run
    <3> QED
      BY <3>1, <3>2
  <2> QED
    BY <1>7, <2>1 DEF Run, TypeOK
<1>8. CASE RunFails
  BY <1>8, <1>n DEF RunFails, TypeOK
<1>9. CASE UNCHANGED vars
  BY <1>9 DEF vars, shown, TypeOK
<1> QED
  BY <1>1, <1>2, <1>3, <1>4, <1>5, <1>6, <1>7, <1>8, <1>9 DEF Next

LEMMA TypeAlways == Spec => []TypeOK
BY TypeInit, TypeStep, AlwaysLoaded, PTL DEF Spec

(* Every value displayed is one, whatever is loaded: no count and no gap is *)
(* negative, ages and amounts are the numbers of the documents, and an      *)
(* amount that is none is 0 or not a number.                                *)
THEOREM ValuesAreValues == Spec => []TypeOK
BY TypeAlways
-----------------------------------------------------------------------------
(* While nothing fails and nothing is loaded, both displays show replays of *)
(* the same tables, from a row of pandas and a row of Spark.                *)
SteadyInv ==
  /\ DiscoveryInv /\ offered \subseteq Rules
  /\ steady => \A r \in DOMAIN table : table[r] = TableValue(r, loaded, alert)
  /\ steady /\ disc # None => 
       disc.rule \in Rules /\ disc.iv = Replay(disc.rule, loaded, OfSpark(disc.of)).iv

LEMMA SteadyInit == Init => SteadyInv
BY DiscoveryInit DEF Init, SteadyInv

LEMMA ClearedSteady == Cleared /\ ~steady' => SteadyInv'
BY ClearedFits DEF Cleared, SteadyInv

LEMMA DisplayRules ==
  ASSUME NEW e, NEW failing, NEW gone, Display(e, failing, gone)
  PROVE  offered' \subseteq Rules /\ disc' = None
BY DEF Display, Weighted

LEMMA SteadyStep == SteadyInv /\ [Next]_vars => SteadyInv'
<1> SUFFICES ASSUME SteadyInv, [Next]_vars PROVE SteadyInv'
  OBVIOUS
<1>d. DiscoveryInv'
  BY DiscoveryStep DEF SteadyInv
<1>1. ASSUME NEW w \in Warehouses, NEW n \in 1..5, Load(w, n) PROVE SteadyInv'
  BY <1>1, <1>d DEF Load, SteadyInv
<1>2. CASE Render
  BY <1>2, ClearedSteady DEF Render
<1>3. ASSUME NEW e \in Evaluations, Select(e) PROVE SteadyInv'
  <2>1. offered' \subseteq Rules /\ disc' = None
    BY <1>3, DisplayRules DEF Select
  <2>2. \A r \in DOMAIN table' : table'[r] = TableValue(r, loaded, e)
    BY <1>3 DEF Select, Display
  <2>3. alert' = e /\ loaded' = loaded
    BY <1>3 DEF Select, Display
  <2> QED
    BY <1>d, <2>1, <2>2, <2>3 DEF SteadyInv
<1>4. ASSUME NEW e \in Evaluations, SelectFails(e) PROVE SteadyInv'
  <2>1. offered' \subseteq Rules /\ ~steady'
    BY <1>4, DisplayRules DEF SelectFails
  <2> QED
    BY <1>d, <2>1 DEF SteadyInv
<1>5. CASE Deselect
  BY <1>5, ClearedSteady DEF Deselect
<1>6. ASSUME NEW r \in offered \cup {None}, ChooseRule(r) PROVE SteadyInv'
  BY <1>6, <1>d DEF ChooseRule, shown, SteadyInv
<1>7. CASE Run
  <2>1. UNCHANGED <<loaded, alert, offered, table, steady>>
    BY <1>7 DEF Run
  <2>2. disc' # None => disc'.rule \in Rules
                        /\ disc'.iv = Replay(disc'.rule, loaded, OfSpark(disc'.of)).iv
    <3>1. CASE Ready
      <4>1. PICK row : disc' = Discovery(rule, row)
        BY <1>7, <3>1 DEF Run
      <4>2. /\ disc'.rule = rule /\ disc'.of = row
            /\ disc'.iv = Replay(rule, loaded, OfSpark(row)).iv
        BY <4>1 DEF Discovery
      <4>3. rule \in Rules
        BY <3>1 DEF Ready, SteadyInv, DiscoveryInv
      <4> QED
        BY <4>2, <4>3
    <3>2. CASE ~Ready
      BY <1>7, <3>2 DEF Run
    <3> QED
      BY <3>1, <3>2
  <2> QED
    BY <1>d, <2>1, <2>2 DEF SteadyInv
<1>8. CASE RunFails
  BY <1>8, <1>d DEF RunFails, SteadyInv
<1>9. CASE UNCHANGED vars
  BY <1>9, <1>d DEF vars, shown, SteadyInv
<1> QED
  BY <1>1, <1>2, <1>3, <1>4, <1>5, <1>6, <1>7, <1>8, <1>9 DEF Next

(* The table of rules and the discovery show two values of a rule only if   *)
(* it is windowed, if it is the amount of an evaluation that has none, or   *)
(* if the discovery has got another row of the evaluation.                  *)
THEOREM TableAlwaysMatches == Spec => []TableMatchesDiscovery
<1>1. SteadyInv /\ TypeOK => TableMatchesDiscovery
  <2> SUFFICES ASSUME SteadyInv, TypeOK, steady, disc # None,
                      disc.rule \in DOMAIN table \ Windowed, disc.of = alert,
                      disc.rule = "091" => alert.amount # None
               PROVE  table[disc.rule] = disc.iv
    BY DEF TableMatchesDiscovery
  <2> DEFINE id == disc.rule
  <2>1. alert \in Evaluations /\ id \in Rules /\ id \in AllRules
    BY RulesAssumption DEF SteadyInv, DiscoveryInv, DiscoveryFitsAlert, TypeOK
  <2>2. /\ table[id] = Replay(id, loaded, Inputs(alert, NaN)).iv
        /\ disc.iv = Replay(id, loaded, Inputs(alert, 0)).iv
    BY <2>1 DEF SteadyInv, TableValue, OfPandas, OfSpark
  <2>3. CASE id = "091"
    BY <2>1, <2>2, <2>3, AmountOfInputs
  <2>4. CASE id # "091"
    BY <2>1, <2>2, <2>4, AmountsAside
  <2> QED
    BY <2>3, <2>4
<1> QED
  BY <1>1, TypeAlways, SteadyInit, SteadyStep, PTL DEF Spec
=============================================================================
