----------------------- MODULE NifiProvisioningProofs -----------------------
(***************************************************************************)
(* Theorems about NifiProvisioning, for any parameters and any number of   *)
(* failures, changes by operators and attempts.                            *)
(***************************************************************************)
EXTENDS NifiProvisioning, TLAPS

(* What an attempt has reached by the time it is at a step *)
Later == {"upload", "resolve", "instantiate", "done"}
AfterUpdate == {"revision", "apply"} \cup Later
AfterCreate == {"find", "inspect", "update"} \cup AfterUpdate

(* Nothing takes these back: operators change values, but remove none. *)
ProgressInv ==
  /\ ~context => \A p \in Required : params[p] = "none"
  /\ pc \in AfterCreate => context
  /\ pc \in AfterUpdate => \A p \in Required : params[p] # "none"
  /\ pc \in Later => applied \/ ignored
  /\ pc = "done" /\ import => flows > 0 \/ excused

(* What has been read is what NiFi shows, until somebody writes it *)
KnownInv == pc = "update" /\ ~changed => known = Shown

(* A copy of the flow is counted when it is made *)
CopiesInv == flows <= finished + repeated

Inv == TypeOK /\ ProgressInv /\ KnownInv /\ CopiesInv

LEMMA InvInit == Init => Inv
<1> SUFFICES ASSUME Init PROVE Inv
  OBVIOUS
<1>1. params \in [Required -> Values] /\ (~context => \A p \in Required : params[p] = "none")
  BY DEF Init, Values
<1>2. applied \in BOOLEAN
  BY DEF Init
<1>3. TypeOK
  <2>1. known \in [Required -> Values] /\ pc \in Steps \cup {"failed", "done"}
    BY <1>1 DEF Init, Steps
  <2>2. faults \in 0..MaxFaults /\ edits \in 0..MaxEdits /\ reruns \in 0..MaxReruns
    BY BoundsAssumption DEF Init
  <2>3. /\ context \in BOOLEAN /\ template \in BOOLEAN /\ import \in BOOLEAN
        /\ changed \in BOOLEAN /\ moved \in BOOLEAN /\ ignored \in BOOLEAN /\ excused \in BOOLEAN
    BY DEF Init
  <2>4. flows \in Nat /\ finished \in Nat /\ repeated \in Nat
    BY DEF Init
  <2> QED
    BY <1>1, <1>2, <2>1, <2>2, <2>3, <2>4 DEF TypeOK
<1> QED
  BY <1>1, <1>3 DEF Init, Inv, ProgressInv, KnownInv, CopiesInv, Later, AfterUpdate, AfterCreate

LEMMA MoreCauses ==
  ASSUME NEW f \in Nat, NEW c \in Nat, NEW r \in Nat, NEW d \in Nat, f <= c + r, c <= d
  PROVE  f <= d + r
  OBVIOUS

LEMMA OneMore ==
  ASSUME NEW f \in Nat, NEW c \in Nat, NEW r \in Nat, NEW d \in Nat, NEW q \in Nat,
         f <= c + r, d + q = c + r + 1
  PROVE  f + 1 <= d + q
  OBVIOUS

(* The counters of Then and Fault stay within their bounds *)
LEMMA ThenTypes ==
  ASSUME TypeOK, NEW next, Then(next)
  PROVE  faults' \in 0..MaxFaults /\ pc' \in {next, "failed"}
  BY BoundsAssumption DEF TypeOK, Then, Fault

LEMMA FaultTypes ==
  ASSUME TypeOK, Fault
  PROVE  faults' \in 0..MaxFaults
  BY BoundsAssumption DEF TypeOK, Fault

(* A step that leaves the parameters alone leaves what NiFi shows alone *)
LEMMA ShownStays == ASSUME params' = params PROVE Shown' = Shown
  BY DEF Shown

LEMMA ShownType == ASSUME TypeOK PROVE Shown \in [Required -> Values]
  BY DEF TypeOK, Shown, Values

(* Every step of the script keeps the invariant *)
LEMMA InvScript == ASSUME Inv, Script PROVE Inv'
<1> USE DEF Inv, nifi, seen, history
<1>1. CASE Ready
  <2>1. pc' \in {"create", "failed"} /\ faults' \in 0..MaxFaults
    BY <1>1, ThenTypes DEF Ready
  <2> QED
    BY <1>1, <2>1 DEF Ready, TypeOK, Steps, ProgressInv, KnownInv, CopiesInv, Later, AfterUpdate,
      AfterCreate
<1>2. CASE Create
  <2>1. pc' \in {"find", "failed"} /\ faults' \in 0..MaxFaults
    BY <1>2, ThenTypes DEF Create
  <2>2. params' \in [Required -> Values]
    BY <1>2 DEF Create, TypeOK, Values
  <2> QED
    BY <1>2, <2>1, <2>2 DEF Create, TypeOK, Steps, ProgressInv, KnownInv, CopiesInv, Later,
      AfterUpdate, AfterCreate
<1>3. CASE Find
  <2>1. pc' \in {"inspect", "failed"} /\ faults' \in 0..MaxFaults
    BY <1>3, ThenTypes DEF Find
  <2> QED
    BY <1>3, <2>1 DEF Find, TypeOK, Steps, ProgressInv, KnownInv, CopiesInv, Later, AfterUpdate,
      AfterCreate
<1>4. CASE Inspect
  <2> DEFINE next == IF \E p \in Required : params[p] = "none" THEN "update" ELSE "revision"
  <2>1. pc' \in {next, "failed"} /\ faults' \in 0..MaxFaults
    BY <1>4, ThenTypes DEF Inspect
  <2>2. pc' = "revision" => \A p \in Required : params[p] # "none"
    BY <2>1
  <2> HIDE DEF next
  <2>3. pc' \in {"update", "revision", "failed"}
    BY <2>1 DEF next
  <2>4. known' \in [Required -> Values]
    BY <1>4, ShownType DEF Inspect
  <2>5. known' = Shown'
    BY <1>4, ShownStays DEF Inspect
  <2> QED
    BY <1>4, <2>1, <2>2, <2>3, <2>4, <2>5 DEF Inspect, TypeOK, Steps, ProgressInv, KnownInv, CopiesInv, Later,
      AfterUpdate, AfterCreate
<1>5. CASE Update
  <2>1. pc' \in {"revision", "failed"} /\ faults' \in 0..MaxFaults
    BY <1>5, ThenTypes DEF Update
  <2>2. params' \in [Required -> Values] /\ \A p \in Required : params'[p] # "none"
    BY <1>5 DEF Update, Completed, TypeOK, Values
  <2> QED
    BY <1>5, <2>1, <2>2 DEF Update, TypeOK, Steps, ProgressInv, KnownInv, CopiesInv, Later,
      AfterUpdate, AfterCreate
<1>6. CASE UpdateConflict
  BY <1>6 DEF UpdateConflict, TypeOK, ProgressInv, KnownInv, CopiesInv, Later, AfterUpdate,
    AfterCreate
<1>7. CASE Revision
  <2>1. pc' \in {"apply", "failed"} /\ faults' \in 0..MaxFaults
    BY <1>7, ThenTypes DEF Revision
  <2> QED
    BY <1>7, <2>1 DEF Revision, TypeOK, Steps, ProgressInv, KnownInv, CopiesInv, Later,
      AfterUpdate, AfterCreate
<1>8. CASE Apply
  <2>1. pc' \in {AfterApply, "failed"} /\ faults' \in 0..MaxFaults
    BY <1>8, ThenTypes DEF Apply
  <2>2. finished' \in Nat /\ finished <= finished'
    BY <1>8 DEF Apply, Finishes, TypeOK
  <2>3. pc' = "done" => ~import
    BY <2>1 DEF AfterApply
  <2>4. pc' \in {"upload", "done", "failed"}
    BY <2>1 DEF AfterApply
  <2>5. TypeOK'
    BY <1>8, <2>1, <2>2, <2>4 DEF Apply, TypeOK, Steps
  <2>6. ProgressInv'
    BY <1>8, <2>3, <2>4 DEF Apply, TypeOK, ProgressInv, Later, AfterUpdate, AfterCreate
  <2>7. flows \in Nat /\ repeated \in Nat /\ finished \in Nat /\ flows' = flows /\ repeated' = repeated
    BY <1>8 DEF Apply, TypeOK
  <2>8. CopiesInv'
    BY <2>2, <2>7, MoreCauses DEF CopiesInv
  <2> QED
    BY <2>4, <2>5, <2>6, <2>8 DEF KnownInv
<1>9. CASE ApplyRefused
  <2>1. pc' \in {"upload", "done"} /\ (pc' = "done" => ~import) /\ faults' \in 0..MaxFaults
    BY <1>9, FaultTypes DEF ApplyRefused, AfterApply
  <2>2. finished' \in Nat /\ finished <= finished'
    BY <1>9 DEF ApplyRefused, Finishes, TypeOK
  <2>3. TypeOK'
    BY <1>9, <2>1, <2>2 DEF ApplyRefused, TypeOK, Steps
  <2>4. ProgressInv'
    BY <1>9, <2>1 DEF ApplyRefused, TypeOK, ProgressInv, Later, AfterUpdate, AfterCreate
  <2>5. flows \in Nat /\ repeated \in Nat /\ finished \in Nat /\ flows' = flows /\ repeated' = repeated
    BY <1>9 DEF ApplyRefused, TypeOK
  <2>6. CopiesInv'
    BY <2>2, <2>5, MoreCauses DEF CopiesInv
  <2> QED
    BY <2>1, <2>3, <2>4, <2>6 DEF KnownInv
<1>10. CASE Upload
  <2>1. pc' \in {"resolve", "instantiate", "failed"} /\ faults' \in 0..MaxFaults
    BY <1>10, ThenTypes DEF Upload
  <2> QED
    BY <1>10, <2>1 DEF Upload, TypeOK, Steps, ProgressInv, KnownInv, CopiesInv, Later,
      AfterUpdate, AfterCreate
<1>11. CASE Resolve
  <2>1. pc' \in {"instantiate", "failed"} /\ faults' \in 0..MaxFaults
    BY <1>11, ThenTypes DEF Resolve
  <2> QED
    BY <1>11, <2>1 DEF Resolve, TypeOK, Steps, ProgressInv, KnownInv, CopiesInv, Later,
      AfterUpdate, AfterCreate
<1>12. CASE Instantiate
  <2>1. pc' \in {"done", "failed"} /\ faults' \in 0..MaxFaults
    BY <1>12, ThenTypes DEF Instantiate
  <2>2. /\ flows' = flows + 1
        /\ finished' \in Nat /\ repeated' \in Nat
        /\ finished' + repeated' = finished + repeated + 1
    BY <1>12 DEF Instantiate, Finishes, TypeOK
  <2>3. TypeOK'
    BY <1>12, <2>1, <2>2 DEF Instantiate, TypeOK, Steps
  <2>4. ProgressInv'
    BY <1>12, <2>1, <2>2 DEF Instantiate, TypeOK, ProgressInv, Later, AfterUpdate, AfterCreate
  <2>5. flows \in Nat /\ repeated \in Nat /\ finished \in Nat
    BY DEF TypeOK
  <2>6. flows <= finished + repeated
    BY DEF CopiesInv
  <2>7. CopiesInv'
    BY <2>2, <2>5, <2>6, OneMore DEF CopiesInv
  <2> QED
    BY <2>1, <2>3, <2>4, <2>7 DEF KnownInv
<1>13. CASE InstantiateRefused
  <2>1. pc' = "done" /\ faults' \in 0..MaxFaults /\ finished' = finished + 1
    BY <1>13, FaultTypes DEF InstantiateRefused, Finishes
  <2> QED
    BY <1>13, <2>1 DEF InstantiateRefused, TypeOK, Steps, ProgressInv, KnownInv, CopiesInv, Later,
      AfterUpdate, AfterCreate
<1>14. CASE UploadUnreadable
  BY <1>14 DEF UploadUnreadable, TypeOK, ProgressInv, KnownInv, CopiesInv, Later, AfterUpdate,
    AfterCreate
<1> QED
  BY <1>1, <1>2, <1>3, <1>4, <1>5, <1>6, <1>7, <1>8, <1>9, <1>10, <1>11, <1>12, <1>13, <1>14
    DEF Script

LEMMA InvNext == Inv /\ [Next]_vars => Inv'
<1> SUFFICES ASSUME Inv, [Next]_vars PROVE Inv'
  OBVIOUS
<1>1. CASE Script
  BY <1>1, InvScript
<1> USE DEF Inv, nifi, seen, history
<1>2. CASE RequestFails
  <2>1. faults' \in 0..MaxFaults
    BY <1>2, FaultTypes DEF RequestFails
  <2> QED
    BY <1>2, <2>1 DEF RequestFails, TypeOK, ProgressInv, KnownInv, CopiesInv, Later, AfterUpdate,
      AfterCreate
<1>3. CASE Restart
  BY <1>3 DEF Restart, TypeOK, Steps, ProgressInv, KnownInv, CopiesInv, Later, AfterUpdate,
    AfterCreate
<1>4. CASE UpAgain
  BY <1>4, BoundsAssumption DEF UpAgain, TypeOK, Steps, ProgressInv, KnownInv, CopiesInv, Later,
    AfterUpdate, AfterCreate
<1>5. ASSUME NEW p \in Required, EditParameter(p) PROVE Inv'
  <2>1. params' \in [Required -> Values] /\ \A q \in Required : params'[q] \in {params[q], "operator"}
    BY <1>5 DEF EditParameter, TypeOK, Values
  <2> QED
    BY <1>5, <2>1, BoundsAssumption DEF EditParameter, TypeOK, ProgressInv, KnownInv, CopiesInv
<1>6. CASE EditGroup
  BY <1>6, BoundsAssumption, ShownStays DEF EditGroup, TypeOK, ProgressInv, KnownInv, CopiesInv
<1>7. CASE UNCHANGED vars
  BY <1>7, ShownStays DEF vars, TypeOK, ProgressInv, KnownInv, CopiesInv
<1> QED
  BY <1>1, <1>2, <1>3, <1>4, <1>5, <1>6, <1>7 DEF Next

LEMMA AlwaysInv == Spec => []Inv
  BY InvInit, InvNext, PTL DEF Spec

(* The values of all variables stay in their types. *)
THEOREM TypeCorrect == Spec => []TypeOK
  BY AlwaysInv, PTL DEF Inv

(* Whenever init.sh comes to its end, NiFi is configured: parameters, root  *)
(* group and flow, and no copy of the flow is without a cause.              *)
THEOREM EndIsConfigured == Spec => []EndsConfigured
<1>1. Inv => EndsConfigured
  BY DEF Inv, ProgressInv, CopiesInv, EndsConfigured, Later, AfterUpdate, AfterCreate
<1> QED
  BY <1>1, AlwaysInv, PTL

(* No attempt of init.sh overwrites a value that an operator has given to a *)
(* parameter that is not sensitive, whichever are.                          *)
THEOREM OperatorsWin == Spec => OperatorValuesKept
<1> DEFINE Kept == \A p \in Required \ Sensitive : params[p] = "operator" => params'[p] = "operator"
<1>1. Inv /\ [Next]_vars => [Kept]_vars
  <2> SUFFICES ASSUME Inv, Next PROVE Kept
    BY DEF vars
  <2>1. CASE Update
    <3>1. \A p \in Required \ Sensitive : known[p] = params[p]
      BY <2>1 DEF Inv, Update, KnownInv, Shown
    <3> QED
      BY <2>1, <3>1 DEF Update, Completed
  <2>2. CASE Create
    BY <2>2 DEF Inv, ProgressInv, Create
  <2>3. ASSUME NEW q \in Required, EditParameter(q) PROVE Kept
    BY <2>3 DEF Inv, TypeOK, EditParameter
  <2> QED
    BY <2>1, <2>2, <2>3 DEF Next, Script, Ready, Find, Inspect, UpdateConflict, Revision, Apply,
      ApplyRefused, Upload, UploadUnreadable, Resolve, Instantiate, InstantiateRefused, RequestFails, Restart,
      UpAgain, EditGroup, nifi
<1> QED
  BY <1>1, AlwaysInv, PTL DEF Spec, OperatorValuesKept
=============================================================================
