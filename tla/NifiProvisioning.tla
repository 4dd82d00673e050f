-------------------------- MODULE NifiProvisioning --------------------------
(***************************************************************************)
(* nifi/init.sh: the script that puts the parameter context and the flow   *)
(* into NiFi.  It remembers nothing: docker-compose.yaml starts it again   *)
(* from the top after a failure (restart: on-failure), and with every      *)
(* "docker compose up" after a success.  NiFi is used by operators as      *)
(* well, and refuses a PUT whose revision is not the present one.          *)
(*                                                                         *)
(* set -e: a request without an answer ends the attempt.  An error answer  *)
(* ends it only where the script looks at the status.                      *)
(***************************************************************************)
EXTENDS Naturals

CONSTANTS Required,    \* PB_NAME, PB_HTTP_NAME, PB_OZONE_NAME
          Sensitive,   \* those NiFi keeps as sensitive: all that the script
                       \* makes under PB_SENSITIVE, or what an operator made so
          MaxFaults,   \* bound: requests that fail or lose their answer
          MaxEdits,    \* bound: changes by operators
          MaxReruns    \* bound: attempts after one that ended well

ASSUME SensitiveAssumption == Sensitive \subseteq Required
ASSUME BoundsAssumption == MaxFaults \in Nat /\ MaxEdits \in Nat /\ MaxReruns \in Nat

VARIABLES
  context,   \* the parameter context exists
  params,    \* who gave each parameter its value: "none" if it is missing,
             \* "mask" if its value is what NiFi shows for a sensitive one
  applied,   \* the root group has the context
  template,  \* the template has been uploaded
  flows,     \* copies of the flow on the canvas
  import,    \* IMPORT_NIFI_TEMPLATE
  pc,        \* where the script is
  known,     \* the parameters as the script has read them
  changed,   \* the context was written after that
  moved,     \* the root group was written after its revision was read
  ignored,   \* history: the root group refused the last PUT of the context
  excused,   \* history: a refused instantiation was taken for a success
  finished,  \* history: attempts that came to their end
  repeated,  \* history: attempts that failed over an instantiation carried out
  faults, edits, reruns   \* counters of the bounds above

nifi == <<context, params, applied, template, flows>>
seen == <<known, changed, moved>>
history == <<ignored, excused, finished, repeated>>
vars == <<nifi, import, pc, seen, history, faults, edits, reruns>>

Steps ==
  {"wait", "create", "find", "inspect", "update", "revision", "apply", "upload", "resolve",
   "instantiate"}

(* NiFi may be empty, or have been set up by hand in part *)
Init ==
  /\ context \in BOOLEAN
  /\ params \in [Required -> IF context THEN {"none", "operator"} ELSE {"none"}]
  /\ applied \in {FALSE, context}
  /\ template \in BOOLEAN
  /\ flows = 0
  /\ import \in BOOLEAN
  /\ pc = "wait"
  /\ known = params /\ changed = FALSE /\ moved = FALSE
  /\ ignored = FALSE /\ excused = FALSE /\ finished = 0 /\ repeated = 0
  /\ faults = 0 /\ edits = 0 /\ reruns = 0
-----------------------------------------------------------------------------
(* A request is answered and the script goes on, or its answer is lost, or  *)
(* the script is killed before it goes on.                                  *)
Fault == faults < MaxFaults /\ faults' = faults + 1

Then(next) ==
  \/ pc' = next /\ UNCHANGED faults
  \/ Fault /\ pc' = "failed"

(* The API answers within NIFI_API_WAIT_RETRIES *)
Ready ==
  /\ pc = "wait"
  /\ Then("create")
  /\ UNCHANGED <<nifi, import, seen, history, edits, reruns>>

\* Variant: a context that exists already ends the attempt.
CreateOnce ==
  /\ pc = "create"
  /\ context' = TRUE
  /\ params' = IF context THEN params ELSE [p \in Required |-> "script"]
  /\ IF context THEN pc' = "failed" /\ UNCHANGED faults ELSE Then("find")
  /\ UNCHANGED <<applied, template, flows, import, seen, history, edits, reruns>>

(* 201, or 409 if a context of that name exists, which is as good *)
Create ==
  /\ pc = "create"
  /\ context' = TRUE
  /\ params' = IF context THEN params ELSE [p \in Required |-> "script"]
  /\ Then("find")
  /\ UNCHANGED <<applied, template, flows, import, seen, history, edits, reruns>>

(* The context is listed within ten tries *)
Find ==
  /\ pc = "find"
  /\ Then("inspect")
  /\ UNCHANGED <<nifi, import, seen, history, edits, reruns>>

(* What NiFi answers a GET of the context with: the name of every parameter *)
(* in it, and for a sensitive one a mask in place of its value.             *)
Shown ==
  [p \in Required |-> IF p \in Sensitive /\ params[p] # "none" THEN "mask" ELSE params[p]]

\* Variant: a context that lacks nothing is taken to be in use already.
InspectApplied ==
  /\ pc = "inspect"
  /\ known' = Shown /\ changed' = FALSE
  /\ Then(IF \E p \in Required : params[p] = "none" THEN "update"
          ELSE IF import THEN "upload" ELSE "done")
  /\ UNCHANGED <<nifi, import, moved, history, edits, reruns>>

(* The context is read, with its revision *)
Inspect ==
  /\ pc = "inspect"
  /\ known' = Shown /\ changed' = FALSE
  /\ Then(IF \E p \in Required : params[p] = "none" THEN "update" ELSE "revision")
  /\ UNCHANGED <<nifi, import, moved, history, edits, reruns>>

\* Variant: what .env leaves out is written as an empty value.
CompletedEmpty == [p \in Required |-> IF known[p] = "none" THEN "" ELSE known[p]]

Completed == [p \in Required |-> IF known[p] = "none" THEN "script" ELSE known[p]]

\* Variant: the revision is read again before the PUT.
UpdateBlind ==
  /\ pc = "update"
  /\ params' = Completed
  /\ Then("revision")
  /\ UNCHANGED <<context, applied, template, flows, import, seen, history, edits, reruns>>

(* All parameters are put back as they were read, the mask in place of a    *)
(* sensitive value as well, and those that are missing are added.           *)
Update ==
  /\ pc = "update" /\ ~changed
  /\ params' = Completed
  /\ Then("revision")
  /\ UNCHANGED <<context, applied, template, flows, import, seen, history, edits, reruns>>

(* The revision of the context is out of date: the attempt ends *)
UpdateConflict ==
  /\ pc = "update" /\ changed
  /\ pc' = "failed"
  /\ UNCHANGED <<nifi, import, seen, history, faults, edits, reruns>>

(* The id and the revision of the root group *)
Revision ==
  /\ pc = "revision"
  /\ moved' = FALSE
  /\ Then("apply")
  /\ UNCHANGED <<nifi, import, known, changed, history, edits, reruns>>

AfterApply == IF import THEN "upload" ELSE "done"
Finishes == finished' = IF pc' = "done" THEN finished + 1 ELSE finished

(* Nobody looks at the status of this PUT: one refused for its revision ... *)
Apply ==
  /\ pc = "apply"
  /\ applied' = (applied \/ ~moved)
  /\ ignored' = moved
  /\ Then(AfterApply)
  /\ Finishes
  /\ UNCHANGED <<context, params, template, flows, import, seen, excused, repeated, edits, reruns>>

(* ... or for another reason is a success as well. *)
ApplyRefused ==
  /\ pc = "apply"
  /\ Fault
  /\ ignored' = TRUE
  /\ pc' = AfterApply
  /\ Finishes
  /\ UNCHANGED <<nifi, import, seen, excused, repeated, edits, reruns>>

(* The upload of a template whose name is taken is refused, and the id of   *)
(* that one resolved.                                                       *)
Upload ==
  /\ pc = "upload"
  /\ template' = TRUE
  /\ Then(IF template THEN "resolve" ELSE "instantiate")
  /\ UNCHANGED <<context, params, applied, flows, import, seen, history, edits, reruns>>

(* A template uploaded anew is answered with its id, which the script may   *)
(* not find: it looks for JSON, and NiFi may answer in XML.                 *)
UploadUnreadable ==
  /\ pc = "upload" /\ ~template
  /\ template' = TRUE
  /\ pc' = "failed"
  /\ UNCHANGED <<context, params, applied, flows, import, seen, history, faults, edits, reruns>>

Resolve ==
  /\ pc = "resolve"
  /\ Then("instantiate")
  /\ UNCHANGED <<nifi, import, seen, history, edits, reruns>>

(* Another copy of the flow, whether one is there or not *)
Instantiate ==
  /\ pc = "instantiate"
  /\ flows' = flows + 1
  /\ Then("done")
  /\ Finishes
  /\ repeated' = IF pc' = "done" THEN repeated ELSE repeated + 1
  /\ UNCHANGED <<context, params, applied, template, import, seen, ignored, excused, edits, reruns>>

(* 409 is taken for a success *)
InstantiateRefused ==
  /\ pc = "instantiate"
  /\ Fault
  /\ excused' = TRUE
  /\ pc' = "done" /\ Finishes
  /\ UNCHANGED <<nifi, import, seen, ignored, repeated, edits, reruns>>

Script ==
  \/ Ready \/ Create \/ Find \/ Inspect \/ Update \/ UpdateConflict \/ Revision \/ Apply
  \/ ApplyRefused \/ Upload \/ UploadUnreadable \/ Resolve \/ Instantiate \/ InstantiateRefused
-----------------------------------------------------------------------------
(* A request is refused or gets no answer, and NiFi has not carried it out *)
RequestFails ==
  /\ pc \in Steps
  /\ Fault
  /\ pc' = "failed"
  /\ UNCHANGED <<nifi, import, seen, history, edits, reruns>>

(* restart: on-failure *)
Restart ==
  /\ pc = "failed"
  /\ pc' = "wait"
  /\ UNCHANGED <<nifi, import, seen, history, faults, edits, reruns>>

(* docker compose up, on a NiFi that has been set up *)
UpAgain ==
  /\ pc = "done" /\ reruns < MaxReruns
  /\ reruns' = reruns + 1
  /\ pc' = "wait"
  /\ UNCHANGED <<nifi, import, seen, history, faults, edits>>

(* Operators at the canvas *)
EditParameter(p) ==
  /\ context /\ edits < MaxEdits
  /\ edits' = edits + 1
  /\ params' = [params EXCEPT ![p] = "operator"]
  /\ changed' = TRUE
  /\ UNCHANGED <<context, applied, template, flows, import, pc, known, moved, history, faults, reruns>>

EditGroup ==
  /\ edits < MaxEdits
  /\ edits' = edits + 1
  /\ moved' = TRUE
  /\ UNCHANGED <<nifi, import, pc, known, changed, history, faults, reruns>>

Next ==
  \/ Script \/ RequestFails \/ Restart \/ UpAgain
  \/ (\E p \in Required : EditParameter(p)) \/ EditGroup

Spec == Init /\ [][Next]_vars
FairSpec == Spec /\ WF_vars(Script) /\ WF_vars(Restart)
-----------------------------------------------------------------------------
(* Type correctness *)
Values == {"none", "script", "operator", "mask"}

TypeOK ==
  /\ context \in BOOLEAN /\ applied \in BOOLEAN /\ template \in BOOLEAN /\ import \in BOOLEAN
  /\ params \in [Required -> Values] /\ known \in [Required -> Values]
  /\ flows \in Nat /\ finished \in Nat /\ repeated \in Nat
  /\ pc \in Steps \cup {"failed", "done"}
  /\ changed \in BOOLEAN /\ moved \in BOOLEAN /\ ignored \in BOOLEAN /\ excused \in BOOLEAN
  /\ faults \in 0..MaxFaults /\ edits \in 0..MaxEdits /\ reruns \in 0..MaxReruns

(* A value that an operator has given to a parameter is never overwritten,  *)
(* although init.sh puts all parameters back that it has read before: the   *)
(* revision it sends with them is the one it read.  A sensitive parameter   *)
(* is excepted, whose value is lost when another parameter is missing.      *)
OperatorValuesKept ==
  [][\A p \in Required \ Sensitive :
       params[p] = "operator" => params'[p] = "operator"]_vars

(* When an attempt ends well, whatever state an earlier one or an operator  *)
(* has left NiFi in, no parameter is missing, the root group has the        *)
(* context unless it refused it unnoticed, and the flow is there unless its *)
(* instantiation was refused; and there are no more copies of it than       *)
(* attempts that ended well or lost the answer of the last request.         *)
EndsConfigured ==
  pc = "done" =>
    /\ context /\ \A p \in Required : params[p] # "none"
    /\ applied \/ ignored
    /\ import => flows > 0 \/ excused
    /\ flows <= finished + repeated

(* README.md:91 "Initialization scripts automatically configure ...": from  *)
(* wherever an attempt has failed, another one gets to the end of init.sh.  *)
ProvisioningCompletes == <>[](pc = "done")
=============================================================================
