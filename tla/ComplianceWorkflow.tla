------------------------- MODULE ComplianceWorkflow -------------------------
(***************************************************************************)
(* The fixed administrative workflow of src/compliance_agent/workflow: one *)
(* typed message travels along the graph of build.py, each executor of     *)
(* executors.py handles it and sends the next one.  The run shares Google  *)
(* Workspace with other administrators, whose edits may fall between any   *)
(* two awaits, and it can end in an exception at every step.               *)
(*                                                                         *)
(* Data.  A blocked-sender configuration maps every resource identity to   *)
(* its value or to Absent, one configuration per organizational unit (OU). *)
(* Names of unmanaged rules are a key that no plan touches.  A canonical   *)
(* hash is represented by the value it is the hash of.                     *)
(***************************************************************************)
EXTENDS Naturals, FiniteSets

CONSTANTS
  Keys,              \* identities of address lists and rules
  Values,            \* what a key may hold, Absent included
  Absent,            \* the resource does not exist
  OUs,               \* organizational units the reader may report
  Root,              \* the OU "/"
  None,              \* Python's None
  TaskPlans,         \* the plans the planner may return
  InitialConfigs,    \* Google's configurations when the run starts
  InitialRegistries, \* local ownership registries when the run starts
  ExternalEdits,     \* <<ou, key, value>>: edits other administrators make
  LateSaves          \* may a save land after the writer lost its response?

Config      == [Keys -> Values]
Observation == [ou : OUs, res : Config]
Operations  == {"keep", "create", "update", "remove"}
TaskPlan    == [status : {"plan", "clarification_needed", "unsupported"},
                ou : OUs \cup {None},    \* None: no action names a target_ou
                op : [Keys -> Operations], val : [Keys -> Values]]
Registry    == [Keys -> OUs \cup {None}]

\* PreparedChangeMessage: the plan, the state it was computed from and the
\* state it is to reach (the change set is the pair before, after).
PreparedChange == [plan : TaskPlan, before : Observation, after : Observation]

\* ConfirmationResponse: the verdict and the three hashes it carries.
ConfirmationResponse == [approved : BOOLEAN, change : PreparedChange]

RunStatus ==
  {"UNSUPPORTED", "NO_CHANGE_REQUIRED", "CONFIRMATION_REJECTED",
   "FAILED_UNCHANGED", "PARTIALLY_APPLIED", "INDETERMINATE",
   "APPLIED_PENDING_PROPAGATION"}
MutationStatus == {"completed", "unchanged", "uncertain", "partial"}
Warnings       == {"audit_gap", "ownership_not_committed", "finalization_failed"}
RunResult      == [status : RunStatus, warnings : SUBSET Warnings]

ASSUME ConstantsAssumption ==
  /\ Absent \in Values
  /\ Root \in OUs
  /\ None \notin OUs
  /\ None \notin TaskPlan
  /\ None \notin PreparedChange
  /\ None \notin ConfirmationResponse
  /\ None \notin Observation
  /\ None \notin RunResult
  /\ TaskPlans \subseteq TaskPlan
  /\ InitialConfigs \subseteq [OUs -> Config]
  /\ InitialRegistries \subseteq Registry
  /\ ExternalEdits \subseteq OUs \X Keys \X Values
  /\ LateSaves \in BOOLEAN

Executors ==
  {"planner", "plan_decision", "clarification", "preflight", "login",
   "read_current_state", "compute_change", "confirmation",
   "awaiting_confirmation", "reread_current_state", "drift_check", "mutation",
   "writing", "reconciliation", "verification", "verification_decision",
   "audit_finalization"}
Ended == {"yielded", "aborted"}

VARIABLES
  node,            \* where the message in flight is
  plan,            \* PlannedTaskMessage.plan
  currentState,    \* CurrentStateMessage.current_state
  prepared,        \* PreparedChangeMessage in flight
  approval,        \* ApprovedChangeMessage.approval
  observedState,   \* state carried by FreshState/VerificationResultMessage
  retryCount,      \* MutationCommandMessage.retry_count
  mutationStatus,  \* MutationResult.status of the last attempt
  result,          \* WorkflowTerminalMessage.result, then the output
  \* the auditor (WorkflowAuditService) and what it made durable
  mutationStarted, \* _mutation_started
  auditWarning,    \* _warnings is not empty
  evidence,        \* latest durable event of three kinds
  finalized,       \* the manifest of the run exists
  \* the world
  google,          \* the Workspace configuration
  unsaved,         \* keys of the attempt whose save has not landed
  registry,        \* the ownership registry file
  ownership,       \* the registry as loaded when the run was composed
  \* history
  shown,           \* changes an operator was asked to confirm
  answers,         \* responses an operator gave
  lastRead,        \* the last state any reader returned
  unread,          \* the writer saved something after the last read
  effect           \* ... and no later read found the before-state again

message == <<plan, currentState, prepared, approval, observedState,
             retryCount, mutationStatus, result>>
auditor == <<mutationStarted, auditWarning, evidence, finalized>>
world   == <<google, unsaved, registry, ownership>>
history == <<shown, answers, lastRead, unread, effect>>
vars    == <<node, message, auditor, world, history>>

Evidence ==
  [prepared  : PreparedChange \cup {None},
   confirmed : ConfirmationResponse \cup {None},
   attempted : [{1, 2} -> PreparedChange \cup {None}]]

Init ==
  /\ node = "planner"
  /\ plan = None
  /\ currentState = None /\ prepared = None /\ approval = None
  /\ observedState = None /\ retryCount = 0
  /\ mutationStatus = None /\ result = None
  /\ mutationStarted = FALSE /\ auditWarning = FALSE /\ finalized = FALSE
  /\ evidence = [prepared |-> None, confirmed |-> None,
                 attempted |-> [i \in {1, 2} |-> None]]
  /\ google \in InitialConfigs
  /\ unsaved = {}
  /\ registry \in InitialRegistries
  /\ ownership = registry
  /\ shown = {} /\ answers = {} /\ lastRead = None
  /\ unread = FALSE /\ effect = FALSE

-----------------------------------------------------------------------------
(* Pure policy: desired state, drift, confirmation, verification, report.  *)

\* ChangeService.calculate raises: a named OU that is not the observed one, a
\* created identity that already exists, or an edited resource that was not
\* observed or whose ownership the loaded registry does not establish.
Calculable(p, s) ==
  /\ p.ou \in {None, s.ou}
  /\ \A k \in Keys :
       /\ p.op[k] = "create" => s.res[k] = Absent
       /\ p.op[k] \in {"update", "remove"} =>
            s.res[k] # Absent /\ ownership[k] = s.ou

\* calculate_desired_state
DesiredState(p, s) ==
  [ou  |-> s.ou,
   res |-> [k \in Keys |-> CASE p.op[k] = "keep"   -> s.res[k]
                              [] p.op[k] = "remove" -> Absent
                              [] OTHER              -> p.val[k]]]

\* calculate_change_set: the resources to create, update or remove.
ChangedKeys(c) == {k \in Keys : c.before.res[k] # c.after.res[k]}
CreatedKeys(c) == {k \in ChangedKeys(c) : c.before.res[k] = Absent}
RemovedKeys(c) == {k \in ChangedKeys(c) : c.after.res[k] = Absent}

\* require_root_ou, and a defect of it: any OU passes.
AnyOuConfirmed(s) == s.ou \in OUs
RootOuConfirmed(s) == s.ou = Root

\* The hash comparison at the end of validate_confirmation; require_root_ou
\* before it raises an exception that the two callers below do not catch.
ConfirmationMatches(a, c, s) ==
  a.approved /\ a.change = [plan |-> c.plan, before |-> s, after |-> c.after]

\* verify_state compares resources and unmanaged names, not the target OU; and
\* a defect of it: one resource as desired is enough.
PartIsEnough(desired, observed) ==
  \E k \in Keys : desired.res[k] = observed.res[k]
Matched(desired, observed) == desired.res = observed.res

\* _has_any_desired_change
AnyDesiredChange(c, s) == \E k \in ChangedKeys(c) : s.res[k] = c.after.res[k]

\* determine_run_result, for the mutation results that reach verification, and
\* two defects of it: a mismatch never leaves doubt, a writer that reports
\* completion is believed.
MismatchIsUnchanged(mutation, matched) ==
  IF matched THEN "APPLIED_PENDING_PROPAGATION" ELSE "FAILED_UNCHANGED"

CompletionIsBelieved(mutation, matched) ==
  IF matched \/ mutation = "completed"
    THEN "APPLIED_PENDING_PROPAGATION" ELSE "INDETERMINATE"

VerifiedStatus(mutation, matched) ==
  CASE matched                  -> "APPLIED_PENDING_PROPAGATION"
    [] mutation = "unchanged"   -> "FAILED_UNCHANGED"
    [] OTHER                    -> "INDETERMINATE"

-----------------------------------------------------------------------------
(* Building blocks of the handlers.                                         *)

\* Send a WorkflowTerminalMessage.
Terminate(status) ==
  /\ node' = "audit_finalization"
  /\ result' = [status |-> status, warnings |-> {}]

\* A handler lets an exception escape: the run ends with no output.
Raise == node' = "aborted"

\* What a reader returns when its page shows OU u.
View(u) == [ou |-> u, res |-> google[u]]

\* Bookkeeping of a read that returned s.
Reads(s) ==
  /\ lastRead' = s
  /\ unread' = FALSE
  /\ effect' = IF prepared # None /\ s = prepared.before THEN FALSE ELSE effect

\* WorkflowAuditService._record: before a mutation started a failed write
\* raises (AuditWriteFailure below), afterwards it only leaves a warning.  Two
\* defects: the failure is always swallowed, the warning is forgotten.
SwallowsFailure(kept) == kept \in BOOLEAN
MayContinue(kept) == kept \/ mutationStarted

ForgetsWarning(kept) == UNCHANGED auditWarning /\ kept \in BOOLEAN
Records(kept) == auditWarning' = IF kept THEN auditWarning ELSE TRUE

-----------------------------------------------------------------------------
(* Planning, preflight and the first read.                                  *)

\* PlannerExecutor.handle
Planner(p) ==
  /\ node = "planner"
  /\ node' = "plan_decision"
  /\ plan' = p
  /\ UNCHANGED <<currentState, prepared, approval, observedState, retryCount,
                 mutationStatus, result, auditor, world, history>>

\* PlanDecisionExecutor.handle; a TaskPlan without a question is never
\* clarification_needed (schemas/plan.py rejects it).
PlanDecision ==
  /\ node = "plan_decision"
  /\ \/ /\ plan.status = "clarification_needed"
        /\ node' = "clarification"
        /\ UNCHANGED result
     \/ /\ plan.status = "unsupported"
        /\ Terminate("UNSUPPORTED")
     \/ /\ plan.status = "plan"
        /\ node' = "preflight"
        /\ UNCHANGED result
  /\ UNCHANGED <<plan, currentState, prepared, approval, observedState,
                 retryCount, mutationStatus, auditor, world, history>>

\* ClarificationExecutor.resume: the clarified request is planned again.
ClarificationResume ==
  /\ node = "clarification"
  /\ node' = "planner"
  /\ UNCHANGED <<message, auditor, world, history>>

\* PreflightExecutor.handle: the adapter reports a ready session with the
\* expected or with another identity, asks for a login, or fails.
Preflight(outcome) ==
  /\ node = "preflight"
  /\ \/ outcome = "ready" /\ node' = "read_current_state" /\ UNCHANGED result
     \/ outcome = "login_required" /\ node' = "login" /\ UNCHANGED result
     \/ /\ outcome \in {"identity_mismatch", "failed"}
        /\ Terminate("FAILED_UNCHANGED")
  /\ UNCHANGED <<plan, currentState, prepared, approval, observedState,
                 retryCount, mutationStatus, auditor, world, history>>

\* LoginExecutor.resume
LoginResume(completed) ==
  /\ node = "login"
  /\ IF completed
       THEN node' = "preflight" /\ UNCHANGED result
       ELSE Terminate("FAILED_UNCHANGED")
  /\ UNCHANGED <<plan, currentState, prepared, approval, observedState,
                 retryCount, mutationStatus, auditor, world, history>>

\* ReadCurrentStateExecutor.handle
ReadCurrentState(s) ==
  /\ node = "read_current_state"
  /\ node' = "compute_change"
  /\ Reads(s)
  /\ currentState' = s
  /\ UNCHANGED <<plan, prepared, approval, observedState, retryCount,
                 mutationStatus, result, auditor, world,
                 shown, answers>>

\* A StateReadFailure in each of the four reading executors.
StateReadFailure ==
  /\ \/ /\ node \in {"read_current_state", "reread_current_state"}
        /\ Terminate("FAILED_UNCHANGED")
     \/ /\ node \in {"reconciliation", "verification"}
        /\ Terminate("INDETERMINATE")
  /\ UNCHANGED <<plan, currentState, prepared, approval, observedState,
                 retryCount, mutationStatus, auditor, world, history>>

-----------------------------------------------------------------------------
(* Proposal, confirmation and the pre-write gate.                           *)

\* ComputeChangeExecutor.handle
ComputeChange ==
  LET c == [plan |-> plan, before |-> currentState,
            after |-> DesiredState(plan, currentState)]
  IN /\ node = "compute_change"
     /\ \/ /\ ~Calculable(plan, currentState)
           /\ Terminate("FAILED_UNCHANGED")
           /\ UNCHANGED <<prepared, evidence>>
        \/ /\ Calculable(plan, currentState)
           /\ evidence' = [evidence EXCEPT !.prepared = c]
           /\ IF ChangedKeys(c) = {}
                THEN /\ Terminate("NO_CHANGE_REQUIRED")
                     /\ UNCHANGED prepared
                ELSE /\ node' = "confirmation"
                     /\ prepared' = c
                     /\ UNCHANGED result
     /\ UNCHANGED <<plan, currentState, approval, observedState, retryCount,
                    mutationStatus, mutationStarted, auditWarning, finalized,
                    world, history>>

\* ConfirmationExecutor.request
ConfirmationRequest ==
  /\ node = "confirmation"
  /\ node' = "awaiting_confirmation"
  /\ shown' = shown \cup {prepared}
  /\ UNCHANGED <<message, auditor, world,
                 answers, lastRead, unread, effect>>

\* ConfirmationExecutor.resume: the operator answers with the hashes of a
\* prompt of this run, which need not be the one that is waiting.
ConfirmationResume(a) ==
  /\ node = "awaiting_confirmation"
  /\ a.change \in shown
  /\ answers' = answers \cup {a}
  /\ evidence' = [evidence EXCEPT !.confirmed = a]
  /\ \/ /\ ~a.approved
        /\ Terminate("CONFIRMATION_REJECTED")
        /\ UNCHANGED approval
     \/ /\ a.approved /\ a.change # prepared
        /\ Terminate("FAILED_UNCHANGED")
        /\ UNCHANGED approval
     \/ /\ a.approved /\ a.change = prepared
        /\ node' = "reread_current_state"
        /\ approval' = a
        /\ UNCHANGED result
  /\ UNCHANGED <<plan, currentState, prepared, observedState, retryCount,
                 mutationStatus, mutationStarted, auditWarning, finalized,
                 world, shown, lastRead, unread, effect>>

\* ReReadStateExecutor.handle, and a defect of it: the state that the change
\* was computed from is sent on instead of the fresh one.
ForwardsOldState(s) ==
  /\ node = "reread_current_state"
  /\ node' = "drift_check"
  /\ Reads(s)
  /\ observedState' = currentState
  /\ UNCHANGED <<plan, currentState, prepared, approval, retryCount,
                 mutationStatus, result, auditor, world,
                 shown, answers>>

ReReadState(s) ==
  /\ node = "reread_current_state"
  /\ node' = "drift_check"
  /\ Reads(s)
  /\ observedState' = s
  /\ UNCHANGED <<plan, currentState, prepared, approval, retryCount,
                 mutationStatus, result, auditor, world,
                 shown, answers>>

\* DriftCheckExecutor.handle: on drift the change is computed and confirmed
\* again; RootOuNotConfirmed is not caught.
DriftCheck ==
  /\ node = "drift_check"
  /\ \/ /\ observedState # prepared.before
        /\ node' = "compute_change"
        /\ currentState' = observedState
        /\ prepared' = None /\ approval' = None
        /\ UNCHANGED result
     \/ /\ observedState = prepared.before
        /\ UNCHANGED <<currentState, prepared, approval>>
        /\ \/ /\ ~RootOuConfirmed(observedState)
              /\ Raise
              /\ UNCHANGED result
           \/ /\ RootOuConfirmed(observedState)
              /\ IF ConfirmationMatches(approval, prepared, observedState)
                   THEN node' = "mutation" /\ UNCHANGED result
                   ELSE Terminate("FAILED_UNCHANGED")
  /\ UNCHANGED <<plan, observedState, retryCount, mutationStatus, auditor,
                 world, shown, answers, lastRead, unread, effect>>

-----------------------------------------------------------------------------
(* The write, its reconciliation and its verification.                      *)

\* MutationExecutor.handle up to the await of writer.apply: the attempt is on
\* disk first.  Only the retry goes on when the record fails (_record).
MutationStart(kept) ==
  /\ node = "mutation"
  /\ node' = "writing"
  /\ MayContinue(kept)
  /\ Records(kept)
  /\ evidence' = IF kept
                   THEN [evidence EXCEPT !.attempted[retryCount + 1] = prepared]
                   ELSE evidence
  /\ mutationStarted' = TRUE
  /\ unsaved' = ChangedKeys(prepared)
  /\ UNCHANGED <<message, finalized, google, registry, ownership, history>>

\* The writer (or, with LateSaves, Google finishing a request whose response
\* was lost) saves one resource of the approved change set.
SaveResource(k) ==
  /\ node = "writing" \/ LateSaves
  /\ k \in unsaved
  /\ google' = [google EXCEPT ![prepared.before.ou][k] = prepared.after.res[k]]
  /\ unsaved' = unsaved \ {k}
  /\ unread' = (node = "writing" \/ unread)
  /\ effect' = (node = "writing" \/ effect)
  /\ UNCHANGED <<node, message, auditor, registry, ownership,
                 shown, answers, lastRead>>

\* The rest of MutationExecutor.handle.  The writer reports what it saw:
\* "unchanged" when it saved nothing, "partial" when it stopped half way;
\* FailureMappingWriter turns every expected exception into "uncertain".
MutationFinish(status, kept) ==
  /\ node = "writing"
  /\ status = "unchanged" => unsaved = ChangedKeys(prepared)
  /\ status = "partial" => unsaved # ChangedKeys(prepared)
  /\ mutationStatus' = status
  /\ unsaved' = IF LateSaves THEN unsaved ELSE {}
  /\ Records(kept)
  /\ \/ /\ status = "partial"
        /\ Terminate("PARTIALLY_APPLIED")
     \/ /\ status = "uncertain"
        /\ node' = "reconciliation"
        /\ UNCHANGED result
     \/ /\ status \in {"completed", "unchanged"}
        /\ node' = "verification"
        /\ UNCHANGED result
  /\ UNCHANGED <<plan, currentState, prepared, approval, observedState,
                 retryCount, mutationStarted, evidence, finalized,
                 google, registry, ownership, history>>

\* _retry_preconditions_hold, given a read-back equal to the before-state, and
\* a defect of it: the retry is not counted.
RetriesForEver(s) ==
  /\ ConfirmationMatches(approval, prepared, s)
  /\ RootOuConfirmed(s)

RetryIsSafe(s) ==
  /\ retryCount = 0
  /\ ConfirmationMatches(approval, prepared, s)
  /\ RootOuConfirmed(s)

\* ReconciliationExecutor.handle after its read: the root-OU check inside
\* _confirmation_remains_valid raises before anything is classified.
Reconciliation(s, kept) ==
  /\ node = "reconciliation"
  /\ Reads(s)
  /\ IF ~RootOuConfirmed(s)
       THEN /\ Raise
            /\ UNCHANGED <<observedState, retryCount, result, auditWarning>>
       ELSE /\ Records(kept)
            /\ \/ /\ Matched(prepared.after, s)
                  /\ node' = "verification_decision"
                  /\ observedState' = s
                  /\ UNCHANGED <<retryCount, result>>
               \/ /\ ~Matched(prepared.after, s) /\ s = prepared.before
                  /\ IF RetryIsSafe(s)
                       THEN /\ node' = "mutation"
                            /\ retryCount' = 1
                            /\ UNCHANGED result
                       ELSE /\ Terminate("FAILED_UNCHANGED")
                            /\ UNCHANGED retryCount
                  /\ UNCHANGED observedState
               \/ /\ ~Matched(prepared.after, s) /\ s # prepared.before
                  /\ Terminate(IF AnyDesiredChange(prepared, s)
                                 THEN "PARTIALLY_APPLIED"
                                 ELSE "INDETERMINATE")
                  /\ UNCHANGED <<observedState, retryCount>>
  /\ UNCHANGED <<plan, currentState, prepared, approval, mutationStatus,
                 mutationStarted, evidence, finalized, world, shown, answers>>

\* VerificationExecutor.handle
Verification(s, kept) ==
  /\ node = "verification"
  /\ node' = "verification_decision"
  /\ Reads(s)
  /\ observedState' = s
  /\ Records(kept)
  /\ UNCHANGED <<plan, currentState, prepared, approval, retryCount,
                 mutationStatus, result, mutationStarted, evidence, finalized,
                 world, shown, answers>>

\* OwnershipLifecycleService.commit_verified: the read-back it insists on, a
\* defect of that check, and the registry it saves.
MatchIsNotRequired(c, s) == c.after.ou = s.ou
ReadBackConfirms(c, s) == Matched(c.after, s) /\ s = c.after

CommittedRegistry(c) ==
  [k \in Keys |-> CASE k \in CreatedKeys(c) -> c.after.ou
                    [] k \in RemovedKeys(c) -> None
                    [] OTHER                -> registry[k]]

\* VerificationDecisionExecutor.handle: commit_verified wants the read-back to
\* equal the whole expected state; a failed commit only leaves a warning.
VerificationDecision(saved, kept) ==
  LET matched == Matched(prepared.after, observedState)
      commits == ReadBackConfirms(prepared, observedState) /\ saved
      status  == VerifiedStatus(mutationStatus, matched)
  IN /\ node = "verification_decision"
     /\ node' = "audit_finalization"
     /\ registry' = IF commits THEN CommittedRegistry(prepared) ELSE registry
     /\ result' = [status |-> status,
                   warnings |-> IF matched /\ ~commits
                                  THEN {"ownership_not_committed"} ELSE {}]
     /\ IF matched /\ ~commits THEN UNCHANGED auditWarning ELSE Records(kept)
     /\ UNCHANGED <<plan, currentState, prepared, approval, observedState,
                    retryCount, mutationStatus, mutationStarted, evidence,
                    finalized, google, unsaved, ownership, history>>

\* AuditFinalizationExecutor.handle
AuditFinalization(kept) ==
  LET warned == result.warnings \cup (IF auditWarning THEN {"audit_gap"} ELSE {})
  IN /\ node = "audit_finalization"
     /\ node' = "yielded"
     /\ finalized' = kept
     /\ result' =
          CASE kept            -> [result EXCEPT !.warnings = warned]
            [] ~kept /\ mutationStarted ->
                 [result EXCEPT !.warnings = warned \cup {"finalization_failed"}]
            [] OTHER           -> [status |-> "FAILED_UNCHANGED",
                                   warnings |-> warned]
     /\ UNCHANGED <<plan, currentState, prepared, approval, observedState,
                    retryCount, mutationStatus, mutationStarted, auditWarning,
                    evidence, world, history>>

-----------------------------------------------------------------------------
(* Exceptions and the rest of the world.                                    *)

\* WorkflowAuditService._record raises: no mutation started yet, so the
\* exception leaves the handler and the run ends.
AuditWriteFailure ==
  /\ ~mutationStarted
  /\ \/ node \in {"planner", "preflight", "read_current_state",
                  "awaiting_confirmation", "reread_current_state", "mutation"}
     \/ node = "compute_change" /\ Calculable(plan, currentState)
  /\ Raise
  /\ UNCHANGED <<message, auditor, world,
                 shown, answers, lastRead, unread, effect>>

\* Any other exception no executor maps, or the end of the process.
Crash ==
  /\ node \in Executors
  /\ Raise
  /\ UNCHANGED <<message, auditor, world,
                 shown, answers, lastRead, unread, effect>>

\* Another administrator edits the Workspace while the run is under way.
ExternalEdit(ou, k, v) ==
  /\ node \in Executors
  /\ google' = [google EXCEPT ![ou][k] = v]
  /\ UNCHANGED <<node, message, auditor, unsaved, registry, ownership, history>>

\* A run that ended stays as it is.
Stopped ==
  /\ node \in Ended
  /\ UNCHANGED vars

\* What the graph runs by itself; the other steps are the operator's, the
\* other administrators' or failures.
Handler ==
  \/ \E p \in TaskPlans : Planner(p)
  \/ PlanDecision
  \/ \E o \in {"ready", "login_required", "identity_mismatch", "failed"} :
       Preflight(o)
  \/ \E u \in OUs : ReadCurrentState(View(u))
  \/ ComputeChange
  \/ ConfirmationRequest
  \/ \E u \in OUs : ReReadState(View(u))
  \/ DriftCheck
  \/ \E kept \in BOOLEAN : MutationStart(kept)
  \/ \E status \in MutationStatus, kept \in BOOLEAN :
       MutationFinish(status, kept)
  \/ \E u \in OUs, kept \in BOOLEAN : Reconciliation(View(u), kept)
  \/ \E u \in OUs, kept \in BOOLEAN : Verification(View(u), kept)
  \/ \E saved, kept \in BOOLEAN : VerificationDecision(saved, kept)
  \/ \E kept \in BOOLEAN : AuditFinalization(kept)

Operator ==
  \/ ClarificationResume
  \/ \E completed \in BOOLEAN : LoginResume(completed)
  \/ \E c \in shown, ok \in BOOLEAN :
       ConfirmationResume([approved |-> ok, change |-> c])

Next ==
  \/ Handler
  \/ Operator
  \/ StateReadFailure
  \/ AuditWriteFailure
  \/ Crash
  \/ \E k \in Keys : SaveResource(k)
  \/ \E e \in ExternalEdits : ExternalEdit(e[1], e[2], e[3])
  \/ Stopped

Spec == Init /\ [][Next]_vars

\* The framework keeps delivering the message in flight; nobody has to answer.
FairSpec == Spec /\ WF_vars(Handler)

-----------------------------------------------------------------------------
(* Properties.                                                              *)

\* Every variable keeps the type of the message field, file or history it
\* stands for.
TypeOK ==
  /\ node \in Executors \cup Ended
  /\ plan \in TaskPlan \cup {None}
  /\ currentState \in Observation \cup {None}
  /\ prepared \in PreparedChange \cup {None}
  /\ approval \in ConfirmationResponse \cup {None}
  /\ observedState \in Observation \cup {None}
  /\ retryCount \in {0, 1}
  /\ mutationStatus \in MutationStatus \cup {None}
  /\ result \in RunResult \cup {None}
  /\ mutationStarted \in BOOLEAN
  /\ auditWarning \in BOOLEAN
  /\ evidence \in Evidence
  /\ finalized \in BOOLEAN
  /\ google \in [OUs -> Config]
  /\ unsaved \in SUBSET Keys
  /\ registry \in Registry
  /\ ownership \in Registry
  /\ shown \in SUBSET PreparedChange
  /\ answers \in SUBSET ConfirmationResponse
  /\ lastRead \in Observation \cup {None}
  /\ unread \in BOOLEAN
  /\ effect \in BOOLEAN

\* While a write is under way, an operator was shown exactly this change and
\* approved exactly it, and it concerns the root OU (drift_check and
\* validate_confirmation): neither an answer to an earlier prompt nor an
\* approval given before a drift authorizes anything.
WriteAuthorized ==
  node = "writing" =>
    /\ prepared \in shown
    /\ [approved |-> TRUE, change |-> prepared] \in answers
    /\ prepared.before.ou = Root

\* When an attempt starts, the first one or the retry, the last thing read
\* from Google is the state the approval was given for: no attempt, the
\* reconciliation retry included, starts from a state nobody approved.
AttemptStartsFromApprovedState ==
  [][node = "mutation" /\ node' = "writing" =>
       lastRead = prepared.before]_vars

\* A resource is saved only when the audit directory already holds the exact
\* change set, the exact approval and the command of the first attempt.
EvidenceBeforeSave ==
  [][google' # google /\ unsaved' # unsaved =>
       /\ evidence.prepared = prepared
       /\ evidence.confirmed = approval
       /\ evidence.attempted[1] = prepared]_vars

\* A status that says nothing was changed is true: the writer of this run
\* saved nothing, or a later read found the confirmed before-state again.  A
\* save that Google completes after the writer gave up is beyond its knowledge.
UnchangedIsHonest ==
  node = "yielded" /\ result.status \in {"UNSUPPORTED", "NO_CHANGE_REQUIRED",
                                         "CONFIRMATION_REJECTED",
                                         "FAILED_UNCHANGED"}
    => ~effect

\* APPLIED_PENDING_PROPAGATION is reported only for a change whose desired
\* resources were seen in a read later than every save of the writer.
AppliedIsObserved ==
  node = "yielded" /\ result.status = "APPLIED_PENDING_PROPAGATION" =>
    /\ mutationStarted
    /\ lastRead.res = prepared.after.res
    /\ ~unread

\* Whatever protected evidence the run failed to write once it had started to
\* mutate is disclosed in the result it yields.
EvidenceGapDisclosed ==
  node = "yielded" /\ mutationStarted =>
    /\ auditWarning \/ evidence.attempted[retryCount + 1] = None
         => "audit_gap" \in result.warnings
    /\ ~finalized => "finalization_failed" \in result.warnings

\* The ownership registry changes only for resources that the approved change
\* created or removed and that a read after the write showed in that state.
OwnershipFollowsReadBack ==
  [][\A k \in Keys : registry'[k] # registry[k] =>
       /\ [approved |-> TRUE, change |-> prepared] \in answers
       /\ k \in CreatedKeys(prepared) \cup RemovedKeys(prepared)
       /\ lastRead.res[k] = prepared.after.res[k]
       /\ (registry'[k] = None) = (lastRead.res[k] = Absent)]_vars

\* Once a mutation started the run ends, whatever the other administrators
\* do: reconciliation cannot send it round the retry loop for ever.
MutationConcludes == mutationStarted ~> node \in Ended

-----------------------------------------------------------------------------
(* The workflow as an ApprovalGate: a write is granted when its first       *)
(* attempt starts and again when reconciliation orders the retry.           *)

Refused == {"UNSUPPORTED", "NO_CHANGE_REQUIRED", "CONFIRMATION_REJECTED"}

ReportedOutcome ==
  CASE node # "yielded" -> None
    [] node = "yielded" /\ result.status \in Refused -> "refused"
    [] node = "yielded" /\ result.status = "APPLIED_PENDING_PROPAGATION"
         -> "applied"
    [] OTHER -> "other"

ApprovedChanges == {a.change : a \in {b \in answers : b.approved}}
GrantedChange   == IF mutationStarted THEN prepared ELSE None
Grants          == IF mutationStarted THEN retryCount + 1 ELSE 0

Gate == INSTANCE ApprovalGate WITH
  Changes  <- PreparedChange, States <- Observation, Registries <- Registry,
  MaxGrants <- 2,
  seen     <- lastRead,
  offered  <- shown,
  approved <- ApprovedChanges,
  granted  <- GrantedChange,
  grants   <- Grants,
  outcome  <- ReportedOutcome

\* The workflow keeps every promise of ApprovalGate.
ImplementsGate == Gate!Spec

=============================================================================
