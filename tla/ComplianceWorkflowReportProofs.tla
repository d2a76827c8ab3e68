------------------- MODULE ComplianceWorkflowReportProofs -------------------
(***************************************************************************)
(* What the result of a run of ComplianceWorkflow may and must say, what   *)
(* the ownership registry follows, and that the workflow implements        *)
(* ApprovalGate, for every value of the constants.                         *)
(***************************************************************************)
EXTENDS ComplianceWorkflowProofs

(***************************************************************************)
(* IInv says nothing about results.  Observed relates what the message     *)
(* carries to the last read, Effects says where the run can stand while    *)
(* one of its saves is in effect, and Reported ties a result to both.      *)
(* unread and effect are history of what the writer saved.                 *)
(***************************************************************************)
Finishing  == {"audit_finalization", "yielded"}
Unchanged  == Refused \cup {"FAILED_UNCHANGED"}

Observed ==
  /\ node = "compute_change" => lastRead = currentState
  /\ node = "confirmation" => lastRead = prepared.before
  /\ node = "verification_decision" => lastRead = observedState

Effects ==
  /\ effect => mutationStarted
  /\ node = "writing" => unsaved \subseteq ChangedKeys(prepared)
  /\ node = "writing" /\ effect => unsaved # ChangedKeys(prepared)
  /\ node = "mutation" => ~effect
  /\ node = "reconciliation" => mutationStatus = "uncertain"
  /\ node \in {"verification", "verification_decision"}
       /\ mutationStatus = "unchanged" => ~effect
  /\ node = "verification_decision" => ~unread

Reported ==
  node \in Finishing =>
    /\ result.status = "APPLIED_PENDING_PROPAGATION" =>
         mutationStarted /\ lastRead.res = prepared.after.res
    /\ result.status \in Refused => ~mutationStarted

Honest ==
  node \in Finishing =>
    /\ result.status \in Unchanged => ~effect
    /\ result.status = "APPLIED_PENDING_PROPAGATION" => ~unread

RInv == IInv /\ Observed /\ Reported
HInv == RInv /\ Effects /\ Honest

USE DEF message, auditor, world, history

(* The state a handler works on is the last one read, and a terminal result *)
(* agrees with what was started and read.                                   *)
LEMMA ReportStep == RInv /\ [Next]_vars => Observed' /\ Reported'
<1> SUFFICES ASSUME TypeOK, Carried, Authority, Observed, Reported, [Next]_vars
             PROVE  Observed' /\ Reported'
  BY DEF RInv, IInv
<1> USE DEF Observed, Reported, Refused, Finishing, Carried, Executors, Ended,
            Proposed, Approved, Commanded, Mutating, Unstarted
<1>1. ASSUME NEW p \in TaskPlans, Planner(p)
      PROVE Observed' /\ Reported'
  BY <1>1 DEF Planner
<1>2. CASE PlanDecision
  BY <1>2 DEF PlanDecision, Terminate
<1>3. CASE ClarificationResume
  BY <1>3 DEF ClarificationResume
<1>4. ASSUME NEW o, Preflight(o)
      PROVE Observed' /\ Reported'
  BY <1>4 DEF Preflight, Terminate
<1>5. ASSUME NEW b \in BOOLEAN, LoginResume(b)
      PROVE Observed' /\ Reported'
  BY <1>5 DEF LoginResume, Terminate
<1>6. ASSUME NEW u \in OUs, ReadCurrentState(View(u))
      PROVE Observed' /\ Reported'
  BY <1>6 DEF ReadCurrentState, Reads
<1>7. CASE StateReadFailure
  BY <1>7 DEF StateReadFailure, Terminate
<1>8. CASE ComputeChange
  BY <1>8 DEF ComputeChange, Terminate
<1>9. CASE ConfirmationRequest
  BY <1>9 DEF ConfirmationRequest
<1>10. ASSUME NEW a, ConfirmationResume(a)
      PROVE Observed' /\ Reported'
  BY <1>10 DEF ConfirmationResume, Terminate
<1>11. ASSUME NEW u \in OUs, ReReadState(View(u))
      PROVE Observed' /\ Reported'
  BY <1>11 DEF ReReadState, Reads
<1>12. CASE DriftCheck
  BY <1>12 DEF DriftCheck, Terminate, Raise, Authority
<1>13. ASSUME NEW kept \in BOOLEAN, MutationStart(kept)
      PROVE Observed' /\ Reported'
  BY <1>13 DEF MutationStart
<1>14. ASSUME NEW k \in Keys, SaveResource(k)
      PROVE Observed' /\ Reported'
  BY <1>14 DEF SaveResource
<1>15. ASSUME NEW status \in MutationStatus, NEW kept \in BOOLEAN,
             MutationFinish(status, kept)
      PROVE Observed' /\ Reported'
  BY <1>15 DEF MutationFinish, Terminate
<1>16. ASSUME NEW u \in OUs, NEW kept \in BOOLEAN, Reconciliation(View(u), kept)
      PROVE Observed' /\ Reported'
  BY <1>16 DEF Reconciliation, Reads, Terminate, Raise
<1>17. ASSUME NEW u \in OUs, NEW kept \in BOOLEAN, Verification(View(u), kept)
      PROVE Observed' /\ Reported'
  BY <1>17 DEF Verification, Reads
<1>18. ASSUME NEW saved \in BOOLEAN, NEW kept \in BOOLEAN,
             VerificationDecision(saved, kept)
      PROVE Observed' /\ Reported'
  BY <1>18 DEF VerificationDecision, VerifiedStatus, Matched
<1>19. ASSUME NEW kept \in BOOLEAN, AuditFinalization(kept)
      PROVE Observed' /\ Reported'
  BY <1>19 DEF AuditFinalization
<1>20. CASE AuditWriteFailure
  BY <1>20 DEF AuditWriteFailure, Raise
<1>21. CASE Crash
  BY <1>21 DEF Crash, Raise
<1>22. ASSUME NEW e \in ExternalEdits, ExternalEdit(e[1], e[2], e[3])
      PROVE Observed' /\ Reported'
  BY <1>22 DEF ExternalEdit
<1>23. CASE Stopped
  BY <1>23 DEF Stopped, vars
<1>24. CASE UNCHANGED vars
  BY <1>24 DEF vars
<1> QED
  BY <1>1, <1>2, <1>3, <1>4, <1>5, <1>6, <1>7, <1>8, <1>9, <1>10, <1>11,
     <1>12, <1>13, <1>14, <1>15, <1>16, <1>17, <1>18, <1>19, <1>20, <1>21,
     <1>22, <1>23, <1>24
     DEF Next, Handler, Operator

-----------------------------------------------------------------------------

(* The nodes from which a run can say "unchanged" are reached only while no  *)
(* save of its writer is in effect.                                         *)
LEMMA HonestStep ==
  ASSUME HInv, [Next]_vars
  PROVE  Effects' /\ Honest'
<1> SUFFICES ASSUME TypeOK, Carried, Authority, Observed, Reported, Effects,
                    Honest, [Next]_vars
             PROVE  Effects' /\ Honest'
  BY DEF HInv, RInv, IInv
<1> USE DEF Effects, Honest, Refused, Unchanged, Finishing, Carried, Executors,
            Ended, Proposed, Approved, Commanded, Mutating, Unstarted
<1>1. ASSUME NEW p \in TaskPlans, Planner(p)
      PROVE Effects' /\ Honest'
  BY <1>1 DEF Planner
<1>2. CASE PlanDecision
  BY <1>2 DEF PlanDecision, Terminate
<1>3. CASE ClarificationResume
  BY <1>3 DEF ClarificationResume
<1>4. ASSUME NEW o, Preflight(o)
      PROVE Effects' /\ Honest'
  BY <1>4 DEF Preflight, Terminate
<1>5. ASSUME NEW b \in BOOLEAN, LoginResume(b)
      PROVE Effects' /\ Honest'
  BY <1>5 DEF LoginResume, Terminate
<1>6. ASSUME NEW u \in OUs, ReadCurrentState(View(u))
      PROVE Effects' /\ Honest'
  BY <1>6 DEF ReadCurrentState, Reads
<1>7. CASE StateReadFailure
  BY <1>7 DEF StateReadFailure, Terminate
<1>8. CASE ComputeChange
  BY <1>8 DEF ComputeChange, Terminate
<1>9. CASE ConfirmationRequest
  BY <1>9 DEF ConfirmationRequest
<1>10. ASSUME NEW a, ConfirmationResume(a)
      PROVE Effects' /\ Honest'
  BY <1>10 DEF ConfirmationResume, Terminate
<1>11. ASSUME NEW u \in OUs, ReReadState(View(u))
      PROVE Effects' /\ Honest'
  BY <1>11 DEF ReReadState, Reads
<1>12. CASE DriftCheck
  BY <1>12 DEF DriftCheck, Terminate, Raise
<1>13. ASSUME NEW kept \in BOOLEAN, MutationStart(kept)
      PROVE Effects' /\ Honest'
  BY <1>13 DEF MutationStart
<1>14. ASSUME NEW k \in Keys, SaveResource(k)
      PROVE Effects' /\ Honest'
  BY <1>14 DEF SaveResource
<1>15. ASSUME NEW status \in MutationStatus, NEW kept \in BOOLEAN,
             MutationFinish(status, kept)
      PROVE Effects' /\ Honest'
  BY <1>15 DEF MutationFinish, Terminate
<1>16. ASSUME NEW u \in OUs, NEW kept \in BOOLEAN, Reconciliation(View(u), kept)
      PROVE Effects' /\ Honest'
  <2>1. View(u) = prepared.before => effect' = FALSE
    BY <1>16 DEF Reconciliation, Reads
  <2>2. effect' => mutationStarted'
    BY <1>16 DEF Reconciliation, Reads
  <2>3. unread' = FALSE
    BY <1>16 DEF Reconciliation, Reads
  <2>4. \/ node' = "aborted"
        \/ node' = "verification_decision" /\ mutationStatus' = mutationStatus
        \/ node' = "mutation" /\ View(u) = prepared.before
        \/ /\ node' = "audit_finalization"
           /\ result'.status \in {"PARTIALLY_APPLIED", "INDETERMINATE"}
        \/ /\ node' = "audit_finalization" /\ View(u) = prepared.before
           /\ result'.status = "FAILED_UNCHANGED"
    BY <1>16 DEF Reconciliation, Raise, Terminate
  <2> QED
    BY <1>16, <2>1, <2>2, <2>3, <2>4 DEF Reconciliation
<1>17. ASSUME NEW u \in OUs, NEW kept \in BOOLEAN, Verification(View(u), kept)
      PROVE Effects' /\ Honest'
  BY <1>17 DEF Verification, Reads
<1>18. ASSUME NEW saved \in BOOLEAN, NEW kept \in BOOLEAN,
             VerificationDecision(saved, kept)
      PROVE Effects' /\ Honest'
  BY <1>18 DEF VerificationDecision, VerifiedStatus, Matched
<1>19. ASSUME NEW kept \in BOOLEAN, AuditFinalization(kept)
      PROVE Effects' /\ Honest'
  BY <1>19 DEF AuditFinalization
<1>20. CASE AuditWriteFailure
  BY <1>20 DEF AuditWriteFailure, Raise
<1>21. CASE Crash
  BY <1>21 DEF Crash, Raise
<1>22. ASSUME NEW e \in ExternalEdits, ExternalEdit(e[1], e[2], e[3])
      PROVE Effects' /\ Honest'
  BY <1>22 DEF ExternalEdit
<1>23. CASE Stopped
  BY <1>23 DEF Stopped, vars
<1>24. CASE UNCHANGED vars
  BY <1>24 DEF vars
<1> QED
  BY <1>1, <1>2, <1>3, <1>4, <1>5, <1>6, <1>7, <1>8, <1>9, <1>10, <1>11,
     <1>12, <1>13, <1>14, <1>15, <1>16, <1>17, <1>18, <1>19, <1>20, <1>21,
     <1>22, <1>23, <1>24
     DEF Next, Handler, Operator

-----------------------------------------------------------------------------

(* The invariant about results holds in every state of every run.  *)
THEOREM ReportInvariant == Spec => []RInv
<1>1. Init => RInv
  BY InitIInv DEF Init, RInv, Observed, Reported, Finishing
<1>2. RInv /\ [Next]_vars => RInv'
  BY TypeStep, CarriedStep, AuthorityStep, ReportStep DEF RInv, IInv
<1> QED
  BY <1>1, <1>2, PTL DEF Spec

(* What is said about effects and unread saves holds as well.               *)
THEOREM HonestInvariant == Spec => []HInv
<1>1. Init => HInv
  BY InitIInv DEF Init, HInv, RInv, Observed, Reported, Effects, Honest,
     Finishing
<1>2. HInv /\ [Next]_vars => HInv'
  BY TypeStep, CarriedStep, AuthorityStep, ReportStep, HonestStep
     DEF HInv, RInv, IInv
<1> QED
  BY <1>1, <1>2, PTL DEF Spec

(* determine_run_result and reconcile_mutation never call a run unchanged   *)
(* while a save of its writer is in effect.                                 *)
THEOREM UnchangedReportsAreHonest == Spec => []UnchangedIsHonest
<1>1. HInv => UnchangedIsHonest
  BY DEF HInv, Honest, Finishing, Unchanged, Refused, UnchangedIsHonest
<1> QED
  BY <1>1, HonestInvariant, PTL

(* APPLIED_PENDING_PROPAGATION is only ever said of a change that was       *)
(* written and whose resources were seen after the writer's last save.      *)
THEOREM AppliedReportsAreObserved == Spec => []AppliedIsObserved
<1>1. HInv => AppliedIsObserved
  BY DEF HInv, RInv, Reported, Honest, Finishing, AppliedIsObserved
<1> QED
  BY <1>1, HonestInvariant, PTL

-----------------------------------------------------------------------------
(* Disclosure: an attempt whose record is missing has left a warning from  *)
(* the moment it started, and the result that is yielded repeats it.       *)
Disclosed ==
  mutationStarted =>
    /\ node \in Mutating \cup Finishing /\ evidence.attempted[retryCount + 1] = None =>
         auditWarning
    /\ node = "yielded" =>
         /\ auditWarning => "audit_gap" \in result.warnings
         /\ ~finalized => "finalization_failed" \in result.warnings

LEMMA DisclosedStep == IInv /\ Disclosed /\ [Next]_vars => Disclosed'
<1> SUFFICES ASSUME TypeOK, Carried, Disclosed, [Next]_vars
             PROVE  Disclosed'
  BY DEF IInv
<1> USE DEF Disclosed, Finishing, Carried, Executors, Ended, Proposed, Approved,
            Commanded, Mutating, Unstarted
<1>1. ASSUME NEW p \in TaskPlans, Planner(p)
      PROVE Disclosed'
  BY <1>1 DEF Planner
<1>2. CASE PlanDecision
  BY <1>2 DEF PlanDecision, Terminate
<1>3. CASE ClarificationResume
  BY <1>3 DEF ClarificationResume
<1>4. ASSUME NEW o, Preflight(o)
      PROVE Disclosed'
  BY <1>4 DEF Preflight, Terminate
<1>5. ASSUME NEW b \in BOOLEAN, LoginResume(b)
      PROVE Disclosed'
  BY <1>5 DEF LoginResume, Terminate
<1>6. ASSUME NEW u \in OUs, ReadCurrentState(View(u))
      PROVE Disclosed'
  BY <1>6 DEF ReadCurrentState
<1>7. CASE StateReadFailure
  BY <1>7 DEF StateReadFailure, Terminate
<1>8. CASE ComputeChange
  BY <1>8 DEF ComputeChange, Terminate
<1>9. CASE ConfirmationRequest
  BY <1>9 DEF ConfirmationRequest
<1>10. ASSUME NEW a, ConfirmationResume(a)
      PROVE Disclosed'
  BY <1>10 DEF ConfirmationResume, Terminate
<1>11. ASSUME NEW u \in OUs, ReReadState(View(u))
      PROVE Disclosed'
  BY <1>11 DEF ReReadState
<1>12. CASE DriftCheck
  BY <1>12 DEF DriftCheck, Terminate, Raise
<1>13. ASSUME NEW kept \in BOOLEAN, MutationStart(kept)
      PROVE Disclosed'
  <2>1. /\ node' = "writing" /\ mutationStarted' /\ retryCount' = retryCount
        /\ auditWarning' = IF kept THEN auditWarning ELSE TRUE
        /\ kept => evidence' = [evidence EXCEPT !.attempted[retryCount + 1] = prepared]
    BY <1>13 DEF MutationStart, Records
  <2>2. prepared # None
    BY <1>13 DEF MutationStart
  <2>3. evidence.attempted \in [{1, 2} -> PreparedChange \cup {None}] /\ retryCount + 1 \in {1, 2}
    BY DEF TypeOK, Evidence
  <2>4. kept => evidence'.attempted[retryCount + 1] = prepared
    BY <2>1, <2>3 DEF TypeOK, Evidence
  <2> QED
    BY <2>1, <2>2, <2>4
<1>14. ASSUME NEW k \in Keys, SaveResource(k)
      PROVE Disclosed'
  BY <1>14 DEF SaveResource
<1>15. ASSUME NEW status \in MutationStatus, NEW kept \in BOOLEAN,
             MutationFinish(status, kept)
      PROVE Disclosed'
  BY <1>15 DEF MutationFinish, Records, Terminate
<1>16. ASSUME NEW u \in OUs, NEW kept \in BOOLEAN, Reconciliation(View(u), kept)
      PROVE Disclosed'
  BY <1>16 DEF Reconciliation, Records, Terminate, Raise
<1>17. ASSUME NEW u \in OUs, NEW kept \in BOOLEAN, Verification(View(u), kept)
      PROVE Disclosed'
  BY <1>17 DEF Verification, Records
<1>18. ASSUME NEW saved \in BOOLEAN, NEW kept \in BOOLEAN,
             VerificationDecision(saved, kept)
      PROVE Disclosed'
  BY <1>18 DEF VerificationDecision, Records
<1>19. ASSUME NEW kept \in BOOLEAN, AuditFinalization(kept)
      PROVE Disclosed'
  <2>1. /\ node = "audit_finalization" /\ node' = "yielded" /\ finalized' = kept
        /\ UNCHANGED <<mutationStarted, auditWarning, evidence, retryCount>>
    BY <1>19 DEF AuditFinalization
  <2>2. result \in RunResult
    BY <2>1 DEF TypeOK
  <2>3. mutationStarted => \E w \in SUBSET Warnings :
          /\ result' = [result EXCEPT !.warnings = w]
          /\ auditWarning => "audit_gap" \in w
          /\ ~kept => "finalization_failed" \in w
    <3> DEFINE warned == result.warnings \cup (IF auditWarning THEN {"audit_gap"} ELSE {})
    <3>1. warned \in SUBSET Warnings /\ (auditWarning => "audit_gap" \in warned)
      BY <2>2 DEF RunResult, Warnings
    <3>2. mutationStarted => result' = IF kept THEN [result EXCEPT !.warnings = warned]
            ELSE [result EXCEPT !.warnings = warned \cup {"finalization_failed"}]
      BY <1>19 DEF AuditFinalization
    <3> HIDE DEF warned
    <3>3. warned \cup {"finalization_failed"} \in SUBSET Warnings
      BY <3>1 DEF Warnings
    <3> QED
      BY <3>1, <3>2, <3>3
  <2>4. mutationStarted => /\ auditWarning => "audit_gap" \in result'.warnings
                           /\ ~kept => "finalization_failed" \in result'.warnings
    BY <2>2, <2>3 DEF RunResult
  <2> QED
    BY <2>1, <2>4
<1>20. CASE AuditWriteFailure
  BY <1>20 DEF AuditWriteFailure, Raise
<1>21. CASE Crash
  BY <1>21 DEF Crash, Raise
<1>22. ASSUME NEW e \in ExternalEdits, ExternalEdit(e[1], e[2], e[3])
      PROVE Disclosed'
  BY <1>22 DEF ExternalEdit
<1>23. CASE Stopped
  BY <1>23 DEF Stopped, vars
<1>24. CASE UNCHANGED vars
  BY <1>24 DEF vars
<1> QED
  BY <1>1, <1>2, <1>3, <1>4, <1>5, <1>6, <1>7, <1>8, <1>9, <1>10, <1>11,
     <1>12, <1>13, <1>14, <1>15, <1>16, <1>17, <1>18, <1>19, <1>20, <1>21,
     <1>22, <1>23, <1>24
     DEF Next, Handler, Operator

(* WorkflowAuditService and AuditFinalizationExecutor: whatever a run that  *)
(* wrote could not record is named in the warnings of its result.           *)
THEOREM GapsAreDisclosed == Spec => []EvidenceGapDisclosed
<1>1. Init => Disclosed
  BY DEF Init, Disclosed
<1>2. RInv /\ Disclosed /\ [Next]_vars => Disclosed'
  BY DisclosedStep DEF RInv
<1>3. Disclosed => EvidenceGapDisclosed
  BY DEF Disclosed, EvidenceGapDisclosed, Finishing
<1> QED
  BY <1>1, <1>2, <1>3, ReportInvariant, PTL DEF Spec

(* commit_verified is the only writer of the registry, and what it adds or  *)
(* removes was approved and is what the last read showed.                   *)
THEOREM OwnershipIsReadBack == Spec => OwnershipFollowsReadBack
<1> DEFINE A == \A k \in Keys : registry'[k] # registry[k] =>
                  /\ [approved |-> TRUE, change |-> prepared] \in answers
                  /\ k \in CreatedKeys(prepared) \cup RemovedKeys(prepared)
                  /\ lastRead.res[k] = prepared.after.res[k]
                  /\ (registry'[k] = None) = (lastRead.res[k] = Absent)
<1>1. RInv /\ [Next]_vars => [A]_vars
  <2> SUFFICES ASSUME RInv, Next, NEW k \in Keys, registry'[k] # registry[k]
               PROVE  /\ [approved |-> TRUE, change |-> prepared] \in answers
                      /\ k \in CreatedKeys(prepared) \cup RemovedKeys(prepared)
                      /\ lastRead.res[k] = prepared.after.res[k]
                      /\ (registry'[k] = None) = (lastRead.res[k] = Absent)
    OBVIOUS
  <2>1. PICK saved \in BOOLEAN, kept \in BOOLEAN : VerificationDecision(saved, kept)
    BY DEF Next, Handler, Operator, Planner, PlanDecision, ClarificationResume, Preflight,
       LoginResume, ReadCurrentState, StateReadFailure, ComputeChange, ConfirmationRequest,
       ConfirmationResume, ReReadState, DriftCheck, MutationStart, SaveResource,
       MutationFinish, Reconciliation, Verification, AuditFinalization, AuditWriteFailure,
       Crash, ExternalEdit, Stopped, vars
  <2>2. /\ node = "verification_decision" /\ observedState = prepared.after
        /\ registry' = CommittedRegistry(prepared)
    BY <2>1 DEF VerificationDecision, ReadBackConfirms
  <2>3. lastRead = prepared.after
    BY <2>2 DEF RInv, Observed
  <2>4. Authorization \in answers /\ prepared \in PreparedChange
    BY <2>2 DEF RInv, IInv, Authority, Carried, TypeOK, Mutating, Commanded, Approved, Proposed
  <2>5. registry'[k] = IF k \in CreatedKeys(prepared) THEN prepared.after.ou
                       ELSE IF k \in RemovedKeys(prepared) THEN None ELSE registry[k]
    <3>1. k \notin CreatedKeys(prepared) \/ k \notin RemovedKeys(prepared)
      BY DEF CreatedKeys, RemovedKeys, ChangedKeys
    <3>2. registry'[k] = CASE k \in CreatedKeys(prepared) -> prepared.after.ou
                           [] k \in RemovedKeys(prepared) -> None
                           [] OTHER -> registry[k]
      BY <2>2 DEF CommittedRegistry
    <3> QED
      BY <3>1, <3>2
  <2>6. k \in CreatedKeys(prepared) \cup RemovedKeys(prepared)
    BY <2>5
  <2>7. prepared.after.ou # None
    BY <2>4, ConstantsAssumption DEF PreparedChange, Observation
  <2>8. CASE k \in CreatedKeys(prepared)
    <3>1. registry'[k] # None
      BY <2>5, <2>7, <2>8
    <3>2. lastRead.res[k] # Absent
      BY <2>3, <2>8 DEF CreatedKeys, ChangedKeys
    <3> QED
      BY <2>3, <2>4, <2>6, <3>1, <3>2 DEF Authorization
  <2>9. CASE k \notin CreatedKeys(prepared)
    <3>1. registry'[k] = None /\ k \in RemovedKeys(prepared)
      BY <2>5, <2>6, <2>9
    <3>2. lastRead.res[k] = Absent
      BY <2>3, <3>1 DEF RemovedKeys
    <3> QED
      BY <2>3, <2>4, <2>6, <3>1, <3>2 DEF Authorization
  <2> QED
    BY <2>8, <2>9
<1> QED
  BY <1>1, ReportInvariant, PTL DEF Spec, OwnershipFollowsReadBack

-----------------------------------------------------------------------------
(* The refinement of ApprovalGate.                                          *)

(* A step that leaves the prompts, the answers, the last read, the registry *)
(* and a started mutation alone, and does not yield, is a stutter.          *)
LEMMA Quiet ==
  ASSUME UNCHANGED <<shown, answers, lastRead, registry, mutationStarted>>,
         mutationStarted => UNCHANGED <<prepared, retryCount>>,
         \/ node # "yielded" /\ node' # "yielded"
         \/ UNCHANGED <<node, result>>
  PROVE  [Gate!Next]_(Gate!vars)
BY DEF Gate!vars, ReportedOutcome, ApprovedChanges, GrantedChange, Grants

(* A step that only reads is a look at the Workspace.  *)
LEMMA Looks ==
  ASSUME NEW s \in Observation, lastRead' = s,
         UNCHANGED <<shown, answers, registry, mutationStarted>>,
         mutationStarted => UNCHANGED <<prepared, retryCount>>,
         node # "yielded", node' # "yielded"
  PROVE  [Gate!Next]_(Gate!vars)
<1>1. Gate!See(s)
  BY DEF Gate!See, Gate!Open, ReportedOutcome, ApprovedChanges, GrantedChange,
     Grants
<1> QED
  BY <1>1 DEF Gate!Next

(* Every step of the workflow is a step of the gate or a stutter.  *)
LEMMA GateStep == RInv /\ RInv' /\ [Next]_vars => [Gate!Next]_(Gate!vars)
<1> SUFFICES ASSUME TypeOK, Carried, Authority, Observed, Reported,
                    TypeOK', Reported', [Next]_vars
             PROVE  [Gate!Next]_(Gate!vars)
  BY DEF RInv, IInv
<1> USE DEF Reported, Finishing, Carried, Executors, Ended,
            Proposed, Approved, Commanded, Mutating, Unstarted
<1>1. ASSUME NEW p \in TaskPlans, Planner(p)
      PROVE [Gate!Next]_(Gate!vars)
  BY <1>1, Quiet DEF Planner
<1>2. CASE PlanDecision
  BY <1>2, Quiet DEF PlanDecision, Terminate
<1>3. CASE ClarificationResume
  BY <1>3, Quiet DEF ClarificationResume
<1>4. ASSUME NEW o, Preflight(o)
      PROVE [Gate!Next]_(Gate!vars)
  BY <1>4, Quiet DEF Preflight, Terminate
<1>5. ASSUME NEW b \in BOOLEAN, LoginResume(b)
      PROVE [Gate!Next]_(Gate!vars)
  BY <1>5, Quiet DEF LoginResume, Terminate
<1>6. ASSUME NEW u \in OUs, ReadCurrentState(View(u))
      PROVE [Gate!Next]_(Gate!vars)
  BY <1>6, Looks, ViewType DEF ReadCurrentState, Reads, TypeOK
<1>7. CASE StateReadFailure
  BY <1>7, Quiet DEF StateReadFailure, Terminate
<1>8. CASE ComputeChange
  BY <1>8, Quiet DEF ComputeChange, Terminate
<1>9. CASE ConfirmationRequest
  <2>1. prepared \in PreparedChange /\ lastRead = prepared.before
    BY <1>9 DEF ConfirmationRequest, TypeOK, Observed
  <2>2. /\ ~mutationStarted
        /\ UNCHANGED <<mutationStarted, answers, lastRead, registry>>
        /\ node # "yielded" /\ node' # "yielded"
        /\ shown' = shown \cup {prepared}
    BY <1>9 DEF ConfirmationRequest
  <2>3. Gate!Offer(prepared)
    BY <2>1, <2>2 DEF Gate!Offer, Gate!Open, ReportedOutcome, ApprovedChanges,
       GrantedChange, Grants
  <2> QED
    BY <2>2, <2>3 DEF Gate!Next
<1>10. ASSUME NEW c \in shown, NEW ok \in BOOLEAN,
              ConfirmationResume([approved |-> ok, change |-> c])
       PROVE [Gate!Next]_(Gate!vars)
  <2> DEFINE a == [approved |-> ok, change |-> c]
  <2>1. /\ ~mutationStarted
        /\ UNCHANGED <<mutationStarted, shown, lastRead, registry>>
        /\ node # "yielded" /\ node' # "yielded"
        /\ answers' = answers \cup {a}
    BY <1>10 DEF ConfirmationResume, Terminate
  <2>2. CASE ok
    <3>1. a.approved /\ a.change = c
      BY <2>2
    <3> HIDE DEF a
    <3>2. ApprovedChanges' = ApprovedChanges \cup {c}
      BY <2>1, <3>1 DEF ApprovedChanges
    <3>3. Gate!Approve(c)
      BY <2>1, <3>2 DEF Gate!Approve, Gate!Open, ReportedOutcome,
         GrantedChange, Grants
    <3> QED
      BY <2>1, <3>3 DEF Gate!Next
  <2>3. CASE ~ok
    <3>1. ~a.approved
      BY <2>3
    <3> HIDE DEF a
    <3>2. ApprovedChanges' = ApprovedChanges
      BY <2>1, <3>1 DEF ApprovedChanges
    <3> QED
      BY <2>1, <3>2 DEF Gate!vars, ReportedOutcome, GrantedChange, Grants
  <2> QED
    BY <2>2, <2>3
<1>11. ASSUME NEW u \in OUs, ReReadState(View(u))
       PROVE [Gate!Next]_(Gate!vars)
  BY <1>11, Looks, ViewType DEF ReReadState, Reads, TypeOK
<1>12. CASE DriftCheck
  BY <1>12, Quiet DEF DriftCheck, Terminate, Raise
<1>13. ASSUME NEW kept \in BOOLEAN, MutationStart(kept)
       PROVE [Gate!Next]_(Gate!vars)
  <2>1. /\ mutationStarted' /\ UNCHANGED <<prepared, retryCount>>
        /\ UNCHANGED <<shown, answers, lastRead, registry>>
        /\ node # "yielded" /\ node' # "yielded"
    BY <1>13 DEF MutationStart
  <2>2. CASE mutationStarted
    BY <2>1, <2>2, Quiet
  <2>3. CASE ~mutationStarted
    <3>1. /\ Authorization \in answers /\ prepared \in shown
          /\ lastRead = prepared.before /\ retryCount = 0
      BY <1>13, <2>3 DEF MutationStart, Authority, TypeOK
    <3>2. prepared \in ApprovedChanges
      BY <3>1 DEF ApprovedChanges, Authorization
    <3>3. Gate!Grant(prepared)
      BY <2>1, <2>3, <3>1, <3>2 DEF Gate!Grant, Gate!Open, ReportedOutcome,
         ApprovedChanges, GrantedChange, Grants
    <3> QED
      BY <2>1, <3>1, <3>3 DEF Gate!Next
  <2> QED
    BY <2>2, <2>3
<1>14. ASSUME NEW k \in Keys, SaveResource(k)
      PROVE [Gate!Next]_(Gate!vars)
  BY <1>14, Quiet DEF SaveResource
<1>15. ASSUME NEW status \in MutationStatus, NEW kept \in BOOLEAN,
             MutationFinish(status, kept)
       PROVE [Gate!Next]_(Gate!vars)
  BY <1>15, Quiet DEF MutationFinish, Terminate
<1>16. ASSUME NEW u \in OUs, NEW kept \in BOOLEAN,
             Reconciliation(View(u), kept)
       PROVE [Gate!Next]_(Gate!vars)
  <2>1. /\ mutationStarted /\ UNCHANGED <<mutationStarted, prepared>>
        /\ UNCHANGED <<shown, answers, registry>>
        /\ node # "yielded" /\ node' # "yielded"
        /\ lastRead' = View(u)
    BY <1>16 DEF Reconciliation, Reads, Terminate, Raise
  <2>2. CASE retryCount' = retryCount
    BY <2>1, <2>2, Looks, ViewType DEF TypeOK
  <2>3. CASE retryCount' # retryCount
    <3>1. retryCount = 0 /\ retryCount' = 1 /\ View(u) = prepared.before
      BY <1>16, <2>3 DEF Reconciliation, RetryIsSafe
    <3>2. Authorization \in answers /\ prepared \in shown
      BY <2>1 DEF Authority
    <3>3. prepared \in ApprovedChanges
      BY <3>2 DEF ApprovedChanges, Authorization
    <3>4. Gate!Grant(prepared)
      BY <2>1, <3>1, <3>3 DEF Gate!Grant, Gate!Open, ReportedOutcome,
         ApprovedChanges, GrantedChange, Grants
    <3> QED
      BY <2>1, <3>2, <3>4 DEF Gate!Next
  <2> QED
    BY <2>2, <2>3
<1>17. ASSUME NEW u \in OUs, NEW kept \in BOOLEAN, Verification(View(u), kept)
       PROVE [Gate!Next]_(Gate!vars)
  BY <1>17, Looks, ViewType DEF Verification, Reads, TypeOK
<1>18. ASSUME NEW saved \in BOOLEAN, NEW kept \in BOOLEAN,
             VerificationDecision(saved, kept)
       PROVE [Gate!Next]_(Gate!vars)
  <2>1. /\ mutationStarted /\ prepared # None
        /\ lastRead = observedState
        /\ UNCHANGED <<mutationStarted, prepared, retryCount>>
        /\ UNCHANGED <<shown, answers, lastRead>>
        /\ node # "yielded" /\ node' # "yielded"
    BY <1>18 DEF VerificationDecision, Observed
  <2>2. CASE registry' = registry
    BY <2>1, <2>2, Quiet
  <2>3. CASE registry' # registry
    <3>1. prepared.after.res = observedState.res
      BY <1>18, <2>3 DEF VerificationDecision, ReadBackConfirms, Matched
    <3>2. registry' \in Registry
      BY DEF TypeOK
    <3>3. Gate!Commit(registry')
      BY <2>1, <3>1 DEF Gate!Commit, Gate!Open, Gate!Reaches, ReportedOutcome,
         ApprovedChanges, GrantedChange, Grants
    <3> QED
      BY <3>2, <3>3 DEF Gate!Next
  <2> QED
    BY <2>2, <2>3
<1>19. ASSUME NEW kept \in BOOLEAN, AuditFinalization(kept)
       PROVE [Gate!Next]_(Gate!vars)
  <2>1. /\ UNCHANGED <<mutationStarted, prepared, retryCount>>
        /\ UNCHANGED <<shown, answers, lastRead, registry>>
        /\ node # "yielded" /\ node' = "yielded"
    BY <1>19 DEF AuditFinalization
  <2>2. ReportedOutcome' \in Gate!Outcomes
    BY <2>1 DEF ReportedOutcome, Gate!Outcomes
  <2>3. ReportedOutcome' = "refused" => ~mutationStarted
    BY <2>1 DEF ReportedOutcome
  <2>4. ReportedOutcome' = "applied" =>
          mutationStarted /\ lastRead.res = prepared.after.res
    BY <2>1 DEF ReportedOutcome
  <2>5. ReportedOutcome = None
    BY <2>1 DEF ReportedOutcome
  <2>6. Gate!Close(ReportedOutcome')
    BY <2>1, <2>3, <2>4, <2>5 DEF Gate!Close, Gate!Open, Gate!Reaches,
       ApprovedChanges, GrantedChange, Grants
  <2> QED
    BY <2>2, <2>6 DEF Gate!Next
<1>20. CASE AuditWriteFailure
  BY <1>20, Quiet DEF AuditWriteFailure, Raise
<1>21. CASE Crash
  BY <1>21, Quiet DEF Crash, Raise
<1>22. ASSUME NEW e \in ExternalEdits, ExternalEdit(e[1], e[2], e[3])
      PROVE [Gate!Next]_(Gate!vars)
  BY <1>22, Quiet DEF ExternalEdit
<1>23. CASE Stopped
  BY <1>23, Quiet DEF Stopped, vars
<1>24. CASE UNCHANGED vars
  BY <1>24, Quiet DEF vars
<1> QED
  BY <1>1, <1>2, <1>3, <1>4, <1>5, <1>6, <1>7, <1>8, <1>9, <1>10, <1>11,
     <1>12, <1>13, <1>14, <1>15, <1>16, <1>17, <1>18, <1>19, <1>20, <1>21,
     <1>22, <1>23, <1>24
     DEF Next, Handler, Operator

(* The workflow starts as the gate does.  *)
LEMMA GateInit == Init => Gate!Init
BY ConstantsAssumption DEF Init, Gate!Init, ReportedOutcome, ApprovedChanges,
   GrantedChange, Grants

(* The workflow of executors.py implements ApprovalGate: one approved       *)
(* change at most is written, at most twice, always from its before-state;  *)
(* ownership and success follow a read of the desired resources; a run that *)
(* says it was refused never wrote.                                         *)
THEOREM WorkflowImplementsGate == Spec => ImplementsGate
<1>1. Init => Gate!Init
  BY GateInit
<1>2. RInv /\ RInv' /\ [Next]_vars => [Gate!Next]_(Gate!vars)
  BY GateStep
<1> QED
  BY <1>1, <1>2, ReportInvariant, PTL DEF Spec, ImplementsGate, Gate!Spec

=============================================================================
