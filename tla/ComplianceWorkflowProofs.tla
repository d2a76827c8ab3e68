---------------------- MODULE ComplianceWorkflowProofs ----------------------
(***************************************************************************)
(* Theorems about ComplianceWorkflow, for every set of resources, values,  *)
(* OUs and plans, every initial configuration and registry, every set of   *)
(* edits of other administrators, and whether or not saves may land late.  *)
(***************************************************************************)
EXTENDS ComplianceWorkflow, TLAPS

(***************************************************************************)
(* The inductive invariant.  TypeOK alone is not inductive: what a message *)
(* carries depends on the node it is at (Carried), and what authorizes a   *)
(* write is collected along the graph and must survive until the last save *)
(* lands, possibly after the run ended (Authority).                        *)
(***************************************************************************)
Mutating  == {"writing", "reconciliation", "verification",
              "verification_decision"}
Commanded == Mutating \cup {"mutation"}
Approved  == Commanded \cup {"reread_current_state", "drift_check"}
Proposed  == Approved \cup {"confirmation", "awaiting_confirmation"}
Unstarted == Executors \ (Commanded \cup {"audit_finalization"})

Carried ==
  /\ node \in Executors \ {"planner", "clarification"} => plan # None
  /\ node = "compute_change" => currentState # None
  /\ node \in Proposed => prepared # None
  /\ node \in {"drift_check", "verification_decision"} => observedState # None
  /\ node \in {"audit_finalization", "yielded"} => result # None
  /\ unsaved # {} => mutationStarted
  /\ mutationStarted => prepared # None
  /\ node \in Unstarted => ~mutationStarted
  /\ node \in Mutating => mutationStarted

Authorization == [approved |-> TRUE, change |-> prepared]

Authority ==
  /\ node \in Proposed => evidence.prepared = prepared
  /\ node = "awaiting_confirmation" => prepared \in shown
  /\ node \in Approved \/ mutationStarted =>
       /\ prepared \in shown
       /\ approval = Authorization
       /\ Authorization \in answers
       /\ evidence.prepared = prepared
       /\ evidence.confirmed = approval
  /\ node \in Commanded \/ mutationStarted => prepared.before.ou = Root
  /\ retryCount = 1 => mutationStarted
  /\ node = "mutation" /\ mutationStarted => retryCount = 1
  /\ mutationStarted => evidence.attempted[1] = prepared
  /\ node = "drift_check" => lastRead = observedState
  /\ node = "mutation" => lastRead = prepared.before

IInv == TypeOK /\ Carried /\ Authority

USE DEF message, auditor, world, history

(* A reader's view of a well-typed configuration is an observation.  *)
LEMMA ViewType ==
  ASSUME google \in [OUs -> Config], NEW u \in OUs
  PROVE  View(u) \in Observation
BY DEF View, Observation

(* The desired state of a plan is an observation of the same OU.  *)
LEMMA DesiredStateType ==
  ASSUME NEW p \in TaskPlan, NEW s \in Observation
  PROVE  DesiredState(p, s) \in Observation
<1>1. ASSUME NEW k \in Keys
      PROVE (CASE p.op[k] = "keep"   -> s.res[k]
               [] p.op[k] = "remove" -> Absent
               [] OTHER              -> p.val[k]) \in Values
  BY ConstantsAssumption DEF TaskPlan, Observation, Config, Operations
<1>2. s.ou \in OUs
  BY DEF Observation
<1> QED
  BY <1>1, <1>2 DEF DesiredState, Observation, Config

(* commit_verified writes a registry.  *)
LEMMA CommittedRegistryType ==
  ASSUME registry \in Registry, NEW c \in PreparedChange
  PROVE  CommittedRegistry(c) \in Registry
<1>1. c.after.ou \in OUs
  BY DEF PreparedChange, Observation
<1> QED
  BY <1>1 DEF CommittedRegistry, Registry

(* A read is remembered, and its two marks are Booleans.  *)
LEMMA ReadsType ==
  ASSUME effect \in BOOLEAN, NEW s, Reads(s)
  PROVE  lastRead' = s /\ effect' \in BOOLEAN /\ unread' \in BOOLEAN
BY Zenon DEF Reads

(* The warning flag of the auditor is a Boolean, after _record too.  *)
LEMMA RecordsType ==
  ASSUME auditWarning \in BOOLEAN, NEW kept, Records(kept)
  PROVE  auditWarning' \in BOOLEAN
BY Zenon DEF Records

(* A terminal message carries a result.  *)
LEMMA TerminalResult ==
  \A status \in RunStatus : [status |-> status, warnings |-> {}] # None
BY ConstantsAssumption DEF RunResult

-----------------------------------------------------------------------------

(* Every step of the workflow keeps every message field, audit record and   *)
(* history variable in its type.                                            *)
LEMMA TypeStep == TypeOK /\ Carried /\ [Next]_vars => TypeOK'
<1> SUFFICES ASSUME TypeOK, Carried, [Next]_vars PROVE TypeOK'
  OBVIOUS
<1> USE DEF Executors, Ended
<1>1. ASSUME NEW p \in TaskPlans, Planner(p) PROVE TypeOK'
  BY <1>1, ConstantsAssumption DEF TypeOK, Planner
<1>2. CASE PlanDecision
  BY <1>2 DEF TypeOK, PlanDecision, Terminate, RunResult, RunStatus
<1>3. CASE ClarificationResume
  BY <1>3 DEF TypeOK, ClarificationResume
<1>4. ASSUME NEW o, Preflight(o) PROVE TypeOK'
  BY <1>4 DEF TypeOK, Preflight, Terminate, RunResult, RunStatus
<1>5. ASSUME NEW b \in BOOLEAN, LoginResume(b) PROVE TypeOK'
  BY <1>5 DEF TypeOK, LoginResume, Terminate, RunResult, RunStatus
<1>6. ASSUME NEW u \in OUs, ReadCurrentState(View(u)) PROVE TypeOK'
  <2>1. View(u) \in Observation
    BY ViewType DEF TypeOK
  <2>2. lastRead' = View(u) /\ effect' \in BOOLEAN /\ unread' \in BOOLEAN
    BY <1>6, ReadsType DEF TypeOK, ReadCurrentState
  <2> QED
    BY <1>6, <2>1, <2>2 DEF TypeOK, ReadCurrentState
<1>7. CASE StateReadFailure
  BY <1>7 DEF TypeOK, StateReadFailure, Terminate, RunResult, RunStatus
<1>8. CASE ComputeChange
  <2>1. plan \in TaskPlan /\ currentState \in Observation
    BY <1>8 DEF TypeOK, Carried, ComputeChange
  <2>2. DesiredState(plan, currentState) \in Observation
    BY <2>1, DesiredStateType
  <2> DEFINE c == [plan |-> plan, before |-> currentState,
                   after |-> DesiredState(plan, currentState)]
  <2>3. c \in PreparedChange
    BY <2>1, <2>2 DEF PreparedChange
  <2> HIDE DEF c
  <2> QED
    BY <1>8, <2>3 DEF TypeOK, ComputeChange, Terminate, RunResult, RunStatus,
       Evidence, c
<1>9. CASE ConfirmationRequest
  BY <1>9 DEF TypeOK, Carried, ConfirmationRequest, Proposed, Approved, Commanded
<1>10. ASSUME NEW c \in shown, NEW ok \in BOOLEAN,
              ConfirmationResume([approved |-> ok, change |-> c])
       PROVE TypeOK'
  <2>1. [approved |-> ok, change |-> c] \in ConfirmationResponse
    BY DEF TypeOK, ConfirmationResponse
  <2> QED
    BY <1>10, <2>1 DEF TypeOK, ConfirmationResume, Terminate, RunResult,
       RunStatus, Evidence
<1>11. ASSUME NEW u \in OUs, ReReadState(View(u)) PROVE TypeOK'
  <2>1. View(u) \in Observation
    BY ViewType DEF TypeOK
  <2>2. lastRead' = View(u) /\ effect' \in BOOLEAN /\ unread' \in BOOLEAN
    BY <1>11, ReadsType DEF TypeOK, ReReadState
  <2> QED
    BY <1>11, <2>1, <2>2 DEF TypeOK, ReReadState
<1>12. CASE DriftCheck
  BY <1>12 DEF TypeOK, DriftCheck, Terminate, Raise, RunResult, RunStatus
<1>13. ASSUME NEW kept \in BOOLEAN, MutationStart(kept) PROVE TypeOK'
  <2>1. auditWarning' \in BOOLEAN
    BY <1>13, RecordsType DEF TypeOK, MutationStart
  <2>2. evidence' \in Evidence
    BY <1>13 DEF TypeOK, MutationStart, Evidence
  <2>3. unsaved' \in SUBSET Keys
    BY <1>13 DEF MutationStart, ChangedKeys
  <2> QED
    BY <1>13, <2>1, <2>2, <2>3 DEF TypeOK, MutationStart
<1>14. ASSUME NEW k \in Keys, SaveResource(k) PROVE TypeOK'
  <2>1. prepared \in PreparedChange
    BY <1>14 DEF TypeOK, Carried, SaveResource
  <2>2. prepared.before.ou \in OUs /\ prepared.after.res[k] \in Values
    BY <2>1 DEF PreparedChange, Observation, Config
  <2>3. google' \in [OUs -> Config]
    BY <1>14, <2>2 DEF TypeOK, SaveResource, Config
  <2> QED
    BY <1>14, <2>3 DEF TypeOK, SaveResource
<1>15. ASSUME NEW status \in MutationStatus, NEW kept \in BOOLEAN,
              MutationFinish(status, kept)
       PROVE TypeOK'
  <2>1. auditWarning' \in BOOLEAN
    BY <1>15, RecordsType DEF TypeOK, MutationFinish
  <2>2. unsaved' \in SUBSET Keys
    BY <1>15 DEF TypeOK, MutationFinish
  <2> QED
    BY <1>15, <2>1, <2>2 DEF TypeOK, MutationFinish, Terminate, RunResult,
       RunStatus
<1>16. ASSUME NEW u \in OUs, NEW kept \in BOOLEAN, Reconciliation(View(u), kept)
       PROVE TypeOK'
  <2>1. View(u) \in Observation
    BY ViewType DEF TypeOK
  <2>2. lastRead' = View(u) /\ effect' \in BOOLEAN /\ unread' \in BOOLEAN
    BY <1>16, ReadsType DEF TypeOK, Reconciliation
  <2>3. auditWarning' \in BOOLEAN
    BY <1>16, RecordsType DEF TypeOK, Reconciliation
  <2> QED
    BY <1>16, <2>1, <2>2, <2>3 DEF TypeOK, Reconciliation, Raise, Terminate,
       RunResult, RunStatus
<1>17. ASSUME NEW u \in OUs, NEW kept \in BOOLEAN, Verification(View(u), kept)
       PROVE TypeOK'
  <2>1. View(u) \in Observation
    BY ViewType DEF TypeOK
  <2>2. lastRead' = View(u) /\ effect' \in BOOLEAN /\ unread' \in BOOLEAN
    BY <1>17, ReadsType DEF TypeOK, Verification
  <2>3. auditWarning' \in BOOLEAN
    BY <1>17, RecordsType DEF TypeOK, Verification
  <2> QED
    BY <1>17, <2>1, <2>2, <2>3 DEF TypeOK, Verification
<1>18. ASSUME NEW saved \in BOOLEAN, NEW kept \in BOOLEAN,
              VerificationDecision(saved, kept)
       PROVE TypeOK'
  <2>1. prepared \in PreparedChange
    BY <1>18 DEF TypeOK, Carried, VerificationDecision, Proposed, Approved,
       Commanded, Mutating
  <2>2. CommittedRegistry(prepared) \in Registry
    BY <2>1, CommittedRegistryType DEF TypeOK
  <2>3. registry' \in Registry
    BY <1>18, <2>2 DEF TypeOK, VerificationDecision
  <2>4. auditWarning' \in BOOLEAN
    BY <1>18, RecordsType DEF TypeOK, VerificationDecision
  <2>5. result' \in RunResult
    BY <1>18 DEF VerificationDecision, VerifiedStatus, RunResult, RunStatus,
       Warnings
  <2> QED
    BY <1>18, <2>3, <2>4, <2>5 DEF TypeOK, VerificationDecision
<1>19. ASSUME NEW kept \in BOOLEAN, AuditFinalization(kept) PROVE TypeOK'
  BY <1>19 DEF TypeOK, Carried, AuditFinalization, RunResult, RunStatus, Warnings
<1>20. CASE AuditWriteFailure
  BY <1>20 DEF TypeOK, AuditWriteFailure, Raise
<1>21. CASE Crash
  BY <1>21 DEF TypeOK, Crash, Raise
<1>22. ASSUME NEW e \in ExternalEdits, ExternalEdit(e[1], e[2], e[3])
       PROVE TypeOK'
  BY <1>22, ConstantsAssumption DEF TypeOK, ExternalEdit, Config
<1>23. CASE Stopped
  BY <1>23 DEF TypeOK, Stopped, vars
<1>24. CASE UNCHANGED vars
  BY <1>24 DEF TypeOK, vars
<1> QED
  BY <1>1, <1>2, <1>3, <1>4, <1>5, <1>6, <1>7, <1>8, <1>9, <1>10, <1>11,
     <1>12, <1>13, <1>14, <1>15, <1>16, <1>17, <1>18, <1>19, <1>20, <1>21,
     <1>22, <1>23, <1>24
     DEF Next, Handler, Operator

-----------------------------------------------------------------------------

(* Every node finds in its message what its handler reads.  *)
LEMMA CarriedStep == TypeOK /\ Carried /\ [Next]_vars => Carried'
<1> SUFFICES ASSUME TypeOK, Carried, [Next]_vars PROVE Carried'
  OBVIOUS
<1> USE DEF Carried, Executors, Ended, Proposed, Approved, Commanded, Mutating,
            Unstarted
<1>1. ASSUME NEW p \in TaskPlans, Planner(p) PROVE Carried'
  BY <1>1, ConstantsAssumption DEF Planner
<1>2. CASE PlanDecision
  BY <1>2, TerminalResult DEF PlanDecision, Terminate, RunStatus
<1>3. CASE ClarificationResume
  BY <1>3 DEF ClarificationResume
<1>4. ASSUME NEW o, Preflight(o) PROVE Carried'
  BY <1>4, TerminalResult DEF Preflight, Terminate, RunStatus
<1>5. ASSUME NEW b \in BOOLEAN, LoginResume(b) PROVE Carried'
  BY <1>5, TerminalResult DEF LoginResume, Terminate, RunStatus
<1>6. ASSUME NEW u \in OUs, ReadCurrentState(View(u)) PROVE Carried'
  <2>1. View(u) # None
    BY ViewType, ConstantsAssumption DEF TypeOK
  <2> QED
    BY <1>6, <2>1 DEF ReadCurrentState
<1>7. CASE StateReadFailure
  BY <1>7, TerminalResult DEF StateReadFailure, Terminate, RunStatus
<1>8. CASE ComputeChange
  <2>1. plan \in TaskPlan /\ currentState \in Observation
    BY <1>8 DEF TypeOK, ComputeChange
  <2>2. DesiredState(plan, currentState) \in Observation
    BY <2>1, DesiredStateType
  <2>3. [plan |-> plan, before |-> currentState,
         after |-> DesiredState(plan, currentState)] # None
    BY <2>1, <2>2, ConstantsAssumption DEF PreparedChange
  <2> QED
    BY <1>8, <2>3, TerminalResult DEF ComputeChange, Terminate, RunStatus
<1>9. CASE ConfirmationRequest
  BY <1>9 DEF ConfirmationRequest
<1>10. ASSUME NEW a, ConfirmationResume(a) PROVE Carried'
  BY <1>10, TerminalResult DEF ConfirmationResume, Terminate, RunStatus
<1>11. ASSUME NEW u \in OUs, ReReadState(View(u)) PROVE Carried'
  <2>1. View(u) # None
    BY ViewType, ConstantsAssumption DEF TypeOK
  <2> QED
    BY <1>11, <2>1 DEF ReReadState
<1>12. CASE DriftCheck
  BY <1>12, TerminalResult DEF DriftCheck, Terminate, Raise, RunStatus
<1>13. ASSUME NEW kept \in BOOLEAN, MutationStart(kept) PROVE Carried'
  BY <1>13 DEF MutationStart
<1>14. ASSUME NEW k \in Keys, SaveResource(k) PROVE Carried'
  BY <1>14 DEF SaveResource
<1>15. ASSUME NEW status \in MutationStatus, NEW kept \in BOOLEAN,
              MutationFinish(status, kept)
       PROVE Carried'
  BY <1>15, TerminalResult DEF MutationFinish, Terminate, RunStatus
<1>16. ASSUME NEW u \in OUs, NEW kept \in BOOLEAN,
              Reconciliation(View(u), kept)
       PROVE Carried'
  <2>1. View(u) # None
    BY ViewType, ConstantsAssumption DEF TypeOK
  <2> QED
    BY <1>16, <2>1, TerminalResult DEF Reconciliation, Terminate, Raise,
       RunStatus
<1>17. ASSUME NEW u \in OUs, NEW kept \in BOOLEAN, Verification(View(u), kept)
       PROVE Carried'
  <2>1. View(u) # None
    BY ViewType, ConstantsAssumption DEF TypeOK
  <2> QED
    BY <1>17, <2>1 DEF Verification
<1>18. ASSUME NEW saved \in BOOLEAN, NEW kept \in BOOLEAN,
              VerificationDecision(saved, kept)
       PROVE Carried'
  <2>1. result' \in RunResult
    BY <1>18 DEF VerificationDecision, VerifiedStatus, RunResult, RunStatus,
       Warnings
  <2> QED
    BY <1>18, <2>1, ConstantsAssumption DEF VerificationDecision
<1>19. ASSUME NEW kept \in BOOLEAN, AuditFinalization(kept) PROVE Carried'
  <2>1. result' \in RunResult
    BY <1>19 DEF TypeOK, AuditFinalization, RunResult, RunStatus, Warnings
  <2> QED
    BY <1>19, <2>1, ConstantsAssumption DEF AuditFinalization
<1>20. CASE AuditWriteFailure
  BY <1>20 DEF AuditWriteFailure, Raise
<1>21. CASE Crash
  BY <1>21 DEF Crash, Raise
<1>22. ASSUME NEW e \in ExternalEdits, ExternalEdit(e[1], e[2], e[3])
       PROVE Carried'
  BY <1>22 DEF ExternalEdit
<1>23. CASE Stopped
  BY <1>23 DEF Stopped, vars
<1>24. CASE UNCHANGED vars
  BY <1>24 DEF vars
<1> QED
  BY <1>1, <1>2, <1>3, <1>4, <1>5, <1>6, <1>7, <1>8, <1>9, <1>10, <1>11,
     <1>12, <1>13, <1>14, <1>15, <1>16, <1>17, <1>18, <1>19, <1>20, <1>21,
     <1>22, <1>23, <1>24
     DEF Next, Handler, Operator

-----------------------------------------------------------------------------

(* What authorizes a write is collected before the write and is never lost:  *)
(* the prompt, the answer, the durable evidence and the state last read.     *)
LEMMA AuthorityStep == IInv /\ [Next]_vars => Authority'
<1> SUFFICES ASSUME TypeOK, Carried, Authority, [Next]_vars PROVE Authority'
  BY DEF IInv
<1> USE DEF Authority, Authorization, Executors, Ended, Proposed, Approved,
            Commanded, Mutating, Unstarted
<1>1. ASSUME NEW p \in TaskPlans, Planner(p) PROVE Authority'
  BY <1>1 DEF Planner, Carried
<1>2. CASE PlanDecision
  BY <1>2 DEF PlanDecision, Terminate, Carried
<1>3. CASE ClarificationResume
  BY <1>3 DEF ClarificationResume, Carried
<1>4. ASSUME NEW o, Preflight(o) PROVE Authority'
  BY <1>4 DEF Preflight, Terminate, Carried
<1>5. ASSUME NEW b \in BOOLEAN, LoginResume(b) PROVE Authority'
  BY <1>5 DEF LoginResume, Terminate, Carried
<1>6. ASSUME NEW u \in OUs, ReadCurrentState(View(u)) PROVE Authority'
  BY <1>6 DEF ReadCurrentState, Carried
<1>7. CASE StateReadFailure
  BY <1>7 DEF StateReadFailure, Terminate, Carried
<1>8. CASE ComputeChange
  <2>1. ~mutationStarted /\ ~mutationStarted'
    BY <1>8 DEF ComputeChange, Carried
  <2>2. node' = "confirmation" => evidence'.prepared = prepared'
    BY <1>8 DEF ComputeChange, Terminate, TypeOK, Evidence
  <2>3. node' \in {"confirmation", "audit_finalization"}
    BY <1>8 DEF ComputeChange, Terminate
  <2>4. retryCount' # 1
    BY <1>8, <2>1 DEF ComputeChange
  <2> QED
    BY <2>1, <2>2, <2>3, <2>4
<1>9. CASE ConfirmationRequest
  BY <1>9 DEF ConfirmationRequest, Carried
<1>10. ASSUME NEW c \in shown, NEW ok \in BOOLEAN,
              ConfirmationResume([approved |-> ok, change |-> c])
       PROVE Authority'
  <2> DEFINE a == [approved |-> ok, change |-> c]
  <2>1. ~mutationStarted /\ ~mutationStarted'
    BY <1>10 DEF ConfirmationResume, Carried
  <2>2. evidence'.prepared = evidence.prepared /\ evidence'.confirmed = a
    BY <1>10 DEF ConfirmationResume, TypeOK, Evidence
  <2> QED
    <3>1. CASE a.approved /\ a.change = prepared
      <4>1. a = [approved |-> TRUE, change |-> prepared]
        BY <3>1
      <4> QED
        BY <1>10, <2>1, <2>2, <3>1, <4>1 DEF ConfirmationResume, Terminate
    <3>2. CASE ~(a.approved /\ a.change = prepared)
      BY <1>10, <2>1, <2>2, <3>2 DEF ConfirmationResume, Terminate
    <3> QED
      BY <3>1, <3>2
<1>11. ASSUME NEW u \in OUs, ReReadState(View(u)) PROVE Authority'
  BY <1>11 DEF ReReadState, Carried, Reads
<1>12. CASE DriftCheck
  BY <1>12 DEF DriftCheck, Terminate, Raise, Carried, RootOuConfirmed
<1>13. ASSUME NEW kept \in BOOLEAN, MutationStart(kept) PROVE Authority'
  BY <1>13 DEF MutationStart, MayContinue, Carried, TypeOK, Evidence
<1>14. ASSUME NEW k \in Keys, SaveResource(k) PROVE Authority'
  BY <1>14 DEF SaveResource
<1>15. ASSUME NEW status \in MutationStatus, NEW kept \in BOOLEAN,
              MutationFinish(status, kept)
       PROVE Authority'
  BY <1>15 DEF MutationFinish, Terminate
<1>16. ASSUME NEW u \in OUs, NEW kept \in BOOLEAN, Reconciliation(View(u), kept)
       PROVE Authority'
  BY <1>16 DEF Reconciliation, Reads, Terminate, Raise, Carried
<1>17. ASSUME NEW u \in OUs, NEW kept \in BOOLEAN, Verification(View(u), kept)
       PROVE Authority'
  BY <1>17 DEF Verification
<1>18. ASSUME NEW saved \in BOOLEAN, NEW kept \in BOOLEAN,
              VerificationDecision(saved, kept)
       PROVE Authority'
  BY <1>18 DEF VerificationDecision
<1>19. ASSUME NEW kept \in BOOLEAN, AuditFinalization(kept) PROVE Authority'
  BY <1>19 DEF AuditFinalization
<1>20. CASE AuditWriteFailure
  BY <1>20 DEF AuditWriteFailure, Raise
<1>21. CASE Crash
  BY <1>21 DEF Crash, Raise
<1>22. ASSUME NEW e \in ExternalEdits, ExternalEdit(e[1], e[2], e[3])
       PROVE Authority'
  BY <1>22 DEF ExternalEdit
<1>23. CASE Stopped
  BY <1>23 DEF Stopped, vars
<1>24. CASE UNCHANGED vars
  BY <1>24 DEF vars
<1> QED
  BY <1>1, <1>2, <1>3, <1>4, <1>5, <1>6, <1>7, <1>8, <1>9, <1>10, <1>11,
     <1>12, <1>13, <1>14, <1>15, <1>16, <1>17, <1>18, <1>19, <1>20, <1>21,
     <1>22, <1>23, <1>24
     DEF Next, Handler, Operator

-----------------------------------------------------------------------------

(* The state in which run_workflow hands the request to the planner         *)
(* satisfies the invariant.                                                 *)
LEMMA InitIInv == Init => IInv
<1> SUFFICES ASSUME Init PROVE IInv
  OBVIOUS
<1>1. TypeOK
  BY ConstantsAssumption DEF Init, TypeOK, Executors, Evidence
<1>2. Carried
  BY DEF Init, Carried, Proposed, Approved, Commanded, Mutating
<1>3. Authority
  BY DEF Init, Authority, Proposed, Approved, Commanded, Mutating
<1> QED
  BY <1>1, <1>2, <1>3 DEF IInv

(* The invariant holds in every state of every run of the workflow.  *)
THEOREM InvariantHolds == Spec => []IInv
<1>1. Init => IInv
  BY InitIInv
<1>2. IInv /\ [Next]_vars => IInv'
  BY TypeStep, CarriedStep, AuthorityStep DEF IInv
<1> QED
  BY <1>1, <1>2, PTL DEF Spec

(* Every message field, audit record and file keeps its type.  *)
THEOREM TypeCorrect == Spec => []TypeOK
<1>1. IInv => TypeOK
  BY DEF IInv
<1> QED
  BY <1>1, InvariantHolds, PTL

(* Nothing is written to Google that an operator was not shown and did not  *)
(* approve as it is, or outside the root OU, whatever the administrators,   *)
(* the stale answers and the drift loop do (drift_check,                    *)
(* validate_confirmation).                                                  *)
THEOREM AuthorizedWrites == Spec => []WriteAuthorized
<1>1. IInv => WriteAuthorized
  BY DEF IInv, Authority, Authorization, WriteAuthorized, Approved, Commanded,
     Mutating
<1> QED
  BY <1>1, InvariantHolds, PTL

(* The first attempt and the reconciliation retry both start from the state *)
(* last read, and that is the one the approval was given for.               *)
THEOREM AttemptsFromApprovedState == Spec => AttemptStartsFromApprovedState
<1>1. IInv /\ [Next]_vars =>
        [node = "mutation" /\ node' = "writing" => lastRead = prepared.before]_vars
  BY DEF IInv, Authority
<1> QED
  BY <1>1, InvariantHolds, PTL DEF Spec, AttemptStartsFromApprovedState

(* Audit first: a save, late ones included, finds the exact change set, the *)
(* exact approval and the first attempt's command in the audit directory    *)
(* (WorkflowAuditService).                                                  *)
THEOREM EvidencePrecedesSaves == Spec => EvidenceBeforeSave
<1>1. IInv /\ [Next]_vars =>
        [google' # google /\ unsaved' # unsaved =>
           /\ evidence.prepared = prepared
           /\ evidence.confirmed = approval
           /\ evidence.attempted[1] = prepared]_vars
  <2> SUFFICES ASSUME IInv, [Next]_vars, google' # google, unsaved' # unsaved
               PROVE  mutationStarted
    BY DEF IInv, Authority
  <2>1. PICK k \in Keys : SaveResource(k)
    BY DEF Next, Handler, Operator, vars, Planner, PlanDecision,
       ClarificationResume, Preflight, LoginResume, ReadCurrentState,
       StateReadFailure, ComputeChange, ConfirmationRequest,
       ConfirmationResume, ReReadState, DriftCheck, MutationStart,
       MutationFinish, Reconciliation, Verification, VerificationDecision,
       AuditFinalization, AuditWriteFailure, Crash, ExternalEdit, Stopped
  <2> QED
    BY <2>1 DEF IInv, Carried, SaveResource
<1> QED
  BY <1>1, InvariantHolds, PTL DEF Spec, EvidenceBeforeSave

=============================================================================
