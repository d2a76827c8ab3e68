------------------------ MODULE AttendedPolicyProofs ------------------------
(***************************************************************************)
(* Theorems about AttendedPolicy, for every set of runs, processes,        *)
(* policies and values, every plan, every initial configuration, and with  *)
(* or without faults of the registry and of the audit files.               *)
(***************************************************************************)
EXTENDS AttendedPolicy, TLAPS

(***************************************************************************)
(* The inductive invariant.  Most of it concerns one run at a time: what a *)
(* call has collected when it is at a node (Carried), what the manifest    *)
(* can say there (Accounted) and what a write rests on (Authorized).  The  *)
(* lock and the approvals relate the runs (SessionsAndApprovals).          *)
(***************************************************************************)
Written   == {"applying", "verification_read", "close", "commit", "finalize"}
Observing == Written \cup {"permit"}
Executing == Observing \cup {"load", "open", "fresh_read"}

Carried(r) ==
  /\ at[r] \notin {"new", "done"} => plan[r] # None /\ expiresAt[r] # None
  /\ at[r] \in Observing \cup {"preview_close"} => observed[r] # None
  /\ at[r] \in Executing \cup {"previewed"} => preview[r] # None
  /\ at[r] \notin Executing \cup {"previewed", "done"} => preview[r] = None

Accounted(r) ==
  /\ at[r] = "new" => audit[r] = "none"
  /\ at[r] \notin {"new", "done"} => audit[r] = "open"
  /\ at[r] # "done" => result[r] = None
  /\ r \in saved => mutationStarted[r]
  /\ mutationStarted[r] => at[r] \in Written \cup {"done"} /\ preview[r] # None
  /\ result[r] \in {"drifted", "rejected"} => ~mutationStarted[r]
  /\ audit[r] \notin {"none", "open", "INDETERMINATE", "APPLIED_UI_VERIFIED"} =>
       r \notin saved

Authorized(r) ==
  /\ at[r] \in Executing \/ mutationStarted[r] => r \in approved
  /\ r \in approved => preview[r] # None
  /\ at[r] \in Written => mutationStarted[r]
  /\ at[r] = "commit" \/ (at[r] = "finalize" /\ verified[r]) =>
       observed[r] = preview[r].after
  /\ at[r] = "finalize" /\ verified[r] => r \in committed
  /\ result[r] = "completed" => audit[r] = "APPLIED_UI_VERIFIED"
  /\ audit[r] = "APPLIED_UI_VERIFIED" =>
       r \in committed /\ r \in approved /\ observed[r] = preview[r].after

RunInv(r) == Carried(r) /\ Accounted(r) /\ Authorized(r)

IInv == TypeOK /\ SessionsAndApprovals /\ \A r \in Runs : RunInv(r)

\* What run r does, or what is asked of it.
RunStep(r) ==
  Step(r) \/ Request(r) \/ \E k \in Keys, v \in Existing : SavePolicy(r, k, v)

\* Nothing that concerns run q changes.
Same(q) ==
  /\ at'[q] = at[q] /\ plan'[q] = plan[q] /\ live'[q] = live[q]
  /\ preview'[q] = preview[q] /\ expiresAt'[q] = expiresAt[q]
  /\ ownership'[q] = ownership[q] /\ observed'[q] = observed[q]
  /\ mutationStarted'[q] = mutationStarted[q] /\ completed'[q] = completed[q]
  /\ verified'[q] = verified[q] /\ result'[q] = result[q]
  /\ audit'[q] = audit[q]
  /\ q \in pending' <=> q \in pending
  /\ q \in approved' <=> q \in approved
  /\ q \in saved' <=> q \in saved
  /\ q \in committed' <=> q \in committed
  /\ lock' = q <=> lock = q

USE DEF calls, history

-----------------------------------------------------------------------------
(* Types.                                                                   *)

(* A read of a well-typed Google returns an observation.  *)
LEMMA ViewType ==
  ASSUME google \in [Keys -> Existing], NEW s \in Surfaces, NEW e
  PROVE  View(s, e) \in Observation
<1>1. ASSUME NEW k \in Keys
      PROVE (CASE Surface[k] # s    -> Absent
               [] Surface[k] = s /\ (k \in e \/ google[k] = Absent)
                                    -> google[k]
               [] OTHER             -> Unmanaged) \in Existing \cup {Unmanaged}
  BY DEF Existing
<1> QED
  BY <1>1 DEF View, Observation

(* The desired state of a plan is an observation of the same surface.  *)
LEMMA DesiredStateType ==
  ASSUME NEW p \in TaskPlan, NEW s \in Observation
  PROVE  DesiredState(p, s) \in Observation
<1>1. ASSUME NEW k \in Keys
      PROVE (CASE p.op[k] = "keep"   -> s.res[k]
               [] p.op[k] = "remove" -> Absent
               [] OTHER              -> p.val[k]) \in Existing \cup {Unmanaged}
  BY DEF TaskPlan, Observation, Existing
<1>2. s.surface \in Surfaces
  BY DEF Observation
<1> QED
  BY <1>1, <1>2 DEF DesiredState, Observation

(* The evidence of a preview has the type of AttendedPolicyPreview.  *)
LEMMA PreviewType ==
  ASSUME NEW p \in TaskPlan, NEW s \in Observation
  PROVE  [plan |-> p, before |-> s, after |-> DesiredState(p, s)]
           \in PolicyPreview
BY DesiredStateType DEF PolicyPreview

(* A manifest only ever gets a status it knows.  *)
LEMMA FinalizesType ==
  ASSUME TypeOK, NEW r \in Runs, NEW status \in AuditStatus,
         Finalizes(r, status)
  PROVE  audit' \in [Runs -> AuditStatus]
BY DEF TypeOK, Finalizes

(* run.lock is free or has an owner.  *)
LEMMA ReleasesType ==
  ASSUME TypeOK, NEW r \in Runs, Releases(r)
  PROVE  lock' \in Runs \cup {None}
BY DEF TypeOK, Releases

(* Every action of a run keeps every attribute and file in its type.  *)
LEMMA TypeRunStep ==
  ASSUME IInv, NEW r \in Runs, RunStep(r)
  PROVE  TypeOK'
<1> USE AttendedAssumption
<1> USE DEF Goes, Returns, Nodes, Results, AuditStatus
<1>0. TypeOK /\ Carried(r)
  BY DEF IInv, RunInv
<1>1. CASE RecordPlanReview(r)
  BY <1>0, <1>1 DEF TypeOK, RecordPlanReview
<1>2. ASSUME NEW p \in TaskPlans, NEW l \in BOOLEAN, Preview(r, p, l)
      PROVE TypeOK'
  <2>1. clock + TTL \in 0..(MaxTime + TTL)
    BY <1>0 DEF TypeOK
  <2> QED
    BY <1>0, <1>2, <2>1 DEF TypeOK, Preview, Expiry
<1>3. CASE Cancel(r)
  BY <1>0, <1>3, FinalizesType DEF TypeOK, Cancel, Discards
<1>4. CASE Execute(r)
  BY <1>0, <1>4, FinalizesType DEF TypeOK, Execute, Discards
<1>5. CASE PreviewOpen(r)
  BY <1>0, <1>5, FinalizesType DEF TypeOK, PreviewOpen
<1>6. CASE PreviewRead(r)
  <2>1. plan[r] \in TaskPlan
    BY <1>0, <1>6 DEF TypeOK, PreviewRead, Carried
  <2>2. View(plan[r].surface, Snapshot(plan[r].surface, ownership[r]))
          \in Observation
    BY <1>0, <2>1, ViewType DEF TypeOK, TaskPlan
  <2> QED
    BY <1>0, <1>6, <2>2 DEF TypeOK, PreviewRead, CreatedBy
<1>7. CASE PreviewClose(r)
  <2> DEFINE c == [plan |-> plan[r], before |-> observed[r],
                   after |-> DesiredState(plan[r], observed[r])]
  <2>1. c \in PolicyPreview
    BY <1>0, <1>7, PreviewType DEF TypeOK, PreviewClose, Carried
  <2>2. lock' \in Runs \cup {None}
    BY <1>0, <1>7, ReleasesType DEF PreviewClose
  <2> HIDE DEF c
  <2>3. preview' \in [Runs -> PolicyPreview \cup {None}]
    BY <1>0, <1>7, <2>1 DEF TypeOK, PreviewClose, c
  <2> QED
    BY <1>0, <1>7, <2>2, <2>3 DEF TypeOK, PreviewClose
<1>8. CASE PreviewFails(r)
  BY <1>0, <1>8, FinalizesType, ReleasesType DEF TypeOK, PreviewFails
<1>9. CASE LoadOwnership(r)
  BY <1>0, <1>9 DEF TypeOK, LoadOwnership
<1>10. CASE Open(r)
  BY <1>0, <1>10, FinalizesType DEF TypeOK, Open
<1>11. CASE FreshRead(r)
  <2>1. plan[r] \in TaskPlan
    BY <1>0, <1>11 DEF TypeOK, FreshRead, Carried
  <2>2. View(plan[r].surface, Snapshot(plan[r].surface, ownership[r]))
          \in Observation
    BY <1>0, <2>1, ViewType DEF TypeOK, TaskPlan
  <2> QED
    BY <1>0, <1>11, <2>2 DEF TypeOK, FreshRead
<1>12. CASE Drifts(r)
  BY <1>0, <1>12, FinalizesType, ReleasesType DEF TypeOK, Drifts
<1>13. CASE IssuePermit(r)
  BY <1>0, <1>13 DEF TypeOK, IssuePermit
<1>14. CASE VerificationRead(r)
  <2>1. plan[r] \in TaskPlan
    BY <1>0, <1>14 DEF TypeOK, VerificationRead, Carried
  <2>2. View(plan[r].surface, ManagedKeys(preview[r].after)) \in Observation
    BY <1>0, <2>1, ViewType DEF TypeOK, TaskPlan
  <2> QED
    BY <1>0, <1>14, <2>2 DEF TypeOK, VerificationRead
<1>15. CASE Close(r)
  <2>1. ReadBackMatches(r) \in BOOLEAN
    BY <1>0 DEF TypeOK, ReadBackMatches
  <2>2. lock' \in Runs \cup {None}
    BY <1>0, <1>15, ReleasesType DEF Close
  <2> QED
    BY <1>0, <1>15, <2>1, <2>2 DEF TypeOK, Close
<1>16. ASSUME NEW ok \in BOOLEAN, ApplyReturns(r, ok) PROVE TypeOK'
  BY <1>0, <1>16 DEF TypeOK, ApplyReturns
<1>17. CASE ExecuteFails(r)
  <2>1. FailureStatus(r) \in AuditStatus
    BY DEF FailureStatus
  <2> QED
    BY <1>0, <1>17, <2>1, FinalizesType, ReleasesType DEF TypeOK, ExecuteFails
<1>18. CASE CommitOwnership(r)
  <2>1. CommittedRegistry(r) \in SUBSET Keys
    BY <1>0 DEF TypeOK, CommittedRegistry, ManagedKeys
  <2> QED
    BY <1>0, <1>18, <2>1 DEF TypeOK, CommitOwnership
<1>19. CASE FinalizeExecution(r)
  BY <1>0, <1>19 DEF TypeOK, FinalizeExecution
<1>20. ASSUME NEW k \in Keys, NEW v \in Existing, SavePolicy(r, k, v)
       PROVE TypeOK'
  BY <1>0, <1>20 DEF TypeOK, SavePolicy
<1> QED
  BY <1>1, <1>2, <1>3, <1>4, <1>5, <1>6, <1>7, <1>8, <1>9, <1>10, <1>11, <1>12,
     <1>13, <1>14, <1>15, <1>16, <1>17, <1>18, <1>19, <1>20
     DEF RunStep, Step, Request

(* Whatever run r does, what concerns another run stays as it is.  *)
LEMMA OthersUntouched ==
  ASSUME IInv, NEW r \in Runs, RunStep(r), NEW q \in Runs \ {r}
  PROVE  Same(q)
<1> USE AttendedAssumption
<1> USE DEF Goes, Returns, Finalizes, Releases, Discards, Same
<1>0. TypeOK /\ SessionsAndApprovals
  BY DEF IInv
<1>1. CASE Request(r)
  <2>1. CASE RecordPlanReview(r)
    BY <1>0, <2>1 DEF TypeOK, RecordPlanReview
  <2>2. ASSUME NEW p \in TaskPlans, NEW l \in BOOLEAN, Preview(r, p, l)
        PROVE Same(q)
    BY <1>0, <2>2 DEF TypeOK, Preview
  <2>3. CASE Cancel(r)
    BY <1>0, <2>3 DEF TypeOK, Cancel
  <2>4. CASE Execute(r)
    BY <1>0, <2>4 DEF TypeOK, Execute
  <2> QED
    BY <1>1, <2>1, <2>2, <2>3, <2>4 DEF Request
<1>2. CASE Step(r)
  <2>1. CASE PreviewOpen(r)
    BY <1>0, <2>1 DEF TypeOK, PreviewOpen
  <2>2. CASE PreviewRead(r)
    BY <1>0, <2>2 DEF TypeOK, PreviewRead
  <2>3. CASE PreviewClose(r)
    BY <1>0, <2>3 DEF TypeOK, PreviewClose
  <2>4. CASE PreviewFails(r)
    BY <1>0, <2>4 DEF TypeOK, PreviewFails
  <2>5. CASE LoadOwnership(r)
    BY <1>0, <2>5 DEF TypeOK, LoadOwnership
  <2>6. CASE Open(r)
    BY <1>0, <2>6 DEF TypeOK, Open
  <2>7. CASE FreshRead(r)
    BY <1>0, <2>7 DEF TypeOK, FreshRead
  <2>8. CASE Drifts(r)
    BY <1>0, <2>8 DEF TypeOK, Drifts
  <2>9. CASE IssuePermit(r)
    BY <1>0, <2>9 DEF TypeOK, IssuePermit
  <2>10. CASE VerificationRead(r)
    BY <1>0, <2>10 DEF TypeOK, VerificationRead
  <2>11. CASE Close(r)
    BY <1>0, <2>11 DEF TypeOK, Close
  <2>12. ASSUME NEW ok \in BOOLEAN, ApplyReturns(r, ok) PROVE Same(q)
    BY <1>0, <2>12 DEF TypeOK, ApplyReturns
  <2>13. CASE ExecuteFails(r)
    BY <1>0, <2>13 DEF TypeOK, ExecuteFails
  <2>14. CASE CommitOwnership(r)
    BY <1>0, <2>14 DEF TypeOK, CommitOwnership
  <2>15. CASE FinalizeExecution(r)
    BY <1>0, <2>15 DEF TypeOK, FinalizeExecution
  <2> QED
    BY <1>2, <2>1, <2>2, <2>3, <2>4, <2>5, <2>6, <2>7, <2>8, <2>9, <2>10, <2>11,
       <2>12, <2>13, <2>14, <2>15 DEF Step
<1>3. ASSUME NEW k \in Keys, NEW v \in Existing, SavePolicy(r, k, v)
      PROVE Same(q)
  BY <1>0, <1>3 DEF TypeOK, SavePolicy
<1> QED
  BY <1>1, <1>2, <1>3 DEF RunStep

(* What holds of a run holds as long as nothing of it changes.  *)
LEMMA UntouchedRunInv ==
  ASSUME NEW q \in Runs, RunInv(q), Same(q)
  PROVE  RunInv(q)'
BY DEF RunInv, Carried, Accounted, Authorized, Same

-----------------------------------------------------------------------------
(* The invariant.                                                           *)

(* The run that moves: its evidence, its manifest, its authority to write,   *)
(* the lock and its approval are what its next node needs.                  *)
LEMMA RunInvStep ==
  ASSUME IInv, NEW r \in Runs, RunStep(r)
  PROVE  /\ RunInv(r)'
         /\ (lock = r <=> at[r] \in InSession)'
         /\ (r \in pending <=> at[r] = "previewed")'
<1> DEFINE Goal == /\ RunInv(r)'
                   /\ (lock = r <=> at[r] \in InSession)'
                   /\ (r \in pending <=> at[r] = "previewed")'
<1> USE AttendedAssumption
<1> USE DEF Goes, Returns, Finalizes, Releases, Discards, Written, Observing,
            Executing, InSession, RunInv, Carried, Accounted, Authorized
<1>0. /\ TypeOK /\ RunInv(r)
      /\ lock = r <=> at[r] \in InSession
      /\ r \in pending <=> at[r] = "previewed"
  BY DEF IInv, SessionsAndApprovals
<1>1. CASE Request(r)
  <2>1. CASE RecordPlanReview(r)
    BY <1>0, <2>1 DEF TypeOK, RecordPlanReview
  <2>2. ASSUME NEW p \in TaskPlans, NEW l \in BOOLEAN, Preview(r, p, l)
        PROVE Goal
    <3>1. p # None /\ Expiry(clock) # None
      BY <1>0 DEF TypeOK, Expiry
    <3> QED
      BY <1>0, <2>2, <3>1 DEF TypeOK, Preview
  <2>3. CASE Cancel(r)
    BY <1>0, <2>3 DEF TypeOK, Cancel
  <2>4. CASE Execute(r)
    BY <1>0, <2>4 DEF TypeOK, Execute
  <2> QED
    BY <1>1, <2>1, <2>2, <2>3, <2>4 DEF Request
<1>2. CASE Step(r)
  <2>1. CASE PreviewOpen(r)
    BY <1>0, <2>1 DEF TypeOK, PreviewOpen
  <2>2. CASE PreviewRead(r)
    <3>1. View(plan[r].surface, Snapshot(plan[r].surface, ownership[r])) # None
      BY <1>0, <2>2, ViewType DEF TypeOK, PreviewRead, TaskPlan
    <3> QED
      BY <1>0, <2>2, <3>1 DEF TypeOK, PreviewRead
  <2>3. CASE PreviewClose(r)
    <3>1. [plan |-> plan[r], before |-> observed[r],
           after |-> DesiredState(plan[r], observed[r])] # None
      BY <1>0, <2>3, PreviewType DEF TypeOK, PreviewClose
    <3> QED
      BY <1>0, <2>3, <3>1 DEF TypeOK, PreviewClose
  <2>4. CASE PreviewFails(r)
    BY <1>0, <2>4 DEF TypeOK, PreviewFails
  <2>5. CASE LoadOwnership(r)
    BY <1>0, <2>5 DEF TypeOK, LoadOwnership
  <2>6. CASE Open(r)
    BY <1>0, <2>6 DEF TypeOK, Open
  <2>7. CASE FreshRead(r)
    <3>1. View(plan[r].surface, Snapshot(plan[r].surface, ownership[r])) # None
      BY <1>0, <2>7, ViewType DEF TypeOK, FreshRead, TaskPlan
    <3> QED
      BY <1>0, <2>7, <3>1 DEF TypeOK, FreshRead
  <2>8. CASE Drifts(r)
    BY <1>0, <2>8 DEF TypeOK, Drifts
  <2>9. CASE IssuePermit(r)
    BY <1>0, <2>9 DEF TypeOK, IssuePermit, Results
  <2>10. CASE VerificationRead(r)
    <3>1. View(plan[r].surface, ManagedKeys(preview[r].after)) # None
      BY <1>0, <2>10, ViewType DEF TypeOK, VerificationRead, TaskPlan
    <3> QED
      BY <1>0, <2>10, <3>1 DEF TypeOK, VerificationRead
  <2>11. CASE Close(r)
    BY <1>0, <2>11 DEF TypeOK, Close, ReadBackMatches
  <2>12. ASSUME NEW ok \in BOOLEAN, ApplyReturns(r, ok) PROVE Goal
    BY <1>0, <2>12 DEF TypeOK, ApplyReturns
  <2>13. CASE ExecuteFails(r)
    BY <1>0, <2>13 DEF TypeOK, ExecuteFails, FailureStatus
  <2>14. CASE CommitOwnership(r)
    BY <1>0, <2>14 DEF TypeOK, CommitOwnership
  <2>15. CASE FinalizeExecution(r)
    BY <1>0, <2>15 DEF TypeOK, FinalizeExecution
  <2> QED
    BY <1>2, <2>1, <2>2, <2>3, <2>4, <2>5, <2>6, <2>7, <2>8, <2>9, <2>10, <2>11,
       <2>12, <2>13, <2>14, <2>15 DEF Step
<1>3. ASSUME NEW k \in Keys, NEW v \in Existing, SavePolicy(r, k, v) PROVE Goal
  BY <1>0, <1>3 DEF TypeOK, SavePolicy
<1> QED
  BY <1>1, <1>2, <1>3 DEF RunStep

(* A process that ends leaves its runs where nothing more happens to them.  *)
LEMMA CrashStep ==
  ASSUME IInv, NEW p \in Processes, Crash(p)
  PROVE  IInv'
<1> USE AttendedAssumption
<1>0. TypeOK /\ SessionsAndApprovals /\ \A r \in Runs : RunInv(r)
  BY DEF IInv
<1>1. TypeOK'
  BY <1>0 DEF TypeOK, Crash, Nodes
<1>2. ASSUME NEW r \in Runs
      PROVE  /\ RunInv(r)'
             /\ (lock = r <=> at[r] \in InSession)'
             /\ (r \in pending <=> at[r] = "previewed")'
  <2>1. /\ at'[r] = IF Host[r] = p /\ at[r] # "new" THEN "done" ELSE at[r]
        /\ r \in pending' <=> r \in pending /\ Host[r] # p
        /\ lock' = r <=> lock = r /\ Host[r] # p
    BY <1>0 DEF TypeOK, Crash
  <2>2. /\ UNCHANGED <<calls, result, audit, registry, google, clock, history>>
        /\ RunInv(r)
        /\ lock = r <=> at[r] \in InSession
        /\ r \in pending <=> at[r] = "previewed"
    BY <1>0 DEF Crash, SessionsAndApprovals
  <2> QED
    BY <1>0, <2>1, <2>2 DEF RunInv, Carried, Accounted, Authorized, InSession,
       Written, Observing, Executing
<1> QED
  BY <1>1, <1>2 DEF IInv, SessionsAndApprovals

(* The initial state satisfies the invariant.  *)
LEMMA InvInit == Init => IInv
<1> SUFFICES ASSUME Init PROVE IInv
  OBVIOUS
<1> USE AttendedAssumption
<1>1. TypeOK
  BY DEF TypeOK, Init, Nodes, AuditStatus
<1>2. SessionsAndApprovals
  BY DEF Init, SessionsAndApprovals, InSession
<1>3. ASSUME NEW r \in Runs PROVE RunInv(r)
  BY DEF Init, RunInv, Carried, Accounted, Authorized, Written, Observing,
     Executing, Results
<1> QED
  BY <1>1, <1>2, <1>3 DEF IInv

(* Every step keeps the invariant.  *)
LEMMA InvStep == IInv /\ [Next]_vars => IInv'
<1> SUFFICES ASSUME IInv, [Next]_vars PROVE IInv'
  OBVIOUS
<1>0. TypeOK /\ SessionsAndApprovals /\ \A r \in Runs : RunInv(r)
  BY DEF IInv
<1>1. ASSUME NEW r \in Runs, RunStep(r) PROVE IInv'
  <2>1. TypeOK'
    BY <1>1, TypeRunStep
  <2>2. ASSUME NEW q \in Runs
        PROVE  /\ RunInv(q)'
               /\ (lock = q <=> at[q] \in InSession)'
               /\ (q \in pending <=> at[q] = "previewed")'
    <3>1. CASE q = r
      BY <1>1, <3>1, RunInvStep
    <3>2. CASE q # r
      <4>1. Same(q)
        BY <1>1, <3>2, OthersUntouched
      <4>2. RunInv(q)'
        BY <1>0, <4>1, UntouchedRunInv
      <4> QED
        BY <1>0, <4>1, <4>2 DEF SessionsAndApprovals, Same
    <3> QED
      BY <3>1, <3>2
  <2> QED
    BY <2>1, <2>2 DEF IInv, SessionsAndApprovals
<1>2. ASSUME NEW p \in Processes, Crash(p) PROVE IInv'
  BY <1>2, CrashStep
<1>3. CASE Tick
  <2>1. TypeOK'
    BY <1>0, <1>3, AttendedAssumption DEF TypeOK, Tick
  <2>2. \A q \in Runs : Same(q)
    BY <1>3 DEF Tick, Same
  <2> QED
    BY <1>0, <2>1, <2>2, UntouchedRunInv DEF IInv, SessionsAndApprovals, Same
<1>4. ASSUME NEW e \in ExternalEdits, ExternalEdit(e[1], e[2]) PROVE IInv'
  <2>1. TypeOK'
    BY <1>0, <1>4, AttendedAssumption DEF TypeOK, ExternalEdit
  <2>2. \A q \in Runs : Same(q)
    BY <1>4 DEF ExternalEdit, Same
  <2> QED
    BY <1>0, <2>1, <2>2, UntouchedRunInv DEF IInv, SessionsAndApprovals, Same
<1>5. CASE UNCHANGED vars
  <2>1. TypeOK'
    BY <1>0, <1>5 DEF TypeOK, vars
  <2>2. \A q \in Runs : Same(q)
    BY <1>5 DEF vars, Same
  <2> QED
    BY <1>0, <2>1, <2>2, UntouchedRunInv DEF IInv, SessionsAndApprovals, Same
<1> QED
  BY <1>1, <1>2, <1>3, <1>4, <1>5 DEF Next, RunStep

(* The inductive invariant holds in every reachable state of the service,   *)
(* however its coroutines and processes interleave, fail and crash.         *)
THEOREM InvariantHolds == Spec => []IInv
BY InvInit, InvStep, PTL DEF Spec

(* Every attribute, manifest and file keeps its type.  *)
THEOREM TypeCorrect == Spec => []TypeOK
<1>1. IInv => TypeOK
  BY DEF IInv
<1> QED
  BY <1>1, InvariantHolds, PTL

(* run.lock belongs to the run with the browser session, and an approval to *)
(* a run that waits for its answer: none survives execute, cancel, expiry or *)
(* the end of its process.                                                  *)
THEOREM SessionsAreExclusive == Spec => []SessionsAndApprovals
<1>1. IInv => SessionsAndApprovals
  BY DEF IInv
<1> QED
  BY <1>1, InvariantHolds, PTL

(* A manifest that says that nothing changed belongs to a run that saved    *)
(* nothing.                                                                 *)
THEOREM ManifestsAreHonest == Spec => []ManifestIsHonest
<1>1. IInv => ManifestIsHonest
  BY DEF IInv, RunInv, Accounted, ManifestIsHonest
<1> QED
  BY <1>1, InvariantHolds, PTL

(* Completion is reported, and written to the manifest, only for an approved *)
(* run whose desired state was read back and whose records were committed.  *)
THEOREM CompletionIsVerified == Spec => []CompletedIsVerified
<1>1. IInv => CompletedIsVerified
  BY DEF IInv, RunInv, Authorized, CompletedIsVerified
<1> QED
  BY <1>1, InvariantHolds, PTL

-----------------------------------------------------------------------------
(***************************************************************************)
(* Every attended run implements ApprovalGate, and within one process the  *)
(* ownership registry follows what was read back.                          *)
(***************************************************************************)

USE DEF calls, history

(* A step that leaves what the gate sees of the run is no step of the gate.  *)
LEMMA Quiet ==
  ASSUME /\ observed'[Watched] = observed[Watched]
         /\ preview'[Watched] = preview[Watched]
         /\ mutationStarted'[Watched] = mutationStarted[Watched]
         /\ result'[Watched] = result[Watched]
         /\ Watched \in approved' <=> Watched \in approved
         /\ Watched \in committed' <=> Watched \in committed
  PROVE  UNCHANGED Gate!vars
BY DEF Gate!vars, Offered, Approved, Granted, Grants, Recorded, ReportedOutcome

(* A run that has told its caller nothing has no outcome.  *)
LEMMA Unreported ==
  /\ result[Watched] = None => ReportedOutcome = None
  /\ result'[Watched] = None => ReportedOutcome' = None
BY AttendedAssumption DEF ReportedOutcome, Results

(* A read is a step of the gate.  *)
LEMMA Looks ==
  ASSUME /\ observed'[Watched] \in Observation
         /\ preview'[Watched] = preview[Watched]
         /\ mutationStarted'[Watched] = mutationStarted[Watched]
         /\ result[Watched] = None /\ result'[Watched] = None
         /\ Watched \in approved' <=> Watched \in approved
         /\ Watched \in committed' <=> Watched \in committed
  PROVE  Gate!Next
<1>1. Gate!See(observed'[Watched])
  BY Unreported DEF Gate!See, Gate!Open, Offered, Approved, Granted, Grants,
     Recorded
<1> QED
  BY <1>1 DEF Gate!Next

(* What a caller is told is a step of the gate, or none.  *)
LEMMA Ends ==
  ASSUME /\ observed'[Watched] = observed[Watched]
         /\ preview'[Watched] = preview[Watched]
         /\ mutationStarted'[Watched] = mutationStarted[Watched]
         /\ result[Watched] = None
         /\ Watched \in approved' <=> Watched \in approved
         /\ Watched \in committed' <=> Watched \in committed
         /\ result'[Watched] \in Results
         /\ mutationStarted[Watched] \in BOOLEAN
         /\ preview[Watched] # None \/ ~mutationStarted[Watched]
         /\ result'[Watched] \in {"drifted", "rejected"} =>
              ~mutationStarted[Watched]
         /\ result'[Watched] = "completed" =>
              /\ mutationStarted[Watched]
              /\ observed[Watched] = preview[Watched].after
  PROVE  Gate!Next
<1>1. ReportedOutcome = None
  BY Unreported
<1>2. ReportedOutcome' \in Gate!Outcomes
  BY AttendedAssumption DEF ReportedOutcome, Gate!Outcomes
<1>3. ReportedOutcome' = "refused" => Grants = 0
  BY AttendedAssumption DEF ReportedOutcome, Grants, Results
<1>4. ReportedOutcome' = "applied" =>
        Granted # None /\ Granted.after.res = observed[Watched].res
  BY AttendedAssumption DEF ReportedOutcome, Granted, Results
<1>5. UNCHANGED <<observed[Watched], Offered, Approved, Granted, Grants,
                  Recorded>>
  BY DEF Offered, Approved, Granted, Grants, Recorded
<1>6. Gate!Close(ReportedOutcome')
  BY <1>1, <1>3, <1>4, <1>5 DEF Gate!Close, Gate!Open, Gate!Reaches
<1> QED
  BY <1>2, <1>6 DEF Gate!Next

(* A step of the watched run is a step of the gate or a stutter.  *)
LEMMA GateRunStep ==
  ASSUME IInv, IInv', RunStep(Watched)
  PROVE  [Gate!Next]_(Gate!vars)
<1> DEFINE r == Watched
<1> USE AttendedAssumption
<1> USE DEF Goes, Returns
<1>0. r \in Runs /\ TypeOK /\ TypeOK' /\ RunInv(r) /\ RunInv(r)'
  BY DEF IInv
<1>1. CASE Request(r)
  <2>1. CASE RecordPlanReview(r)
    <3>1. CASE result' = result
      BY <2>1, <3>1, Quiet DEF RecordPlanReview
    <3>2. CASE result' = [result EXCEPT ![r] = "error"]
      BY <1>0, <2>1, <3>2, Ends
         DEF RecordPlanReview, TypeOK, RunInv, Accounted, Results, Written
    <3> QED
      BY <2>1, <3>1, <3>2 DEF RecordPlanReview
  <2>2. ASSUME NEW p \in TaskPlans, NEW l \in BOOLEAN, Preview(r, p, l)
        PROVE [Gate!Next]_(Gate!vars)
    <3>1. CASE result' = result
      BY <2>2, <3>1, Quiet DEF Preview
    <3>2. CASE result' = [result EXCEPT ![r] = "error"]
      BY <1>0, <2>2, <3>2, Ends
         DEF Preview, TypeOK, RunInv, Accounted, Results, Written
    <3> QED
      BY <2>2, <3>1, <3>2 DEF Preview
  <2>3. CASE Cancel(r)
    <3>1. at[r] = "previewed"
      BY <1>0, <2>3 DEF Cancel, IInv, SessionsAndApprovals
    <3> QED
      BY <1>0, <2>3, <3>1, Ends
         DEF Cancel, TypeOK, RunInv, Accounted, Results, Written
  <2>4. CASE Execute(r)
    <3>1. /\ at[r] = "previewed" /\ preview[r] # None
          /\ ~mutationStarted[r] /\ result[r] = None
      BY <1>0, <2>4 DEF Execute, IInv, SessionsAndApprovals, TypeOK, RunInv,
         Carried, Accounted, Written
    <3>2. UNCHANGED <<observed, preview, mutationStarted, committed>>
      BY <2>4 DEF Execute
    <3>3. CASE /\ result' = [result EXCEPT ![r] = "rejected"]
               /\ approved' = approved
      BY <1>0, <3>1, <3>2, <3>3, Ends DEF TypeOK, Results
    <3>4. CASE result' = result /\ approved' = approved \cup {r}
      <4>1. Gate!Approve(preview[r])
        BY <3>1, <3>2, <3>4, Unreported DEF Gate!Approve, Gate!Open, Offered,
           Approved, Granted, Grants, Recorded
      <4>2. preview[r] \in Offered'
        BY <3>1, <3>2 DEF Offered
      <4> QED
        BY <4>1, <4>2 DEF Gate!Next
    <3> QED
      BY <2>4, <3>3, <3>4 DEF Execute
  <2> QED
    BY <1>1, <2>1, <2>2, <2>3, <2>4 DEF Request
<1>2. CASE Step(r)
  <2>1. CASE PreviewOpen(r)
    <3>1. CASE result' = result
      BY <2>1, <3>1, Quiet DEF PreviewOpen
    <3>2. CASE result' = [result EXCEPT ![r] = "error"]
      BY <1>0, <2>1, <3>2, Ends
         DEF PreviewOpen, TypeOK, RunInv, Accounted, Results, Written
    <3> QED
      BY <2>1, <3>1, <3>2 DEF PreviewOpen
  <2>2. CASE PreviewRead(r)
    <3>1. observed'[r] \in Observation /\ result[r] = None
      BY <1>0, <2>2 DEF PreviewRead, TypeOK, RunInv, Carried, Accounted
    <3> QED
      BY <2>2, <3>1, Looks DEF PreviewRead
  <2>3. CASE PreviewClose(r)
    <3>1. /\ preview[r] = None /\ ~mutationStarted[r] /\ result[r] = None
          /\ r \notin approved
      BY <1>0, <2>3 DEF PreviewClose, TypeOK, RunInv, Carried, Accounted,
         Authorized, Written, Observing, Executing
    <3>2. UNCHANGED <<observed, mutationStarted, approved, committed>>
      BY <2>3 DEF PreviewClose
    <3>3. CASE result' = result /\ preview' # preview
      <4> DEFINE c == [plan |-> plan[r], before |-> observed[r],
                       after |-> DesiredState(plan[r], observed[r])]
      <4>1. preview'[r] = c /\ c.before = observed[r]
        BY <1>0, <2>3, <3>3 DEF PreviewClose, TypeOK
      <4>2. c \in PolicyPreview /\ c # None
        BY <1>0, <2>3, PreviewType DEF PreviewClose, TypeOK, RunInv, Carried
      <4> HIDE DEF c
      <4>3. Offered = {} /\ Offered' = {c}
        BY <3>1, <4>1, <4>2 DEF Offered
      <4>4. UNCHANGED <<Approved, Granted, Grants, Recorded, ReportedOutcome>>
        BY <3>1, <3>2, <3>3
           DEF Approved, Granted, Grants, Recorded, ReportedOutcome
      <4>5. ReportedOutcome = None /\ Grants = 0
        BY <3>1, Unreported DEF Grants
      <4>6. Gate!Offer(c)
        BY <3>2, <4>1, <4>2, <4>3, <4>4, <4>5 DEF Gate!Offer, Gate!Open
      <4> QED
        BY <4>3, <4>6 DEF Gate!Next
    <3>4. CASE result' = result /\ preview' = preview
      BY <3>2, <3>4, Quiet
    <3>5. CASE result' = [result EXCEPT ![r] = "error"] /\ preview' = preview
      BY <1>0, <3>1, <3>2, <3>5, Ends DEF TypeOK, Results
    <3> QED
      BY <2>3, <3>3, <3>4, <3>5 DEF PreviewClose
  <2>4. CASE PreviewFails(r)
    BY <1>0, <2>4, Ends
       DEF PreviewFails, TypeOK, RunInv, Accounted, Results, Written
  <2>5. CASE LoadOwnership(r)
    <3>1. CASE result' = result
      BY <2>5, <3>1, Quiet DEF LoadOwnership
    <3>2. CASE result' = [result EXCEPT ![r] = "error"]
      BY <1>0, <2>5, <3>2, Ends
         DEF LoadOwnership, TypeOK, RunInv, Accounted, Results, Written
    <3> QED
      BY <2>5, <3>1, <3>2 DEF LoadOwnership
  <2>6. CASE Open(r)
    <3>1. CASE result' = result
      BY <2>6, <3>1, Quiet DEF Open
    <3>2. CASE result' = [result EXCEPT ![r] = "error"]
      BY <1>0, <2>6, <3>2, Ends
         DEF Open, TypeOK, RunInv, Accounted, Results, Written
    <3> QED
      BY <2>6, <3>1, <3>2 DEF Open
  <2>7. CASE FreshRead(r)
    <3>1. observed'[r] \in Observation /\ result[r] = None
      BY <1>0, <2>7 DEF FreshRead, TypeOK, RunInv, Carried, Accounted, Observing
    <3> QED
      BY <2>7, <3>1, Looks DEF FreshRead
  <2>8. CASE Drifts(r)
    <3>1. /\ ~mutationStarted[r] /\ result[r] = None
          /\ result'[r] \in {"drifted", "error"}
      BY <1>0, <2>8 DEF Drifts, TypeOK, RunInv, Accounted, Written
    <3> QED
      BY <1>0, <2>8, <3>1, Ends DEF Drifts, TypeOK, Results
  <2>9. CASE IssuePermit(r)
    <3>1. /\ ~mutationStarted[r] /\ result[r] = None /\ preview[r] # None
          /\ r \in approved /\ observed[r] = preview[r].before
      BY <1>0, <2>9 DEF IssuePermit, StillFresh, TypeOK, RunInv, Carried,
         Accounted, Authorized, Written, Observing, Executing
    <3>2. /\ UNCHANGED <<observed, preview, approved, committed, result>>
          /\ mutationStarted'[r]
      BY <1>0, <2>9 DEF IssuePermit, TypeOK
    <3>3. Gate!Grant(preview[r])
      BY <3>1, <3>2, Unreported DEF Gate!Grant, Gate!Open, Offered, Approved,
         Granted, Grants, Recorded
    <3>4. preview[r] \in Offered'
      BY <3>1, <3>2 DEF Offered
    <3> QED
      BY <3>3, <3>4 DEF Gate!Next
  <2>10. CASE VerificationRead(r)
    <3>1. observed'[r] \in Observation /\ result[r] = None
      BY <1>0, <2>10 DEF VerificationRead, TypeOK, RunInv, Carried, Accounted,
         Observing, Written
    <3> QED
      BY <2>10, <3>1, Looks DEF VerificationRead
  <2>11. CASE Close(r)
    BY <2>11, Quiet DEF Close
  <2>12. ASSUME NEW ok \in BOOLEAN, ApplyReturns(r, ok)
         PROVE [Gate!Next]_(Gate!vars)
    BY <2>12, Quiet DEF ApplyReturns
  <2>13. CASE ExecuteFails(r)
    BY <1>0, <2>13, Ends DEF ExecuteFails, TypeOK, RunInv, Accounted, Results
  <2>14. CASE CommitOwnership(r)
    <3>1. /\ mutationStarted[r] /\ result[r] = None /\ preview[r] # None
          /\ observed[r] = preview[r].after
      BY <1>0, <2>14 DEF CommitOwnership, TypeOK, RunInv, Carried, Accounted,
         Authorized, Written, Observing, Executing
    <3>2. UNCHANGED <<observed, preview, mutationStarted, approved>>
      BY <2>14 DEF CommitOwnership
    <3>3. CASE result' = result /\ committed' = committed \cup {r}
      <4>1. Gate!Commit(Recorded')
        BY <3>1, <3>2, <3>3, Unreported DEF Gate!Commit, Gate!Open,
           Gate!Reaches, Offered, Approved, Granted, Grants, Recorded
      <4> QED
        BY <4>1 DEF Gate!Next, Recorded
    <3>4. CASE /\ committed' = committed
               /\ \/ result' = [result EXCEPT ![r] = "recovery_required"]
                  \/ result' = [result EXCEPT ![r] = "error"]
      BY <1>0, <3>1, <3>2, <3>4, Ends DEF TypeOK, Results
    <3> QED
      BY <2>14, <3>3, <3>4 DEF CommitOwnership
  <2>15. CASE FinalizeExecution(r)
    <3>1. /\ mutationStarted[r] /\ result[r] = None /\ preview[r] # None
          /\ verified[r] => observed[r] = preview[r].after
      BY <1>0, <2>15 DEF FinalizeExecution, TypeOK, RunInv, Carried, Accounted,
         Authorized, Written, Observing, Executing
    <3>2. \/ result'[r] = "completed" /\ verified[r]
          \/ result'[r] \in {"verification_failed", "recovery_required"}
      BY <1>0, <2>15 DEF FinalizeExecution, TypeOK
    <3>3. UNCHANGED <<observed, preview, mutationStarted, approved, committed>>
      BY <2>15 DEF FinalizeExecution
    <3> QED
      BY <1>0, <3>1, <3>2, <3>3, Ends DEF TypeOK, Results
  <2> QED
    BY <1>2, <2>1, <2>2, <2>3, <2>4, <2>5, <2>6, <2>7, <2>8, <2>9, <2>10, <2>11,
       <2>12, <2>13, <2>14, <2>15 DEF Step
<1>3. ASSUME NEW k \in Keys, NEW v \in Existing, SavePolicy(r, k, v)
      PROVE [Gate!Next]_(Gate!vars)
  BY <1>3, Quiet DEF SavePolicy
<1> QED
  BY <1>1, <1>2, <1>3 DEF RunStep

(* Steps of other runs and of the rest of the world do not concern the gate.  *)
LEMMA GateStep == IInv /\ IInv' /\ [Next]_vars => [Gate!Next]_(Gate!vars)
<1> SUFFICES ASSUME IInv, IInv', [Next]_vars PROVE [Gate!Next]_(Gate!vars)
  OBVIOUS
<1>0. Watched \in Runs
  BY AttendedAssumption
<1>1. ASSUME NEW r \in Runs, RunStep(r) PROVE [Gate!Next]_(Gate!vars)
  <2>1. CASE r = Watched
    BY <1>1, <2>1, GateRunStep
  <2>2. CASE r # Watched
    <3>1. Same(Watched)
      BY <1>0, <1>1, <2>2, OthersUntouched
    <3> QED
      BY <3>1, Quiet DEF Same
  <2> QED
    BY <2>1, <2>2
<1>2. ASSUME NEW p \in Processes, Crash(p) PROVE [Gate!Next]_(Gate!vars)
  BY <1>2, Quiet DEF Crash
<1>3. CASE Tick
  BY <1>3, Quiet DEF Tick
<1>4. ASSUME NEW e \in ExternalEdits, ExternalEdit(e[1], e[2])
      PROVE [Gate!Next]_(Gate!vars)
  BY <1>4, Quiet DEF ExternalEdit
<1>5. CASE UNCHANGED vars
  BY <1>5, Quiet DEF vars
<1> QED
  BY <1>1, <1>2, <1>3, <1>4, <1>5 DEF Next, RunStep

(* A run starts as the gate does.  *)
LEMMA GateInit == Init => Gate!Init
BY AttendedAssumption, Unreported DEF Init, Gate!Init, Offered, Approved,
   Granted, Grants, Recorded

(* Every attended run implements ApprovalGate: its one approved change is   *)
(* written at most once, from the state the operator saw; the registry and  *)
(* success follow a read of the desired state; a run that says it drifted   *)
(* or was rejected never wrote.                                             *)
THEOREM AttendedImplementsGate == Spec => ImplementsGate
<1>1. Init => Gate!Init
  BY GateInit
<1>2. IInv /\ IInv' /\ [Next]_vars => [Gate!Next]_(Gate!vars)
  BY GateStep
<1> QED
  BY <1>1, <1>2, InvariantHolds, PTL DEF Spec, ImplementsGate, Gate!Spec

-----------------------------------------------------------------------------
(* The registry file, within one process.                                   *)

OneProcess == \A q, r \in Runs : Host[q] = Host[r]

(***************************************************************************)
(* A run that commits is alone: nobody else has a browser session or is in *)
(* the middle of code without an await.  So the registry a run loaded is   *)
(* the registry file until it commits, and what its preview expects to be  *)
(* there has a record.                                                     *)
(***************************************************************************)
Loaded == {"open", "fresh_read", "permit", "applying", "verification_read",
           "close", "commit"}

Alone(q, r) ==
  /\ at[q] \in NoAwait => at[r] \notin NoAwait
  /\ at[q] = "commit" => at[r] \notin InSession

Current(r) ==
  /\ at[r] \in Loaded => ownership[r] = registry
  /\ at[r] = "permit" =>
       \A k \in Keys : observed[r].res[k] \in Values => k \in ownership[r]
  /\ at[r] \in Written \ {"finalize"} =>
       \A k \in Keys : preview[r].before.res[k] \in Values => k \in ownership[r]
  /\ preview[r] # None =>
       \A k \in ChangedKeys(preview[r]) : preview[r].after.res[k] \in Existing

RegistryInv ==
  /\ \A q, r \in Runs : q # r => Alone(q, r)
  /\ \A r \in Runs : Current(r)

(* Every move of a run waits for its turn.  *)
LEMMA MovesInTurn ==
  ASSUME NEW r \in Runs, RunStep(r)
  PROVE  Turn(r)
BY DEF RunStep, Step, Request, Goes, Returns, RecordPlanReview, Preview, Cancel,
   Execute, PreviewOpen, PreviewRead, PreviewClose, PreviewFails, LoadOwnership,
   Open, FreshRead, Drifts, IssuePermit, VerificationRead, Close, ApplyReturns,
   ExecuteFails, CommitOwnership, FinalizeExecution, SavePolicy

(* Only the end of a verified session leads to the commit.  *)
LEMMA CommitsAfterClose ==
  ASSUME TypeOK, NEW r \in Runs, RunStep(r), at'[r] = "commit"
  PROVE  at[r] = "close"
BY DEF TypeOK, RunStep, Step, Request, Goes, Returns, RecordPlanReview, Preview,
   Cancel, Execute, PreviewOpen, PreviewRead, PreviewClose, PreviewFails,
   LoadOwnership, Open, FreshRead, Drifts, IssuePermit, VerificationRead, Close,
   ApplyReturns, ExecuteFails, CommitOwnership, FinalizeExecution, SavePolicy

(* Nobody but a committing run writes the registry file.  *)
LEMMA RegistryWriters ==
  ASSUME NEW r \in Runs, RunStep(r)
  PROVE  \/ registry' = registry /\ committed' = committed
         \/ CommitOwnership(r)
BY DEF RunStep, Step, Request, RecordPlanReview, Preview, Cancel, Execute,
   PreviewOpen, PreviewRead, PreviewClose, PreviewFails, LoadOwnership, Open,
   FreshRead, Drifts, IssuePermit, VerificationRead, Close, ApplyReturns,
   ExecuteFails, FinalizeExecution, SavePolicy

(* A read reports what a policy holds only if it was told to expect it.  *)
LEMMA ReadsWhatItExpects ==
  ASSUME google \in [Keys -> Existing], NEW s \in Surfaces, NEW own,
         NEW k \in Keys, View(s, Snapshot(s, own)).res[k] \in Values
  PROVE  k \in own
BY AttendedAssumption DEF View, Snapshot, Existing

(* A calculated change creates, edits or removes.  *)
LEMMA ChangesToExisting ==
  ASSUME NEW p \in TaskPlan, NEW s \in Observation, NEW k \in Keys,
         DesiredState(p, s).res[k] # s.res[k]
  PROVE  DesiredState(p, s).res[k] \in Existing
<1>1. DesiredState(p, s).res[k] = CASE p.op[k] = "keep"   -> s.res[k]
                                    [] p.op[k] = "remove" -> Absent
                                    [] OTHER              -> p.val[k]
  BY DEF DesiredState, Observation
<1>2. p.val[k] \in Values
  BY DEF TaskPlan
<1> QED
  BY <1>1, <1>2 DEF Existing

(* Two runs of one process stay out of each other's way.  *)
LEMMA AloneStep ==
  ASSUME OneProcess, IInv, RegistryInv, NEW m \in Runs, RunStep(m),
         NEW q \in Runs, NEW r \in Runs, q # r
  PROVE  Alone(q, r)'
<1>0. TypeOK /\ SessionsAndApprovals /\ Alone(q, r) /\ Alone(r, q)
  BY DEF IInv, RegistryInv
<1>1. \A n \in Runs \ {m} : at[n] \notin NoAwait /\ at'[n] = at[n]
  BY MovesInTurn, OthersUntouched DEF Turn, OneProcess, Same
<1>2. at'[m] = "commit" => \A n \in Runs \ {m} : at[n] \notin InSession
  <2> SUFFICES ASSUME at'[m] = "commit", NEW n \in Runs \ {m}
               PROVE at[n] \notin InSession
    OBVIOUS
  <2>1. lock = m
    BY <1>0, CommitsAfterClose DEF SessionsAndApprovals, InSession
  <2> QED
    BY <1>0, <2>1 DEF SessionsAndApprovals
<1> QED
  BY <1>0, <1>1, <1>2 DEF Alone, NoAwait

(* What a commit writes is the registry file with the change read back.  *)
LEMMA CommitFollowsReadBack ==
  ASSUME IInv, NEW r \in Runs, Current(r), at[r] = "commit", NEW k \in Keys
  PROVE  k \in CommittedRegistry(r) <=>
           IF k \in ChangedKeys(preview[r]) THEN observed[r].res[k] \in Values
                                            ELSE k \in registry
<1>1. /\ ownership[r] = registry /\ observed[r] = preview[r].after
      /\ preview[r] # None
      /\ preview[r].before.res[k] \in Values => k \in registry
      /\ k \in ChangedKeys(preview[r]) => preview[r].after.res[k] \in Existing
  BY DEF Current, Loaded, Written, IInv, RunInv, Carried, Authorized, Executing,
     Observing
<1> QED
  BY <1>1, AttendedAssumption DEF CommittedRegistry, ChangedKeys, RemovedKeys,
     ManagedKeys, Existing

(* The run that moves: its copy of the registry stays the registry file.  *)
LEMMA CurrentRunStep ==
  ASSUME IInv, NEW r \in Runs, Current(r), RunStep(r)
  PROVE  Current(r)'
<1> USE AttendedAssumption
<1> USE DEF Goes, Returns, Loaded, Written, Current
<1>0. TypeOK /\ RunInv(r)
  BY DEF IInv
<1>1. CASE Request(r)
  <2>1. CASE RecordPlanReview(r)
    BY <1>0, <2>1 DEF TypeOK, RecordPlanReview
  <2>2. ASSUME NEW p \in TaskPlans, NEW l \in BOOLEAN, Preview(r, p, l)
        PROVE Current(r)'
    BY <1>0, <2>2 DEF TypeOK, Preview
  <2>3. CASE Cancel(r)
    BY <1>0, <2>3 DEF TypeOK, Cancel
  <2>4. CASE Execute(r)
    BY <1>0, <2>4 DEF TypeOK, Execute
  <2> QED
    BY <1>1, <2>1, <2>2, <2>3, <2>4 DEF Request
<1>2. CASE Step(r)
  <2>1. CASE PreviewOpen(r)
    BY <1>0, <2>1 DEF TypeOK, PreviewOpen
  <2>2. CASE PreviewRead(r)
    BY <1>0, <2>2 DEF TypeOK, PreviewRead
  <2>3. CASE PreviewClose(r)
    <3>1. at'[r] \in {"previewed", "done"}
      BY <1>0, <2>3 DEF TypeOK, PreviewClose
    <3>2. CASE preview' = preview
      BY <3>1, <3>2
    <3>3. CASE preview' # preview
      <4> DEFINE c == [plan |-> plan[r], before |-> observed[r],
                       after |-> DesiredState(plan[r], observed[r])]
      <4>1. preview'[r] = c
        BY <1>0, <2>3, <3>3 DEF TypeOK, PreviewClose
      <4>2. plan[r] \in TaskPlan /\ observed[r] \in Observation
        BY <1>0, <2>3 DEF TypeOK, PreviewClose, RunInv, Carried
      <4>3. \A k \in ChangedKeys(c) : c.after.res[k] \in Existing
        BY <4>2, ChangesToExisting DEF ChangedKeys
      <4> HIDE DEF c
      <4> QED
        BY <3>1, <4>1, <4>3 DEF ChangedKeys
    <3> QED
      BY <3>2, <3>3
  <2>4. CASE PreviewFails(r)
    BY <1>0, <2>4 DEF TypeOK, PreviewFails
  <2>5. CASE LoadOwnership(r)
    BY <1>0, <2>5 DEF TypeOK, LoadOwnership
  <2>6. CASE Open(r)
    BY <1>0, <2>6 DEF TypeOK, Open
  <2>7. CASE FreshRead(r)
    <3>1. plan[r] \in TaskPlan
      BY <1>0, <2>7 DEF TypeOK, FreshRead, RunInv, Carried
    <3>2. /\ at'[r] = "permit"
          /\ observed'[r] = View(plan[r].surface,
                                 Snapshot(plan[r].surface, ownership[r]))
      BY <1>0, <2>7 DEF TypeOK, FreshRead
    <3>3. \A k \in Keys : observed'[r].res[k] \in Values => k \in ownership[r]
      BY <1>0, <3>1, <3>2, ReadsWhatItExpects DEF TypeOK, TaskPlan
    <3> QED
      BY <1>0, <2>7, <3>2, <3>3 DEF FreshRead
  <2>8. CASE Drifts(r)
    BY <1>0, <2>8 DEF TypeOK, Drifts
  <2>9. CASE IssuePermit(r)
    BY <1>0, <2>9 DEF TypeOK, IssuePermit, StillFresh
  <2>10. CASE VerificationRead(r)
    BY <1>0, <2>10 DEF TypeOK, VerificationRead
  <2>11. CASE Close(r)
    BY <1>0, <2>11 DEF TypeOK, Close
  <2>12. ASSUME NEW ok \in BOOLEAN, ApplyReturns(r, ok) PROVE Current(r)'
    BY <1>0, <2>12 DEF TypeOK, ApplyReturns
  <2>13. CASE ExecuteFails(r)
    BY <1>0, <2>13 DEF TypeOK, ExecuteFails
  <2>14. CASE CommitOwnership(r)
    BY <1>0, <2>14 DEF TypeOK, CommitOwnership
  <2>15. CASE FinalizeExecution(r)
    BY <1>0, <2>15 DEF TypeOK, FinalizeExecution
  <2> QED
    BY <1>2, <2>1, <2>2, <2>3, <2>4, <2>5, <2>6, <2>7, <2>8, <2>9, <2>10, <2>11,
       <2>12, <2>13, <2>14, <2>15 DEF Step
<1>3. ASSUME NEW k \in Keys, NEW v \in Existing, SavePolicy(r, k, v)
      PROVE Current(r)'
  BY <1>0, <1>3 DEF TypeOK, SavePolicy
<1> QED
  BY <1>1, <1>2, <1>3 DEF RunStep

(* Another run keeps its copy too: whoever commits is alone.  *)
LEMMA CurrentOtherStep ==
  ASSUME IInv, RegistryInv, NEW m \in Runs, RunStep(m), NEW r \in Runs \ {m}
  PROVE  Current(r)'
<1>1. Same(r) /\ Current(r) /\ Alone(m, r)
  BY OthersUntouched DEF RegistryInv
<1>2. CASE registry' = registry
  BY <1>1, <1>2 DEF Same, Current
<1>3. CASE CommitOwnership(m)
  <2>1. at[r] \notin Loaded
    BY <1>1, <1>3 DEF CommitOwnership, Alone, NoAwait, InSession, Loaded
  <2> QED
    BY <1>1, <2>1 DEF Same, Current, Loaded, Written
<1> QED
  BY <1>2, <1>3, RegistryWriters

(* Every step of a single process keeps the registry copies current.  *)
LEMMA RegistryInvStep ==
  ASSUME OneProcess
  PROVE  IInv /\ RegistryInv /\ [Next]_vars => RegistryInv'
<1> SUFFICES ASSUME IInv, RegistryInv, [Next]_vars PROVE RegistryInv'
  OBVIOUS
<1>1. ASSUME NEW m \in Runs, RunStep(m) PROVE RegistryInv'
  <2>1. \A q, r \in Runs : q # r => Alone(q, r)'
    BY OneProcess, <1>1, AloneStep
  <2>2. \A r \in Runs : Current(r)'
    BY <1>1, CurrentRunStep, CurrentOtherStep DEF RegistryInv
  <2> QED
    BY <2>1, <2>2 DEF RegistryInv
<1>2. ASSUME NEW p \in Processes, Crash(p) PROVE RegistryInv'
  <2>1. \A r \in Runs : at'[r] = at[r] \/ at'[r] = "done"
    BY <1>2 DEF Crash, IInv, TypeOK
  <2>2. UNCHANGED <<calls, registry>>
    BY <1>2 DEF Crash
  <2>3. \A q, r \in Runs : q # r => Alone(q, r)'
    BY <2>1 DEF RegistryInv, Alone, NoAwait, InSession
  <2>4. \A r \in Runs : Current(r)'
    BY <2>1, <2>2 DEF RegistryInv, Current, Loaded, Written
  <2> QED
    BY <2>3, <2>4 DEF RegistryInv
<1>3. CASE UNCHANGED <<at, calls, registry>>
  BY <1>3 DEF RegistryInv, Alone, Current
<1> QED
  BY <1>1, <1>2, <1>3 DEF Next, RunStep, Tick, ExternalEdit, vars

(* Only a commit writes the registry file, and it writes what was read back.  *)
LEMMA RegistryActionStep ==
  IInv /\ RegistryInv /\ [Next]_vars =>
    [registry' # registry \/ committed' # committed =>
       \E r \in approved :
         /\ at[r] = "commit"
         /\ \A k \in Keys :
              k \in registry' <=> IF k \in ChangedKeys(preview[r])
                                    THEN observed[r].res[k] \in Values
                                    ELSE k \in registry]_vars
<1> SUFFICES ASSUME IInv, RegistryInv, [Next]_vars,
                    registry' # registry \/ committed' # committed
             PROVE  \E r \in approved :
                      /\ at[r] = "commit"
                      /\ \A k \in Keys :
                           k \in registry' <=>
                             IF k \in ChangedKeys(preview[r])
                               THEN observed[r].res[k] \in Values
                               ELSE k \in registry
  OBVIOUS
<1>1. PICK m \in Runs : CommitOwnership(m)
  BY RegistryWriters DEF Next, RunStep, Crash, Tick, ExternalEdit, vars
<1>2. at[m] = "commit" /\ registry' = CommittedRegistry(m)
  BY <1>1 DEF CommitOwnership
<1>3. m \in approved
  BY <1>2 DEF IInv, RunInv, Authorized, Executing, Observing, Written
<1>4. \A k \in Keys : k \in registry' <=>
        IF k \in ChangedKeys(preview[m]) THEN observed[m].res[k] \in Values
                                         ELSE k \in registry
  BY <1>2, CommitFollowsReadBack DEF RegistryInv
<1> QED
  BY <1>2, <1>3, <1>4

(* Within one process, whatever its runs interleave, fail or drift: a commit *)
(* leaves exactly the records of the approved policies that were read back  *)
(* and touches no other record, although the registry is loaded before the  *)
(* lock is taken and written after it is released.                          *)
THEOREM RegistryFollowsInOneProcess ==
  ASSUME OneProcess
  PROVE  Spec => RegistryFollowsReadBack
<1>1. Init => RegistryInv
  BY AttendedAssumption DEF Init, RegistryInv, Alone, Current, NoAwait,
     InSession, Loaded, Written
<1>2. IInv /\ RegistryInv /\ [Next]_vars => RegistryInv'
  BY OneProcess, RegistryInvStep
<1> QED
  BY <1>1, <1>2, RegistryActionStep, InvariantHolds, PTL
     DEF Spec, RegistryFollowsReadBack

=============================================================================
