---------------------------- MODULE ReflexSession ---------------------------
(***************************************************************************)
(* One operator session of the Reflex console (ConsoleState of             *)
(* src/compliance_agent/reflex_console/state.py) on top of the attended    *)
(* service.  An event handler gives way at every yield and await, and      *)
(* other events of the session run there: the draft can change while the   *)
(* composer, the persona writer, the specialists or the browser work, and  *)
(* buttons can be pressed twice.                                           *)
(*                                                                         *)
(* Data.  The typed fields with the notice are one value (text), the prose *)
(* for the composer is another.  The service is reduced to its pending     *)
(* approvals (AttendedPolicy has the rest): its calls end in any of the    *)
(* ways their callers tell apart.  The phrase of a run is made from its    *)
(* run ID, so the run stands for it.                                       *)
(***************************************************************************)
EXTENDS Naturals, FiniteSets

CONSTANTS
  Policies,      \* managed policies that Ownership lists
  Surface,       \* "standard" or "compliance", for each policy
  Texts,         \* values of the typed fields
  Blank,         \* fields that make no plan, of an empty editor
  Descriptions,  \* prose for the composer
  None,          \* Python's None, and the empty string
  CancelFaults,  \* may the audit of a cancelled run fail to be closed?
  LongPath,      \* may the form's path make an assumption that is too long?
  Modes,         \* run modes the operator uses
  MaxRevision, MaxRuns,  \* bounds
  MaxHandlers    \* bound on the handlers that wait at the same time

Runs  == 1 .. MaxRuns
Locks == {"composer", "persona", "review", "browser", "execution", "google"}

Operations == {"create", "update", "remove", "toggle"}
Form     == [op : Operations, target : Policies \cup {None}, text : Texts]
TaskPlan == [op : Operations, target : Policies \cup {None}, text : Texts \cup {None}]

\* PolicyDraftAuditEvidence: the recommended fields and edited_after_application
Evidence == [text : Texts, edited : BOOLEAN]

\* What a handler that gave way keeps, and a live approval of the service
Revisions    == 0 .. MaxRevision
ComposerTask == [revision : Revisions, description : Descriptions, seen : Texts]
PersonaTask  == [revision : Revisions, seen : Texts]
ReviewTask   == [revision : Revisions, plan : TaskPlan]
BrowserTask  == [run : Runs, plan : TaskPlan, revision : Revisions,
                 mode : Modes \ {"plan_only"}]
Approval     == [plan : TaskPlan, revision : Revisions]

ASSUME ReflexAssumption ==
  /\ Surface \in [Policies -> {"standard", "compliance"}]
  /\ Blank \in Texts
  /\ None \notin Policies \cup Texts \cup Descriptions \cup Nat \cup Evidence
  /\ None \notin ComposerTask \cup PersonaTask \cup ReviewTask \cup Approval
  /\ CancelFaults \in BOOLEAN /\ LongPath \in BOOLEAN
  /\ Modes \subseteq {"plan_only", "dry_run", "live"}
  /\ MaxRevision \in Nat /\ MaxRuns \in Nat /\ MaxHandlers \in Nat

VARIABLES
  form,       \* the editor
  revision,   \* draft_revision
  mode,       \* run_mode
  locks,      \* the ..._in_progress flags that are set
  view,       \* what the preview and approval panel holds
  description,\* composer_description
  composer,   \* what was applied: the recommendation and the revision it made
  composing, writing, reviewing, reading, approving, executing,
              \* handlers that gave way, with what each keeps in its locals
  pending,    \* the service's live approvals
  nextRun,
  recorded,   \* the composer evidence that the last run's audit holds
  \* history
  raised      \* a handler ended with an exception it does not catch

handlers == <<composing, writing, reviewing, reading, approving, executing>>
vars == <<form, revision, mode, locks, view, description, composer, handlers,
          pending, nextRun, recorded, raised>>

Waiting ==
  Cardinality({h \in {composing, writing, reviewing} : h # None})
    + Cardinality(reading) + approving + Cardinality(executing)
    + Cardinality(locks \cap {"google"})

workflow_locked == locks \cap {"composer", "review", "browser", "execution"} # {}

\* What _reset_create_editor leaves, what the registry's snapshot of a policy
\* fills in, and what a recommendation does.
EmptyForm == [op |-> "create", target |-> None, text |-> Blank]
LoadedTexts == Texts \ {Blank}
RecommendedTexts == Texts \ {Blank}

NoApproval == [run_id |-> None, bound |-> FALSE, ready |-> FALSE, answer |-> None]
NoComposer == [text |-> None, revision |-> None]

Init ==
  /\ form = EmptyForm
  /\ revision = 0
  /\ mode \in Modes
  /\ locks = {}
  /\ view = NoApproval
  /\ description \in Descriptions
  /\ composer = NoComposer
  /\ composing = None /\ writing = None /\ reviewing = None
  /\ reading = {} /\ approving = 0 /\ executing = {}
  /\ pending = [r \in Runs |-> None]
  /\ nextRun = 1
  /\ recorded = None
  /\ raised = FALSE

-----------------------------------------------------------------------------
(* Invalidation.                                                           *)

\* cancel: the approval is gone before its audit is closed, which may fail.
Cancelled(run) == IF run = None THEN pending ELSE [pending EXCEPT ![run] = None]
CancelEnds(run, ok) ==
  ok \/ (CancelFaults /\ run # None /\ pending[run] # None)

\* _clear_approval, with ready as the caller leaves preview_ready.  When
\* cancel raises, nothing after it is assigned.
ClearApproval(ready, ok) ==
  /\ CancelEnds(view.run_id, ok)
  /\ pending' = Cancelled(view.run_id)
  /\ view' = IF ok THEN [NoApproval EXCEPT !.ready = ready] ELSE view

\* _reset_preview_evidence
ResetPreviewEvidence(ok) ==
  /\ revision < MaxRevision
  /\ revision' = revision + 1
  /\ ClearApproval(FALSE, ok)
  /\ raised' = (raised \/ ~ok)

-----------------------------------------------------------------------------
(* The editor.  Its handlers assign the fields, then reset the evidence.   *)

\* Every set_... of a policy field
SetField(text, ok) ==
  /\ text # form.text
  /\ form' = [form EXCEPT !.text = text]
  /\ ResetPreviewEvidence(ok)
  /\ UNCHANGED <<mode, locks, description, composer, handlers, nextRun, recorded>>

\* add_, remove_ and update_expression: the rows of a Content compliance draft
EditExpression(text, ok) ==
  /\ form.target # None => Surface[form.target] = "compliance"
  /\ SetField(text, ok)

\* set_expected_admin_email and its like, save_google_identities and
\* save_agent_models: no field of the draft, but the evidence goes.
SaveSettings(ok) ==
  /\ ResetPreviewEvidence(ok)
  /\ UNCHANGED <<form, mode, locks, description, composer, handlers, nextRun,
                 recorded>>

ChangeRunMode(m, ok) ==
  /\ ~workflow_locked
  /\ mode' = m
  /\ ResetPreviewEvidence(ok)
  /\ UNCHANGED <<form, locks, description, composer, handlers, nextRun, recorded>>

\* load_runtime_settings when the page is loaded again: the mode is the one
\* the environment file has, which another tab may have changed.
LoadRuntimeSettings(m) ==
  /\ mode' = m
  /\ m # mode
  /\ UNCHANGED <<form, revision, locks, view, description, composer, handlers,
                 pending, nextRun, recorded, raised>>

\* start_create, with _reset_create_editor and _clear_composer
StartCreate(ok) ==
  /\ ~workflow_locked
  /\ form' = EmptyForm
  /\ composer' = NoComposer
  /\ ResetPreviewEvidence(ok)
  /\ UNCHANGED <<mode, locks, description, handlers, nextRun, recorded>>

\* select_section: the other surface has fields of its own.
SelectSection(text, ok) ==
  /\ ~workflow_locked
  /\ form' = [op |-> "create", target |-> None, text |-> text]
  /\ ResetPreviewEvidence(ok)
  /\ UNCHANGED <<mode, locks, description, composer, handlers, nextRun, recorded>>

\* edit_policy, remove_policy and toggle_policy when edit_policy loads p
LoadPolicy(p, op, text, ok) ==
  /\ ~workflow_locked
  /\ form' = [op |-> IF ok THEN op ELSE "update", target |-> p, text |-> text]
  /\ composer' = NoComposer
  /\ ResetPreviewEvidence(ok)
  /\ UNCHANGED <<mode, locks, description, handlers, nextRun, recorded>>

\* The same when edit_policy returns early: the workflow is locked, or the
\* registry has no snapshot of p (then the composer is cleared already).
\* remove_policy and toggle_policy go on if p is what the editor holds.
KeepPolicy(p, op, available) ==
  /\ workflow_locked \/ ~available
  /\ form' = IF op \in {"remove", "toggle"} /\ form.target = p
               THEN [form EXCEPT !.op = op] ELSE form
  /\ composer' = IF workflow_locked THEN composer ELSE NoComposer
  /\ <<form, composer>>' # <<form, composer>>
  /\ UNCHANGED <<revision, mode, locks, view, description, handlers, pending,
                 nextRun, recorded, raised>>

\* set_composer_description
SetDescription(d) ==
  /\ description' = d
  /\ d # description
  /\ UNCHANGED <<form, revision, mode, locks, view, composer, handlers, pending,
                 nextRun, recorded, raised>>

-----------------------------------------------------------------------------
(* The composer and the persona writer.                                    *)

ComposePolicy ==
  /\ Waiting < MaxHandlers
  /\ "composer" \notin locks
  /\ form.op = "create"
  /\ locks' = locks \cup {"composer"}
  /\ composing' = [revision |-> revision, description |-> description, seen |-> form.text]
  /\ UNCHANGED <<form, revision, mode, view, description, composer, writing,
                 reviewing, reading, approving, executing, pending,
                 nextRun, recorded, raised>>

\* The model fails, asks for clarification or calls the request unsupported,
\* or its answer is discarded; and a return that forgets the flag.
ForgetsFlag ==
  /\ composing # None
  /\ composing' = None
  /\ UNCHANGED <<form, revision, mode, locks, view, description, composer, writing,
                 reviewing, reading, approving, executing, pending, nextRun,
                 recorded, raised>>

ComposerKeepsDraft ==
  /\ composing # None
  /\ composing' = None
  /\ locks' = locks \ {"composer"}
  /\ UNCHANGED <<form, revision, mode, view, description, composer, writing,
                 reviewing, reading, approving, executing, pending,
                 nextRun, recorded, raised>>

ComposerIsCurrent ==
  composing.revision = revision /\ composing.description = description

\* _apply_policy_recommendation resets the evidence before it fills the form.
ApplyRecommendation(text, ok) ==
  /\ composing # None
  /\ ComposerIsCurrent
  /\ ResetPreviewEvidence(ok)
  /\ composing' = None
  /\ IF ok
       THEN /\ form' = [op |-> "create", target |-> None, text |-> text]
            /\ composer' = [text |-> text, revision |-> revision']
            /\ locks' = locks \ {"composer"}
       ELSE UNCHANGED <<form, composer, locks>>
  /\ UNCHANGED <<mode, description, writing, reviewing, reading, approving,
                 executing, nextRun, recorded>>

\* _complete_default_assumptions is not in the try block: an assumption over
\* 300 characters, from a path that may have 1,000, ends the handler.
AssumptionRejected ==
  /\ LongPath
  /\ composing # None
  /\ ComposerIsCurrent
  /\ composing' = None
  /\ raised' = TRUE
  /\ UNCHANGED <<form, revision, mode, locks, view, description, composer,
                 writing, reviewing, reading, approving, executing,
                 pending, nextRun, recorded>>

GeneratePersona ==
  /\ Waiting < MaxHandlers
  /\ "persona" \notin locks
  /\ locks' = locks \cup {"persona"}
  /\ writing' = [revision |-> revision, seen |-> form.text]
  /\ UNCHANGED <<form, revision, mode, view, description, composer, composing,
                 reviewing, reading, approving, executing, pending,
                 nextRun, recorded, raised>>

PersonaKeepsDraft ==
  /\ writing # None
  /\ writing' = None
  /\ locks' = locks \ {"persona"}
  /\ UNCHANGED <<form, revision, mode, view, description, composer, composing,
                 reviewing, reading, approving, executing, pending,
                 nextRun, recorded, raised>>

\* Category and policy ID cannot change without the revision.
AnyPersonaIsCurrent == TRUE
PersonaIsCurrent == writing.revision = revision

\* _apply_generated_notice
ApplyGeneratedNotice(text, ok) ==
  /\ writing # None
  /\ PersonaIsCurrent
  /\ ResetPreviewEvidence(ok)
  /\ writing' = None
  /\ IF ok THEN /\ form' = [form EXCEPT !.text = text]
                /\ locks' = locks \ {"persona"}
           ELSE UNCHANGED <<form, locks>>
  /\ UNCHANGED <<mode, description, composer, composing, reviewing, reading,
                 approving, executing, nextRun, recorded>>

-----------------------------------------------------------------------------
(* Review and browser preview.                                             *)

\* _build_plan raises when the fields are needed and do not make a policy.
Buildable ==
  \/ form.op = "remove"
  \/ form.op = "toggle" /\ Surface[form.target] = "compliance"
  \/ form.text # Blank
BuildPlan ==
  [op |-> form.op, target |-> form.target,
   text |-> IF form.op \in {"create", "update"} THEN form.text ELSE None]

PreviewRefused ==
  /\ "review" \notin locks
  /\ ~Buildable
  /\ view' = [view EXCEPT !.ready = FALSE]
  /\ view' # view
  /\ UNCHANGED <<form, revision, mode, locks, description, composer, handlers,
                 pending, nextRun, recorded, raised>>

\* preview as far as the call of the specialists; _bind_draft clears the
\* approval of an earlier preview.
Preview(ok) ==
  /\ Waiting < MaxHandlers
  /\ "review" \notin locks
  /\ Buildable
  /\ ClearApproval(TRUE, ok)
  /\ raised' = (raised \/ ~ok)
  /\ IF ok THEN /\ reviewing' = [revision |-> revision, plan |-> BuildPlan]
                /\ locks' = locks \cup {"review"}
           ELSE UNCHANGED <<reviewing, locks>>
  /\ UNCHANGED <<form, revision, mode, description, composer, composing, writing,
                 reading, approving, executing, nextRun, recorded>>

LateIsCurrent(task) == task # None
ReviewIsCurrent(task) == task.revision = revision

\* The specialists fail: the flag is dropped after the evidence is reset.
ReviewFails(ok) ==
  /\ reviewing # None
  /\ ResetPreviewEvidence(ok)
  /\ reviewing' = None
  /\ locks' = IF ok THEN locks \ {"review"} ELSE locks
  /\ UNCHANGED <<form, mode, description, composer, composing, writing, reading,
                 approving, executing, nextRun, recorded>>

ReviewDiscarded(ok) ==
  /\ reviewing # None
  /\ ~ReviewIsCurrent(reviewing)
  /\ ResetPreviewEvidence(ok)
  /\ reviewing' = None
  /\ locks' = locks \ {"review"}
  /\ UNCHANGED <<form, mode, description, composer, composing, writing, reading,
                 approving, executing, nextRun, recorded>>

\* _composer_audit_evidence; the defect compares with the reviewed revision
ComparesReview ==
  IF composer.revision = None THEN None
  ELSE [text |-> composer.text, edited |-> revision # reviewing.revision]
ComposerAuditEvidence ==
  IF composer.revision = None THEN None
  ELSE [text |-> composer.text, edited |-> revision # composer.revision]

\* The modes in which preview goes on to the browser
BrowserAlways(m) == m \in Modes
OpensBrowser(m) == m # "plan_only"

\* The review is accepted.  A run is recorded with its evidence; unless the
\* mode is plan-only the browser is opened.
ReviewAccepted ==
  /\ reviewing # None
  /\ ReviewIsCurrent(reviewing)
  /\ nextRun \in Runs
  /\ nextRun' = nextRun + 1
  /\ recorded' = ComposerAuditEvidence
  /\ reviewing' = None
  /\ IF ~OpensBrowser(mode)
       THEN /\ view' = [view EXCEPT !.run_id = nextRun]
            /\ locks' = locks \ {"review"}
            /\ UNCHANGED reading
       ELSE /\ reading' = reading \cup {[run |-> nextRun, plan |-> reviewing.plan,
                                         revision |-> reviewing.revision, mode |-> mode]}
            /\ locks' = (locks \ {"review"}) \cup {"browser"}
            /\ UNCHANGED view
  /\ UNCHANGED <<form, revision, mode, description, composer, composing, writing,
                 approving, executing, pending, raised>>

\* load_settings or record_plan_review raises: nothing is recorded.
ReviewNotRecorded ==
  /\ reviewing # None
  /\ ReviewIsCurrent(reviewing)
  /\ reviewing' = None
  /\ locks' = locks \ {"review"}
  /\ raised' = TRUE
  /\ UNCHANGED <<form, revision, mode, view, description, composer, composing,
                 writing, reading, approving, executing, pending, nextRun, recorded>>

\* The browser preview raises.
ReadFails(task) ==
  /\ reading' = reading \ {task}
  /\ locks' = locks \ {"browser"}
  /\ UNCHANGED <<form, revision, mode, view, description, composer, composing,
                 writing, reviewing, approving, executing, pending,
                 nextRun, recorded, raised>>

\* The service has put a live approval up and returns, but the draft changed:
\* the approval is cancelled, then the flag dropped and the evidence reset.
ReadDiscarded(task, closed, ok) ==
  /\ ~ReviewIsCurrent(task)
  /\ closed \/ (CancelFaults /\ task.mode = "live")
  /\ reading' = reading \ {task}
  /\ IF closed THEN /\ ResetPreviewEvidence(ok)
                    /\ locks' = locks \ {"browser"}
               ELSE /\ raised' = TRUE
                    /\ ok
                    /\ UNCHANGED <<revision, view, pending, locks>>
  /\ UNCHANGED <<form, mode, description, composer, composing, writing, reviewing,
                 approving, executing, nextRun, recorded>>

\* _bind_attended_preview; an approval of the service needs a live mode and
\* a change.
BindAttendedPreview(task, has_mutations) ==
  LET approvable == task.mode = "live" /\ has_mutations
  IN /\ ReviewIsCurrent(task)
     /\ reading' = reading \ {task}
     /\ locks' = locks \ {"browser"}
     /\ view' = [run_id |-> task.run, bound |-> approvable, ready |-> TRUE,
                 answer |-> None]
     /\ pending' = IF approvable
                     THEN [pending EXCEPT ![task.run] =
                             [plan |-> task.plan, revision |-> task.revision]]
                     ELSE pending
     /\ UNCHANGED <<form, revision, mode, description, composer, composing, writing,
                    reviewing, approving, executing, nextRun, recorded, raised>>

\* assess_google_state
AssessGoogleState ==
  /\ Waiting < MaxHandlers
  /\ "google" \notin locks /\ ~workflow_locked
  /\ OpensBrowser(mode)
  /\ locks' = locks \cup {"google", "browser"}
  /\ UNCHANGED <<form, revision, mode, view, description, composer, handlers,
                 pending, nextRun, recorded, raised>>

AssessmentEnds ==
  /\ "google" \in locks
  /\ locks' = locks \ {"google", "browser"}
  /\ UNCHANGED <<form, revision, mode, view, description, composer, handlers,
                 pending, nextRun, recorded, raised>>

-----------------------------------------------------------------------------
(* Approval.                                                               *)

\* set_acknowledged and set_phrase_entry: the operator acknowledges and types
\* the phrase of some run, maybe one shown earlier (None: not both are given).
Acknowledge(phrase) ==
  /\ phrase # view.answer
  /\ view' = [view EXCEPT !.answer = phrase]
  /\ UNCHANGED <<form, revision, mode, locks, description, composer, handlers,
                 pending, nextRun, recorded, raised>>

\* approve_plan as far as its yield
ApprovePlan ==
  /\ Waiting < MaxHandlers
  /\ view.ready /\ view.bound
  /\ view.run_id # None
  /\ view.answer = view.run_id
  /\ approving' = approving + 1
  /\ locks' = locks \cup {"execution"}
  /\ UNCHANGED <<form, revision, mode, view, description, composer, composing,
                 writing, reviewing, reading, executing, pending,
                 nextRun, recorded, raised>>

\* The service is called with what the panel holds now.
Accepted ==
  /\ view.run_id # None
  /\ pending[view.run_id] # None
  /\ view.answer = view.run_id
Execute ==
  /\ approving > 0
  /\ Accepted
  /\ approving' = approving - 1
  /\ executing' = executing \cup {view.run_id}
  /\ pending' = [pending EXCEPT ![view.run_id] = None]
  /\ UNCHANGED <<form, revision, mode, locks, view, description, composer,
                 composing, writing, reviewing, reading, nextRun,
                 recorded, raised>>

\* The service raises at once (missing, wrong or expired).  The handler
\* clears whatever approval the panel has.
ExecuteRefused(ok) ==
  /\ approving > 0
  /\ approving' = approving - 1
  /\ locks' = locks \ {"execution"}
  /\ ClearApproval(FALSE, ok)
  /\ raised' = (raised \/ ~ok)
  /\ UNCHANGED <<form, revision, mode, description, composer, composing, writing,
                 reviewing, reading, executing, nextRun, recorded>>

\* execute raises later, or ends in recovery_required
ExecutionBlocked(run, ok) ==
  /\ executing' = executing \ {run}
  /\ locks' = locks \ {"execution"}
  /\ ClearApproval(FALSE, ok)
  /\ raised' = (raised \/ ~ok)
  /\ UNCHANGED <<form, revision, mode, description, composer, composing, writing,
                 reviewing, reading, approving, nextRun, recorded>>

\* execute ends as drifted, completed or verification_failed
ExecutionEnds(run) ==
  /\ executing' = executing \ {run}
  /\ locks' = locks \ {"execution"}
  /\ view' = [view EXCEPT !.ready = FALSE, !.bound = FALSE]
  /\ UNCHANGED <<form, revision, mode, description, composer, composing, writing,
                 reviewing, reading, approving, pending, nextRun,
                 recorded, raised>>

-----------------------------------------------------------------------------
Buttons == {"update", "remove", "toggle"}

Edit(ok) ==
  \/ \E t \in Texts : SetField(t, ok) \/ EditExpression(t, ok)
  \/ SaveSettings(ok)
  \/ \E m \in Modes : ChangeRunMode(m, ok)
  \/ StartCreate(ok)
  \/ \E t \in Texts : SelectSection(t, ok)
  \/ \E p \in Policies, op \in Buttons, t \in LoadedTexts :
       LoadPolicy(p, op, t, ok)

Next ==
  \/ \E ok \in BOOLEAN :
       \/ Edit(ok)
       \/ \E t \in RecommendedTexts : ApplyRecommendation(t, ok)
       \/ \E t \in Texts : ApplyGeneratedNotice(t, ok)
       \/ Preview(ok) \/ ReviewFails(ok) \/ ReviewDiscarded(ok)
       \/ \E task \in reading, closed \in BOOLEAN : ReadDiscarded(task, closed, ok)
       \/ ExecuteRefused(ok)
       \/ \E run \in executing : ExecutionBlocked(run, ok)
  \/ \E m \in Modes : LoadRuntimeSettings(m)
  \/ \E p \in Policies, op \in Buttons, available \in BOOLEAN :
       KeepPolicy(p, op, available)
  \/ \E d \in Descriptions : SetDescription(d)
  \/ ComposePolicy \/ ComposerKeepsDraft \/ AssumptionRejected
  \/ GeneratePersona \/ PersonaKeepsDraft
  \/ PreviewRefused \/ ReviewAccepted \/ ReviewNotRecorded
  \/ \E task \in reading : ReadFails(task)
  \/ \E task \in reading, m \in BOOLEAN : BindAttendedPreview(task, m)
  \/ AssessGoogleState \/ AssessmentEnds
  \/ \E phrase \in (1 .. nextRun - 1) \cup {None} : Acknowledge(phrase)
  \/ ApprovePlan \/ Execute
  \/ \E run \in executing : ExecutionEnds(run)

Spec == Init /\ [][Next]_vars

-----------------------------------------------------------------------------
(* Properties.                                                             *)

\* Every variable has its type.
TypeOK ==
  /\ form \in Form
  /\ revision \in Revisions
  /\ mode \in Modes
  /\ locks \subseteq Locks
  /\ view \in [run_id : Runs \cup {None}, bound : BOOLEAN, ready : BOOLEAN,
               answer : Runs \cup {None}]
  /\ description \in Descriptions
  /\ composer \in [text : Texts \cup {None}, revision : 1 .. MaxRevision \cup {None}]
  /\ composing \in ComposerTask \cup {None} /\ writing \in PersonaTask \cup {None}
  /\ reviewing \in ReviewTask \cup {None} /\ reading \subseteq BrowserTask
  /\ approving \in 0 .. MaxHandlers /\ executing \subseteq Runs
  /\ pending \in [Runs -> Approval \cup {None}]
  /\ nextRun \in 1 .. MaxRuns + 1
  /\ recorded \in Evidence \cup {None}
  /\ raised \in BOOLEAN

\* Whatever happens between preview, approval and the call of the service,
\* the plan that is executed was reviewed and read at the revision the draft
\* has now and holds the target and the fields of the editor: no edit, late
\* answer, second click or failed cancel gets around it.  (What is to be done
\* with the target can be switched without a new revision: KeepPolicy.)
ExecutedIsTheDraft ==
  [][\A r \in executing' \ executing :
       /\ pending[r].revision = revision
       /\ pending[r].plan.target = form.target
       /\ pending[r].plan.text \in {form.text, None}]_vars

\* A late answer of the composer or of the persona writer is applied only to
\* the fields it was asked about: newer edits are preserved.
NewerEditsArePreserved ==
  [][form' # form =>
       /\ composing # None /\ composing' = None => form.text = composing.seen
       /\ writing # None /\ writing' = None => form.text = writing.seen]_vars

\* Composer evidence that says the draft was not edited is about the plan it
\* is recorded with: the plan creates a policy with the recommended fields.
UneditedIsUnedited ==
  [][nextRun' # nextRun /\ recorded' # None =>
       recorded'.edited \/ ( /\ reviewing.plan.op = "create"
                             /\ reviewing.plan.text = recorded'.text )]_vars

\* An in-progress flag is set only while a handler of its kind is under way,
\* unless an exception ended one: no early return leaves the editor locked.
FlagsHaveHandlers ==
  ~raised =>
    /\ "composer" \in locks => composing # None
    /\ "persona" \in locks => writing # None
    /\ "review" \in locks => reviewing # None
    /\ "browser" \in locks => reading # {} \/ "google" \in locks
    /\ "execution" \in locks => approving > 0 \/ executing # {}

=============================================================================
