------------------------- MODULE ReflexSessionProofs ------------------------
(***************************************************************************)
(* What the console executes, applies and records is about the draft it    *)
(* shows, for every number of edits, runs and waiting handlers.            *)
(***************************************************************************)
EXTENDS ReflexSession, FiniteSetTheorems, TLAPS

\* A plan has the target and the fields of the editor.
Fits(plan) == plan.target = form.target /\ plan.text \in {form.text, None}

\* Only a browser preview that is over has an approval, and each is for a run
\* of its own.
Fresh ==
  /\ \A r \in Runs : r >= nextRun => pending[r] = None
  /\ \A task \in reading : task.run < nextRun /\ pending[task.run] = None
  /\ \A task, other \in reading : task.run = other.run => task = other

\* The approval that the panel shows, if it is live, is for the draft.
Shown ==
  view.run_id # None /\ pending[view.run_id] # None =>
    pending[view.run_id].revision = revision /\ Fits(pending[view.run_id].plan)

\* What a handler keeps is about the draft, if it is of the draft's revision.
Current ==
  /\ composing # None =>
       /\ composing.revision <= revision
       /\ composing.revision = revision => composing.seen = form.text
  /\ writing # None =>
       /\ writing.revision <= revision
       /\ writing.revision = revision => writing.seen = form.text
  /\ reviewing # None =>
       /\ reviewing.revision <= revision
       /\ reviewing.revision = revision => Fits(reviewing.plan)
  /\ \A task \in reading :
       /\ task.revision <= revision
       /\ task.revision = revision => Fits(task.plan)

\* At the revision that the composer made, the draft and the plan under review
\* are what it recommended.
Composed ==
  composer.revision # None =>
    /\ composer.text \in Texts
    /\ composer.revision <= revision
    /\ composer.revision = revision =>
         /\ form.op = "create" /\ form.target = None /\ form.text = composer.text
         /\ reviewing # None /\ reviewing.revision = revision =>
              reviewing.plan.op = "create" /\ reviewing.plan.text = composer.text

IInv ==
  /\ TypeOK /\ IsFiniteSet(reading)
  /\ Fresh
  /\ Shown
  /\ Current
  /\ Composed
  /\ FlagsHaveHandlers

View == [run_id : Runs \cup {None}, bound : BOOLEAN, ready : BOOLEAN,
         answer : Runs \cup {None}]

-----------------------------------------------------------------------------
(* Invalidation.                                                           *)

\* Whether cancel raises or not, the approval of the panel is not live after
\* _clear_approval, and no other one becomes live.
LEMMA ClearedApproval ==
  ASSUME TypeOK, NEW ready \in BOOLEAN, NEW ok \in BOOLEAN, ClearApproval(ready, ok)
  PROVE  /\ pending' \in [Runs -> Approval \cup {None}]
         /\ \A r \in Runs : pending'[r] \in {pending[r], None}
         /\ view' \in View
         /\ view'.run_id \in {view.run_id, None}
         /\ view'.run_id # None => pending'[view'.run_id] = None
<1>1. view \in View /\ pending \in [Runs -> Approval \cup {None}]
  BY DEF TypeOK, View
<1>2. /\ pending' = IF view.run_id = None THEN pending
                    ELSE [pending EXCEPT ![view.run_id] = None]
      /\ view' = IF ok THEN [NoApproval EXCEPT !.ready = ready] ELSE view
  BY DEF ClearApproval, Cancelled
<1>3. [NoApproval EXCEPT !.ready = ready] \in View
  BY DEF NoApproval, View
<1>4. [NoApproval EXCEPT !.ready = ready].run_id = None
  BY DEF NoApproval
<1>5. view.run_id \in Runs \cup {None}
  BY <1>1 DEF View
<1>6. pending' \in [Runs -> Approval \cup {None}]
  BY <1>1, <1>2
<1>7. \A r \in Runs : pending'[r] \in {pending[r], None}
  BY <1>1, <1>2
<1>8. view'.run_id \in {view.run_id, None} /\ view' \in View
  BY <1>1, <1>2, <1>3, <1>4
<1>9. view.run_id # None => pending'[view.run_id] = None
  BY <1>1, <1>2, <1>5
<1> QED BY <1>6, <1>7, <1>8, <1>9

\* _reset_preview_evidence makes a revision that nothing is about yet.
LEMMA ResetEvidence ==
  ASSUME TypeOK, NEW ok \in BOOLEAN, ResetPreviewEvidence(ok)
  PROVE  /\ revision' = revision + 1 /\ revision' \in Revisions /\ revision \in Revisions
         /\ revision' \in 1 .. MaxRevision
         /\ pending' \in [Runs -> Approval \cup {None}]
         /\ \A r \in Runs : pending'[r] \in {pending[r], None}
         /\ view' \in View
         /\ view'.run_id # None => pending'[view'.run_id] = None
         /\ raised' \in BOOLEAN /\ (raised \/ ~ok => raised')
<1>1. /\ revision' = revision + 1 /\ revision \in Revisions
      /\ revision' \in Revisions /\ revision' \in 1 .. MaxRevision
  BY ReflexAssumption DEF ResetPreviewEvidence, TypeOK, Revisions
<1>2. ClearApproval(FALSE, ok)
  BY DEF ResetPreviewEvidence
<1>3. raised' \in BOOLEAN /\ (raised \/ ~ok => raised')
  BY DEF ResetPreviewEvidence, TypeOK
<1> QED BY <1>1, <1>2, <1>3, ClearedApproval

\* A new revision leaves behind what the handlers keep.
LEMMA NewRevision ==
  ASSUME IInv, NEW ok \in BOOLEAN, ResetPreviewEvidence(ok), UNCHANGED nextRun,
         composing' \in {composing, None}, writing' \in {writing, None},
         reviewing' \in {reviewing, None}, reading' \subseteq reading
  PROVE  /\ IsFiniteSet(reading') /\ Fresh' /\ Shown' /\ Current'
         /\ composer' \in {composer, NoComposer} => Composed'
<1>1. TypeOK /\ Fresh /\ Current /\ Composed
  BY DEF IInv
<1>2. /\ revision' = revision + 1 /\ revision \in Nat
      /\ \A r \in Runs : pending'[r] \in {pending[r], None}
      /\ view'.run_id # None => pending'[view'.run_id] = None
  BY <1>1, ResetEvidence DEF Revisions
<1>3. IsFiniteSet(reading')
  BY FS_Subset DEF IInv
<1>4. reading \subseteq BrowserTask
  BY <1>1 DEF TypeOK
<1>5. Fresh'
  BY <1>1, <1>2, <1>4 DEF Fresh, BrowserTask
<1>6. Shown'
  BY <1>2 DEF Shown
<1>7. Current'
  <2>1. composing' # None => composing'.revision <= revision /\ composing'.revision \in Nat
    BY <1>1 DEF Current, TypeOK, ComposerTask, Revisions
  <2>2. writing' # None => writing'.revision <= revision /\ writing'.revision \in Nat
    BY <1>1 DEF Current, TypeOK, PersonaTask, Revisions
  <2>3. reviewing' # None => reviewing'.revision <= revision /\ reviewing'.revision \in Nat
    BY <1>1 DEF Current, TypeOK, ReviewTask, Revisions
  <2>4. \A task \in reading' : task.revision <= revision /\ task.revision \in Nat
    BY <1>1, <1>4 DEF Current, BrowserTask, Revisions
  <2> QED BY <1>2, <2>1, <2>2, <2>3, <2>4 DEF Current
<1>8. ASSUME composer' \in {composer, NoComposer}
      PROVE  Composed'
  <2>1. CASE composer' = NoComposer
    BY <2>1 DEF NoComposer, Composed
  <2>2. CASE composer' = composer
    <3>1. composer.revision # None => /\ composer.text \in Texts
                                      /\ composer.revision \in Nat
                                      /\ composer.revision <= revision
      BY <1>1 DEF Composed, TypeOK
    <3> QED BY <1>2, <2>2, <3>1 DEF Composed
  <2> QED BY <1>8, <2>1, <2>2
<1> QED BY <1>3, <1>5, <1>6, <1>7, <1>8

\* As long as the draft stays, a handler that begins keeps what is there.
LEMMA SameDraft ==
  ASSUME IInv, UNCHANGED <<form, revision, composer, nextRun>>,
         \/ composing' \in {composing, None}
         \/ composing'.revision = revision /\ composing'.seen = form.text,
         \/ writing' \in {writing, None}
         \/ writing'.revision = revision /\ writing'.seen = form.text,
         \/ reviewing' \in {reviewing, None}
         \/ reviewing'.revision = revision /\ reviewing'.plan = BuildPlan,
         reading' \subseteq reading,
         \A r \in Runs : pending'[r] \in {pending[r], None},
         view'.run_id \in {view.run_id, None}
  PROVE  IsFiniteSet(reading') /\ Fresh' /\ Shown' /\ Current' /\ Composed'
<1>1. TypeOK /\ Fresh /\ Shown /\ Current /\ Composed
  BY DEF IInv
<1>2. revision \in Nat /\ revision <= revision
  BY <1>1 DEF TypeOK, Revisions
<1>3. IsFiniteSet(reading')
  BY FS_Subset DEF IInv
<1>4. Fresh'
  BY <1>1 DEF Fresh, TypeOK, BrowserTask
<1>5. Shown'
  <2>1. view.run_id \in Runs \cup {None}
    BY <1>1 DEF TypeOK
  <2> QED BY <1>1, <2>1 DEF Shown, Fits
<1>6. BuildPlan.target = form.target /\ BuildPlan.text \in {form.text, None}
  BY DEF BuildPlan
<1>7. Current'
  BY <1>1, <1>2, <1>6 DEF Current, Fits
<1>8. form.op = "create" => BuildPlan.op = "create" /\ BuildPlan.text = form.text
  BY DEF BuildPlan
<1>9. Composed'
  BY <1>1, <1>8 DEF Composed
<1> QED BY <1>3, <1>4, <1>5, <1>7, <1>9

-----------------------------------------------------------------------------
(* The actions.                                                            *)

LEMMA InitInv == Init => IInv
<1> SUFFICES ASSUME Init PROVE IInv
  OBVIOUS
<1>1. form \in Form /\ revision \in Revisions /\ view \in View
  BY ReflexAssumption DEF Init, EmptyForm, Form, Operations, Revisions, NoApproval, View
<1>2. /\ composer \in [text : Texts \cup {None}, revision : 1 .. MaxRevision \cup {None}]
      /\ pending \in [Runs -> Approval \cup {None}]
      /\ approving \in 0 .. MaxHandlers /\ nextRun \in 1 .. MaxRuns + 1
  BY ReflexAssumption DEF Init, NoComposer
<1>3. TypeOK
  BY <1>1, <1>2 DEF Init, TypeOK, View
<1>4. IsFiniteSet(reading)
  BY FS_EmptySet DEF Init
<1>5. Fresh /\ Shown /\ Current /\ Composed /\ FlagsHaveHandlers
  BY DEF Init, Fresh, Shown, Current, Composed, FlagsHaveHandlers, NoApproval, NoComposer
<1> QED BY <1>3, <1>4, <1>5 DEF IInv

LEMMA EditInv ==
  ASSUME IInv, NEW ok \in BOOLEAN, Edit(ok)
  PROVE  IInv'
<1>1. TypeOK
  BY DEF IInv
<1>2. /\ ResetPreviewEvidence(ok)
      /\ UNCHANGED <<locks, description, handlers, nextRun, recorded>>
      /\ composer' \in {composer, NoComposer}
  BY DEF Edit, SetField, EditExpression, SaveSettings, ChangeRunMode, StartCreate,
       SelectSection, LoadPolicy
<1>3. form' \in Form
  BY <1>1, ReflexAssumption DEF Edit, SetField, EditExpression, SaveSettings, ChangeRunMode,
       StartCreate, SelectSection, LoadPolicy, TypeOK, Form, Operations, EmptyForm, Buttons,
       LoadedTexts
<1>4. mode' \in Modes
  BY <1>1 DEF Edit, SetField, EditExpression, SaveSettings, ChangeRunMode,
       StartCreate, SelectSection, LoadPolicy, TypeOK
<1>5. composer' \in [text : Texts \cup {None}, revision : 1 .. MaxRevision \cup {None}]
  BY <1>1, <1>2 DEF TypeOK, NoComposer
<1>6. TypeOK'
  BY <1>1, <1>2, <1>3, <1>4, <1>5, ResetEvidence DEF TypeOK, View, handlers
<1>7. IsFiniteSet(reading') /\ Fresh' /\ Shown' /\ Current' /\ Composed'
  BY <1>2, NewRevision DEF handlers
<1>8. FlagsHaveHandlers'
  BY <1>1, <1>2, ResetEvidence DEF IInv, FlagsHaveHandlers, handlers
<1> QED BY <1>6, <1>7, <1>8 DEF IInv

LEMMA ApplyRecommendationInv ==
  ASSUME IInv, NEW ok \in BOOLEAN, NEW text \in RecommendedTexts, ApplyRecommendation(text, ok)
  PROVE  IInv'
<1>1. TypeOK /\ composing # None /\ ResetPreviewEvidence(ok) /\ composing' = None
  BY DEF IInv, ApplyRecommendation
<1>2. UNCHANGED <<mode, description, writing, reviewing, reading, approving, executing,
                  nextRun, recorded>>
  BY DEF ApplyRecommendation
<1>3. \/ /\ ok
         /\ form' = [op |-> "create", target |-> None, text |-> text]
         /\ composer' = [text |-> text, revision |-> revision']
         /\ locks' = locks \ {"composer"}
      \/ ~ok /\ UNCHANGED <<form, composer, locks>>
  BY DEF ApplyRecommendation
<1>4. text \in Texts
  BY DEF RecommendedTexts
<1>5. /\ form' \in Form /\ locks' \subseteq Locks
      /\ composer' \in [text : Texts \cup {None}, revision : 1 .. MaxRevision \cup {None}]
  BY <1>1, <1>3, <1>4, ResetEvidence DEF TypeOK, Form, Operations
<1>6. TypeOK'
  BY <1>1, <1>2, <1>5, ResetEvidence DEF TypeOK, View
<1>7. /\ IsFiniteSet(reading') /\ Fresh' /\ Shown' /\ Current'
      /\ composer' = composer => Composed'
  BY <1>1, <1>2, NewRevision
<1>8. Composed'
  <2>1. CASE ok
    <3>1. reviewing' # None => reviewing'.revision # revision'
      <4>1. revision' = revision + 1 /\ revision \in Nat
        BY <1>1, ResetEvidence DEF Revisions
      <4>2. reviewing # None => reviewing.revision <= revision /\ reviewing.revision \in Nat
        BY <1>1 DEF IInv, Current, TypeOK, ReviewTask, Revisions
      <4> QED BY <1>2, <4>1, <4>2
    <3>2. /\ form'.op = "create" /\ form'.target = None /\ form'.text = text
          /\ composer'.text = text /\ composer'.revision = revision'
      BY <1>1, <1>3, <2>1 DEF TypeOK, Form
    <3>3. revision' <= revision'
      BY <1>1, ResetEvidence DEF Revisions
    <3> QED BY <1>4, <3>1, <3>2, <3>3 DEF Composed
  <2>2. CASE ~ok
    BY <1>3, <1>7, <2>2
  <2> QED BY <2>1, <2>2
<1>9. FlagsHaveHandlers'
  BY <1>1, <1>2, <1>3, ResetEvidence DEF IInv, FlagsHaveHandlers
<1> QED BY <1>6, <1>7, <1>8, <1>9 DEF IInv

LEMMA ApplyGeneratedNoticeInv ==
  ASSUME IInv, NEW ok \in BOOLEAN, NEW text \in Texts, ApplyGeneratedNotice(text, ok)
  PROVE  IInv'
<1>1. TypeOK /\ ResetPreviewEvidence(ok) /\ writing' = None
  BY DEF IInv, ApplyGeneratedNotice
<1>2. UNCHANGED <<mode, description, composer, composing, reviewing, reading, approving,
                  executing, nextRun, recorded>>
  BY DEF ApplyGeneratedNotice
<1>3. \/ ok /\ form' = [form EXCEPT !.text = text] /\ locks' = locks \ {"persona"}
      \/ ~ok /\ UNCHANGED <<form, locks>>
  BY DEF ApplyGeneratedNotice
<1>4. form' \in Form /\ locks' \subseteq Locks
  BY <1>1, <1>3 DEF TypeOK, Form
<1>5. TypeOK'
  BY <1>1, <1>2, <1>4, ResetEvidence DEF TypeOK, View
<1>6. IsFiniteSet(reading') /\ Fresh' /\ Shown' /\ Current' /\ Composed'
  BY <1>1, <1>2, NewRevision
<1>7. FlagsHaveHandlers'
  BY <1>1, <1>2, <1>3, ResetEvidence DEF IInv, FlagsHaveHandlers
<1> QED BY <1>5, <1>6, <1>7 DEF IInv

\* The specialists failed, or what they say is discarded.
LEMMA ReviewEndsInv ==
  ASSUME IInv, NEW ok \in BOOLEAN, ReviewFails(ok) \/ ReviewDiscarded(ok)
  PROVE  IInv'
<1>1. TypeOK /\ ResetPreviewEvidence(ok) /\ reviewing' = None
  BY DEF IInv, ReviewFails, ReviewDiscarded
<1>2. UNCHANGED <<form, mode, description, composer, composing, writing, reading, approving,
                  executing, nextRun, recorded>>
  BY DEF ReviewFails, ReviewDiscarded
<1>3. locks' = locks \ {"review"} \/ (~ok /\ locks' = locks)
  BY DEF ReviewFails, ReviewDiscarded
<1>4. TypeOK'
  BY <1>1, <1>2, <1>3, ResetEvidence DEF TypeOK, View
<1>5. IsFiniteSet(reading') /\ Fresh' /\ Shown' /\ Current' /\ Composed'
  BY <1>1, <1>2, NewRevision
<1>6. FlagsHaveHandlers'
  BY <1>1, <1>2, <1>3, ResetEvidence DEF IInv, FlagsHaveHandlers
<1> QED BY <1>4, <1>5, <1>6 DEF IInv

LEMMA ReadDiscardedInv ==
  ASSUME IInv, NEW ok \in BOOLEAN, NEW closed \in BOOLEAN, NEW task \in reading,
         ReadDiscarded(task, closed, ok)
  PROVE  IInv'
<1>1. /\ TypeOK /\ reading' = reading \ {task}
      /\ UNCHANGED <<form, mode, description, composer, composing, writing, reviewing,
                     approving, executing, nextRun, recorded>>
  BY DEF IInv, ReadDiscarded
<1>2. CASE closed
  <2>1. ResetPreviewEvidence(ok) /\ locks' = locks \ {"browser"}
    BY <1>2 DEF ReadDiscarded
  <2>2. TypeOK'
    BY <1>1, <2>1, ResetEvidence DEF TypeOK, View
  <2>3. IsFiniteSet(reading') /\ Fresh' /\ Shown' /\ Current' /\ Composed'
    BY <1>1, <2>1, NewRevision
  <2>4. FlagsHaveHandlers'
    BY <1>1, <2>1, ResetEvidence DEF IInv, FlagsHaveHandlers
  <2> QED BY <2>2, <2>3, <2>4 DEF IInv
<1>3. CASE ~closed
  <2>1. raised' /\ raised' \in BOOLEAN /\ UNCHANGED <<revision, view, pending, locks>>
    BY <1>3 DEF ReadDiscarded
  <2>2. TypeOK'
    BY <1>1, <2>1 DEF TypeOK
  <2>3. IsFiniteSet(reading') /\ Fresh' /\ Shown' /\ Current' /\ Composed'
    BY <1>1, <2>1, SameDraft
  <2>4. FlagsHaveHandlers'
    BY <2>1 DEF FlagsHaveHandlers
  <2> QED BY <2>2, <2>3, <2>4 DEF IInv
<1> QED BY <1>2, <1>3

LEMMA PreviewInv ==
  ASSUME IInv, NEW ok \in BOOLEAN, Preview(ok)
  PROVE  IInv'
<1>1. /\ TypeOK /\ ClearApproval(TRUE, ok)
      /\ UNCHANGED <<form, revision, mode, description, composer, composing, writing,
                     reading, approving, executing, nextRun, recorded>>
  BY DEF IInv, Preview
<1>2. /\ raised' \in BOOLEAN /\ (raised \/ ~ok => raised')
      /\ \/ /\ reviewing' = [revision |-> revision, plan |-> BuildPlan]
            /\ locks' = locks \cup {"review"}
         \/ ~ok /\ UNCHANGED <<reviewing, locks>>
  BY <1>1 DEF Preview, TypeOK
<1>3. BuildPlan \in TaskPlan
  BY <1>1 DEF BuildPlan, TaskPlan, TypeOK, Form
<1>4. [revision |-> revision, plan |-> BuildPlan] \in ReviewTask
  BY <1>1, <1>3 DEF TypeOK, ReviewTask
<1>5. TypeOK'
  <2>1. reviewing' \in ReviewTask \cup {None} /\ locks' \subseteq Locks
    BY <1>1, <1>2, <1>4 DEF TypeOK, Locks
  <2> QED BY <1>1, <1>2, <2>1, ClearedApproval DEF TypeOK, View
<1>6. IsFiniteSet(reading') /\ Fresh' /\ Shown' /\ Current' /\ Composed'
  <2>1. \/ reviewing' \in {reviewing, None}
        \/ reviewing'.revision = revision /\ reviewing'.plan = BuildPlan
    BY <1>2
  <2> QED BY <1>1, <2>1, ClearedApproval, SameDraft
<1>7. FlagsHaveHandlers'
  <2>1. CASE reviewing' = [revision |-> revision, plan |-> BuildPlan]
    <3>1. reviewing' # None /\ locks' \subseteq locks \cup {"review"} /\ locks \subseteq locks'
      BY <1>2, <1>4, <2>1, ReflexAssumption
    <3> QED BY <1>1, <1>2, <3>1 DEF IInv, FlagsHaveHandlers
  <2>2. CASE ~ok
    BY <1>2, <2>2 DEF FlagsHaveHandlers
  <2> QED BY <1>2, <2>1, <2>2
<1> QED BY <1>5, <1>6, <1>7 DEF IInv

LEMMA ComposePolicyInv ==
  ASSUME IInv, ComposePolicy
  PROVE  IInv'
<1> DEFINE new == [revision |-> revision, description |-> description, seen |-> form.text]
<1>1. /\ TypeOK /\ composing' = new /\ locks' = locks \cup {"composer"}
      /\ UNCHANGED <<form, revision, mode, view, description, composer, writing, reviewing,
                     reading, approving, executing, pending, nextRun, recorded, raised>>
  BY DEF IInv, ComposePolicy
<1>2. new \in ComposerTask /\ new # None
  BY <1>1, ReflexAssumption DEF TypeOK, Form, ComposerTask
<1>3. TypeOK'
  BY <1>1, <1>2 DEF TypeOK, Locks
<1>4. IsFiniteSet(reading') /\ Fresh' /\ Shown' /\ Current' /\ Composed'
  <2>1. composing'.revision = revision /\ composing'.seen = form.text
    BY <1>1
  <2> QED BY <1>1, <2>1, SameDraft
<1>5. FlagsHaveHandlers'
  BY <1>1, <1>2 DEF IInv, FlagsHaveHandlers
<1> QED BY <1>3, <1>4, <1>5 DEF IInv

LEMMA GeneratePersonaInv ==
  ASSUME IInv, GeneratePersona
  PROVE  IInv'
<1> DEFINE new == [revision |-> revision, seen |-> form.text]
<1>1. /\ TypeOK /\ writing' = new /\ locks' = locks \cup {"persona"}
      /\ UNCHANGED <<form, revision, mode, view, description, composer, composing, reviewing,
                     reading, approving, executing, pending, nextRun, recorded, raised>>
  BY DEF IInv, GeneratePersona
<1>2. new \in PersonaTask /\ new # None
  BY <1>1, ReflexAssumption DEF TypeOK, Form, PersonaTask
<1>3. TypeOK'
  BY <1>1, <1>2 DEF TypeOK, Locks
<1>4. IsFiniteSet(reading') /\ Fresh' /\ Shown' /\ Current' /\ Composed'
  <2>1. writing'.revision = revision /\ writing'.seen = form.text
    BY <1>1
  <2> QED BY <1>1, <2>1, SameDraft
<1>5. FlagsHaveHandlers'
  BY <1>1, <1>2 DEF IInv, FlagsHaveHandlers
<1> QED BY <1>3, <1>4, <1>5 DEF IInv

\* A switch of what is done with the target keeps target and fields.  It cannot
\* touch a draft of the composer, which has no target.
LEMMA KeepPolicyInv ==
  ASSUME IInv, NEW p \in Policies, NEW op \in Buttons, NEW available \in BOOLEAN,
         KeepPolicy(p, op, available)
  PROVE  IInv'
<1>1. /\ TypeOK /\ Composed
      /\ UNCHANGED <<revision, mode, locks, view, description, handlers, pending, nextRun,
                     recorded, raised>>
      /\ composer' \in {composer, NoComposer}
  BY DEF IInv, KeepPolicy
<1>2. /\ form' \in Form /\ form'.target = form.target /\ form'.text = form.text
      /\ form' = form \/ form.target = p
  BY <1>1 DEF KeepPolicy, TypeOK, Form, Operations, Buttons
<1>3. TypeOK'
  BY <1>1, <1>2 DEF TypeOK, NoComposer, handlers
<1>4. Fresh' /\ Shown' /\ Current' /\ IsFiniteSet(reading')
  BY <1>1, <1>2 DEF IInv, Fresh, Shown, Current, Fits, handlers
<1>5. Composed'
  <2>1. CASE composer' = NoComposer
    BY <2>1 DEF NoComposer, Composed
  <2>2. CASE composer' = composer
    <3>1. composer.revision = revision /\ composer.revision # None => form' = form
      BY <1>1, <1>2, ReflexAssumption DEF Composed
    <3> QED BY <1>1, <2>2, <3>1 DEF Composed, handlers
  <2> QED BY <1>1, <2>1, <2>2
<1>6. FlagsHaveHandlers'
  BY <1>1 DEF IInv, FlagsHaveHandlers, handlers
<1> QED BY <1>3, <1>4, <1>5, <1>6 DEF IInv

LEMMA ReviewAcceptedInv ==
  ASSUME IInv, ReviewAccepted
  PROVE  IInv'
<1> DEFINE new == [run |-> nextRun, plan |-> reviewing.plan,
                   revision |-> reviewing.revision, mode |-> mode]
<1>1. TypeOK /\ Fresh /\ Shown /\ Current /\ Composed
  BY DEF IInv
<1>2. /\ reviewing # None /\ reviewing \in ReviewTask /\ reviewing.revision = revision
      /\ nextRun \in Runs /\ nextRun' = nextRun + 1 /\ reviewing' = None
      /\ recorded' = ComposerAuditEvidence
      /\ UNCHANGED <<form, revision, mode, description, composer, composing, writing,
                     approving, executing, pending, raised>>
  BY <1>1 DEF ReviewAccepted, ReviewIsCurrent, TypeOK
<1>3. \/ /\ view' = [view EXCEPT !.run_id = nextRun]
         /\ locks' = locks \ {"review"} /\ reading' = reading
      \/ /\ mode # "plan_only" /\ reading' = reading \cup {new}
         /\ locks' = (locks \ {"review"}) \cup {"browser"} /\ view' = view
  BY DEF ReviewAccepted, OpensBrowser
<1>4. mode # "plan_only" => new \in BrowserTask
  BY <1>1, <1>2 DEF TypeOK, ReviewTask, BrowserTask
<1>5. new.run = nextRun /\ new.revision = revision /\ new.plan = reviewing.plan
  BY <1>2
<1>6. recorded' \in Evidence \cup {None}
  <2>1. composer.revision # None => composer.text \in Texts
    BY <1>1 DEF Composed
  <2> QED BY <1>2, <2>1 DEF ComposerAuditEvidence, Evidence
<1>7. TypeOK'
  <2>1. view' \in View
    BY <1>1, <1>2, <1>3 DEF TypeOK, View
  <2>2. reading' \subseteq BrowserTask /\ locks' \subseteq Locks
    BY <1>1, <1>3, <1>4 DEF TypeOK, Locks
  <2>3. nextRun' \in 1 .. MaxRuns + 1
    BY <1>2, ReflexAssumption DEF Runs
  <2> QED BY <1>1, <1>2, <1>6, <2>1, <2>2, <2>3 DEF TypeOK, View
<1>8. IsFiniteSet(reading')
  BY <1>3, FS_AddElement DEF IInv
<1>9. Fresh'
  <2>1. nextRun \in Nat /\ \A task \in reading : task.run \in Nat
    BY <1>1, <1>2 DEF TypeOK, BrowserTask, Runs
  <2>2. \A r \in Runs : r >= nextRun' => r >= nextRun
    BY <1>2, <2>1 DEF Runs
  <2>3. \A task \in reading : task.run < nextRun /\ task.run < nextRun'
    BY <1>1, <1>2, <2>1 DEF Fresh
  <2>4. nextRun < nextRun' /\ pending[nextRun] = None
    BY <1>1, <1>2, <2>1 DEF Fresh
  <2>5. \A task \in reading' : \/ task \in reading
                               \/ task.run = nextRun /\ task = new
    BY <1>3, <1>5
  <2>6. \A task, other \in reading' : task.run = other.run => task = other
    BY <1>1, <1>2, <2>1, <2>3, <2>5 DEF Fresh
  <2> QED BY <1>1, <1>2, <2>2, <2>3, <2>4, <2>5, <2>6 DEF Fresh
<1>10. Shown'
  <2>1. pending[nextRun] = None
    BY <1>1, <1>2 DEF Fresh, Runs
  <2>2. view'.run_id = nextRun \/ view' = view
    BY <1>1, <1>3 DEF TypeOK
  <2> QED BY <1>1, <1>2, <2>1, <2>2 DEF Shown, Fits
<1>11. Current'
  <2>1. \A task \in reading' : \/ task \in reading
                               \/ task.revision = revision /\ task.plan = reviewing.plan
    BY <1>3, <1>5
  <2>2. revision <= revision /\ Fits(reviewing.plan)
    BY <1>1, <1>2 DEF TypeOK, Revisions, Current
  <2> QED BY <1>1, <1>2, <2>1, <2>2 DEF Current, Fits
<1>12. Composed'
  BY <1>1, <1>2 DEF Composed
<1>13. FlagsHaveHandlers'
  <2>1. FlagsHaveHandlers
    BY DEF IInv
  <2>2. reading \subseteq reading' /\ ("browser" \in locks' => "browser" \in locks \/ reading' # {})
    BY <1>3
  <2>3. locks' \subseteq (locks \ {"review"}) \cup {"browser"}
    BY <1>3
  <2>4. "google" \in locks => "google" \in locks'
    BY <1>3
  <2> QED BY <1>2, <2>1, <2>2, <2>3, <2>4 DEF FlagsHaveHandlers
<1> QED BY <1>7, <1>8, <1>9, <1>10, <1>11, <1>12, <1>13 DEF IInv

LEMMA BindAttendedPreviewInv ==
  ASSUME IInv, NEW task \in reading, NEW has_mutations \in BOOLEAN,
         BindAttendedPreview(task, has_mutations)
  PROVE  IInv'
<1> DEFINE new == [plan |-> task.plan, revision |-> task.revision]
<1>1. TypeOK /\ Fresh /\ Shown /\ Current /\ Composed
  BY DEF IInv
<1>2. /\ task.revision = revision /\ task \in BrowserTask /\ task.run \in Runs
      /\ reading' = reading \ {task} /\ locks' = locks \ {"browser"}
      /\ UNCHANGED <<form, revision, mode, description, composer, composing, writing,
                     reviewing, approving, executing, nextRun, recorded, raised>>
  BY <1>1 DEF BindAttendedPreview, ReviewIsCurrent, TypeOK, BrowserTask
<1>3. view' \in View /\ view'.run_id = task.run
  BY <1>2 DEF BindAttendedPreview, View
<1>4. pending' = pending \/ pending' = [pending EXCEPT ![task.run] = new]
  BY DEF BindAttendedPreview
<1>5. new \in Approval /\ new.revision = revision /\ new.plan = task.plan
  BY <1>2 DEF BrowserTask, Approval
<1>6. pending' \in [Runs -> Approval \cup {None}]
  BY <1>1, <1>2, <1>4, <1>5 DEF TypeOK
<1>7. /\ \A r \in Runs \ {task.run} : pending'[r] = pending[r]
      /\ pending'[task.run] \in {pending[task.run], new}
  BY <1>1, <1>2, <1>4 DEF TypeOK
<1>8. pending[task.run] = None /\ task.run < nextRun
  BY <1>1 DEF Fresh
<1>9. TypeOK'
  BY <1>1, <1>2, <1>3, <1>6 DEF TypeOK, View
<1>10. IsFiniteSet(reading')
  BY <1>2, FS_RemoveElement DEF IInv
<1>11. Fresh'
  <2>1. \A other \in reading' : other \in reading /\ other.run # task.run /\ other.run \in Runs
    BY <1>1, <1>2 DEF Fresh, TypeOK, BrowserTask
  <2>2. \A r \in Runs : r >= nextRun => r # task.run
    BY <1>1, <1>2, <1>8 DEF TypeOK, Runs
  <2> QED BY <1>1, <1>2, <1>7, <2>1, <2>2 DEF Fresh
<1>12. Shown'
  <2>1. Fits(task.plan)
    BY <1>1, <1>2 DEF Current
  <2> QED BY <1>2, <1>3, <1>5, <1>7, <1>8, <2>1 DEF Shown, Fits
<1>13. Current' /\ Composed'
  BY <1>1, <1>2 DEF Current, Composed, Fits
<1>14. FlagsHaveHandlers'
  BY <1>2 DEF IInv, FlagsHaveHandlers
<1> QED BY <1>9, <1>10, <1>11, <1>12, <1>13, <1>14 DEF IInv

\* The handlers that wait are counted, the ones in approve_plan among them.
LEMMA WaitingCounts ==
  ASSUME IInv
  PROVE  Waiting \in Nat /\ approving <= Waiting
<1> DEFINE asking == {h \in {composing, writing, reviewing} : h # None}
           assessing == locks \cap {"google"}
<1>1. IsFiniteSet({composing, writing, reviewing})
  <2>1. IsFiniteSet({composing} \cup {writing})
    BY FS_Singleton, FS_AddElement
  <2>2. IsFiniteSet(({composing} \cup {writing}) \cup {reviewing})
    BY <2>1, FS_AddElement
  <2>3. ({composing} \cup {writing}) \cup {reviewing} = {composing, writing, reviewing}
    OBVIOUS
  <2> QED BY <2>2, <2>3
<1>2. Cardinality(asking) \in Nat
  BY <1>1, FS_Subset, FS_CardinalityType
<1>3. Cardinality(reading) \in Nat
  BY FS_CardinalityType DEF IInv
<1>4. Cardinality(executing) \in Nat
  <2>1. IsFiniteSet(Runs)
    BY FS_Interval, ReflexAssumption DEF Runs
  <2> QED BY <2>1, FS_Subset, FS_CardinalityType DEF IInv, TypeOK
<1>5. Cardinality(assessing) \in Nat
  <2>1. assessing \subseteq {"google"} /\ IsFiniteSet({"google"})
    BY FS_Singleton
  <2> QED BY <2>1, FS_Subset, FS_CardinalityType
<1>6. approving \in Nat
  BY ReflexAssumption DEF IInv, TypeOK
<1>7. Waiting = Cardinality(asking) + Cardinality(reading) + approving
                  + Cardinality(executing) + Cardinality(assessing)
  BY DEF Waiting
<1> HIDE DEF asking, assessing
<1> QED BY <1>2, <1>3, <1>4, <1>5, <1>6, <1>7

\* Handlers that change only the page, the mode or a flag.
LEMMA PageInv ==
  ASSUME IInv,
         \/ \E m \in Modes : LoadRuntimeSettings(m)
         \/ \E d \in Descriptions : SetDescription(d)
         \/ PreviewRefused \/ AssessGoogleState \/ AssessmentEnds
         \/ \E phrase \in (1 .. nextRun - 1) \cup {None} : Acknowledge(phrase)
  PROVE  IInv'
<1>1. /\ TypeOK
      /\ UNCHANGED <<form, revision, composer, handlers, pending, nextRun, recorded, raised>>
  BY DEF IInv, LoadRuntimeSettings, SetDescription, PreviewRefused, AssessGoogleState,
       AssessmentEnds, Acknowledge
<1>2. view' \in View /\ view'.run_id = view.run_id
  <2>1. ASSUME NEW phrase \in (1 .. nextRun - 1) \cup {None}
        PROVE  phrase \in Runs \cup {None}
    BY <1>1, ReflexAssumption DEF TypeOK, Runs
  <2> QED BY <1>1, <2>1 DEF LoadRuntimeSettings, SetDescription, PreviewRefused,
            AssessGoogleState, AssessmentEnds, Acknowledge, TypeOK, View
<1>3. mode' \in Modes /\ description' \in Descriptions
  BY <1>1 DEF LoadRuntimeSettings, SetDescription, PreviewRefused, AssessGoogleState,
       AssessmentEnds, Acknowledge, TypeOK
<1>4. \/ locks' = locks \/ locks' = locks \cup {"google", "browser"}
      \/ locks' = locks \ {"google", "browser"}
  BY DEF LoadRuntimeSettings, SetDescription, PreviewRefused, AssessGoogleState,
       AssessmentEnds, Acknowledge
<1>5. TypeOK'
  <2>1. locks' \subseteq Locks
    BY <1>1, <1>4 DEF TypeOK, Locks
  <2> QED BY <1>1, <1>2, <1>3, <2>1 DEF TypeOK, View, handlers
<1>6. IsFiniteSet(reading') /\ Fresh' /\ Shown' /\ Current' /\ Composed'
  BY <1>1, <1>2, SameDraft DEF handlers
<1>7. FlagsHaveHandlers'
  BY <1>1, <1>4 DEF IInv, FlagsHaveHandlers, handlers
<1> QED BY <1>5, <1>6, <1>7 DEF IInv

\* Handlers that end and leave the draft and the panel as they are.
LEMMA EndsInv ==
  ASSUME IInv,
         \/ ComposerKeepsDraft \/ AssumptionRejected \/ PersonaKeepsDraft
         \/ ReviewNotRecorded \/ \E task \in reading : ReadFails(task)
  PROVE  IInv'
<1>1. /\ TypeOK /\ FlagsHaveHandlers
      /\ UNCHANGED <<form, revision, mode, view, description, composer, approving, executing,
                     pending, nextRun, recorded>>
  BY DEF IInv, ComposerKeepsDraft, AssumptionRejected, PersonaKeepsDraft, ReviewNotRecorded,
       ReadFails
<1>2. /\ composing' \in {composing, None} /\ writing' \in {writing, None}
      /\ reviewing' \in {reviewing, None} /\ reading' \subseteq reading
      /\ locks' \subseteq locks /\ raised' \in {raised, TRUE}
  BY DEF ComposerKeepsDraft, AssumptionRejected, PersonaKeepsDraft, ReviewNotRecorded,
       ReadFails
<1>3. TypeOK'
  <2>1. composing' \in ComposerTask \cup {None} /\ writing' \in PersonaTask \cup {None}
    BY <1>1, <1>2 DEF TypeOK
  <2>2. reviewing' \in ReviewTask \cup {None} /\ reading' \subseteq BrowserTask
    BY <1>1, <1>2 DEF TypeOK
  <2>3. locks' \subseteq Locks /\ raised' \in BOOLEAN
    BY <1>1, <1>2 DEF TypeOK
  <2> QED BY <1>1, <2>1, <2>2, <2>3 DEF TypeOK
<1>4. IsFiniteSet(reading') /\ Fresh' /\ Shown' /\ Current' /\ Composed'
  BY <1>1, <1>2, SameDraft
<1>5. FlagsHaveHandlers'
  BY <1>1 DEF FlagsHaveHandlers, ComposerKeepsDraft, AssumptionRejected, PersonaKeepsDraft,
       ReviewNotRecorded, ReadFails
<1> QED BY <1>3, <1>4, <1>5 DEF IInv

LEMMA ApprovalInv ==
  ASSUME IInv, ApprovePlan \/ Execute \/ \E run \in executing : ExecutionEnds(run)
  PROVE  IInv'
<1>1. /\ TypeOK /\ FlagsHaveHandlers
      /\ UNCHANGED <<form, revision, mode, description, composer, composing, writing,
                     reviewing, reading, nextRun, recorded, raised>>
  BY DEF IInv, ApprovePlan, Execute, ExecutionEnds
<1>2. approving' \in 0 .. MaxHandlers
  <2>1. Waiting \in Nat /\ approving <= Waiting /\ approving \in 0 .. MaxHandlers
    BY <1>1, WaitingCounts DEF TypeOK
  <2> QED BY <2>1, ReflexAssumption DEF ApprovePlan, Execute, ExecutionEnds
<1>3. executing' \subseteq Runs /\ locks' \subseteq Locks
  BY <1>1 DEF ApprovePlan, Execute, Accepted, ExecutionEnds, TypeOK, Locks
<1>4. /\ pending' \in [Runs -> Approval \cup {None}]
      /\ \A r \in Runs : pending'[r] \in {pending[r], None}
  BY <1>1 DEF ApprovePlan, Execute, Accepted, ExecutionEnds, TypeOK
<1>5. view' \in View /\ view'.run_id = view.run_id
  BY <1>1 DEF ApprovePlan, Execute, ExecutionEnds, TypeOK, View
<1>6. TypeOK'
  BY <1>1, <1>2, <1>3, <1>4, <1>5 DEF TypeOK, View
<1>7. IsFiniteSet(reading') /\ Fresh' /\ Shown' /\ Current' /\ Composed'
  BY <1>1, <1>4, <1>5, SameDraft
<1>8. FlagsHaveHandlers'
  <2>1. CASE ApprovePlan
    <3>1. approving' > 0
      BY <1>1, <2>1, ReflexAssumption DEF ApprovePlan, TypeOK
    <3> QED BY <1>1, <2>1, <3>1 DEF FlagsHaveHandlers, ApprovePlan
  <2>2. CASE Execute
    <3>1. executing' # {} /\ locks' = locks
      BY <2>2 DEF Execute
    <3> QED BY <1>1, <3>1 DEF FlagsHaveHandlers
  <2>3. CASE \E run \in executing : ExecutionEnds(run)
    BY <1>1, <2>3 DEF FlagsHaveHandlers, ExecutionEnds
  <2> QED BY <2>1, <2>2, <2>3
<1> QED BY <1>6, <1>7, <1>8 DEF IInv

LEMMA ExecutionStopsInv ==
  ASSUME IInv, NEW ok \in BOOLEAN,
         ExecuteRefused(ok) \/ \E run \in executing : ExecutionBlocked(run, ok)
  PROVE  IInv'
<1>1. /\ TypeOK /\ FlagsHaveHandlers /\ ClearApproval(FALSE, ok)
      /\ locks' = locks \ {"execution"}
      /\ UNCHANGED <<form, revision, mode, description, composer, composing, writing,
                     reviewing, reading, nextRun, recorded>>
  BY DEF IInv, ExecuteRefused, ExecutionBlocked
<1>2. raised' \in BOOLEAN /\ (raised => raised')
  BY <1>1 DEF ExecuteRefused, ExecutionBlocked, TypeOK
<1>3. approving' \in 0 .. MaxHandlers /\ executing' \subseteq Runs
  <2>1. approving \in 0 .. MaxHandlers /\ executing \subseteq Runs
    BY <1>1 DEF TypeOK
  <2>2. CASE ExecuteRefused(ok)
    <3>1. approving > 0 /\ approving' = approving - 1 /\ executing' = executing
      BY <2>2 DEF ExecuteRefused
    <3> QED BY <2>1, <3>1, ReflexAssumption
  <2>3. CASE \E run \in executing : ExecutionBlocked(run, ok)
    <3>1. approving' = approving /\ executing' \subseteq executing
      BY <2>3 DEF ExecutionBlocked
    <3> QED BY <2>1, <3>1
  <2> QED BY <2>2, <2>3
<1>4. TypeOK'
  BY <1>1, <1>2, <1>3, ClearedApproval DEF TypeOK, View
<1>5. IsFiniteSet(reading') /\ Fresh' /\ Shown' /\ Current' /\ Composed'
  BY <1>1, ClearedApproval, SameDraft
<1>6. FlagsHaveHandlers'
  BY <1>1, <1>2 DEF FlagsHaveHandlers
<1> QED BY <1>4, <1>5, <1>6 DEF IInv

LEMMA NextInv == IInv /\ [Next]_vars => IInv'
<1> SUFFICES ASSUME IInv, [Next]_vars PROVE IInv'
  OBVIOUS
<1>1. ASSUME NEW ok \in BOOLEAN, Edit(ok) PROVE IInv'
  BY <1>1, EditInv
<1>2. ASSUME NEW ok \in BOOLEAN, NEW t \in RecommendedTexts, ApplyRecommendation(t, ok)
      PROVE  IInv'
  BY <1>2, ApplyRecommendationInv
<1>3. ASSUME NEW ok \in BOOLEAN, NEW t \in Texts, ApplyGeneratedNotice(t, ok)
      PROVE  IInv'
  BY <1>3, ApplyGeneratedNoticeInv
<1>4. ASSUME NEW ok \in BOOLEAN, Preview(ok) PROVE IInv'
  BY <1>4, PreviewInv
<1>5. ASSUME NEW ok \in BOOLEAN, ReviewFails(ok) \/ ReviewDiscarded(ok) PROVE IInv'
  BY <1>5, ReviewEndsInv
<1>6. ASSUME NEW ok \in BOOLEAN, NEW task \in reading, NEW closed \in BOOLEAN,
             ReadDiscarded(task, closed, ok)
      PROVE  IInv'
  BY <1>6, ReadDiscardedInv
<1>7. ASSUME NEW ok \in BOOLEAN,
             ExecuteRefused(ok) \/ \E run \in executing : ExecutionBlocked(run, ok)
      PROVE  IInv'
  BY <1>7, ExecutionStopsInv
<1>8. ASSUME NEW p \in Policies, NEW op \in Buttons, NEW available \in BOOLEAN,
             KeepPolicy(p, op, available)
      PROVE  IInv'
  BY <1>8, KeepPolicyInv
<1>9. CASE ComposePolicy
  BY <1>9, ComposePolicyInv
<1>10. CASE GeneratePersona
  BY <1>10, GeneratePersonaInv
<1>11. CASE ReviewAccepted
  BY <1>11, ReviewAcceptedInv
<1>12. ASSUME NEW task \in reading, NEW m \in BOOLEAN, BindAttendedPreview(task, m)
       PROVE  IInv'
  BY <1>12, BindAttendedPreviewInv
<1>13. CASE \/ \E m \in Modes : LoadRuntimeSettings(m)
            \/ \E d \in Descriptions : SetDescription(d)
            \/ PreviewRefused \/ AssessGoogleState \/ AssessmentEnds
            \/ \E phrase \in (1 .. nextRun - 1) \cup {None} : Acknowledge(phrase)
  BY <1>13, PageInv
<1>14. CASE \/ ComposerKeepsDraft \/ AssumptionRejected \/ PersonaKeepsDraft
            \/ ReviewNotRecorded \/ \E task \in reading : ReadFails(task)
  BY <1>14, EndsInv
<1>15. CASE ApprovePlan \/ Execute \/ \E run \in executing : ExecutionEnds(run)
  BY <1>15, ApprovalInv
<1>16. CASE UNCHANGED vars
  BY <1>16 DEF vars, handlers, IInv, TypeOK, Fresh, Shown, Current, Composed, Fits,
               FlagsHaveHandlers
<1> QED BY <1>1, <1>2, <1>3, <1>4, <1>5, <1>6, <1>7, <1>8, <1>9, <1>10, <1>11, <1>12,
           <1>13, <1>14, <1>15, <1>16 DEF Next

-----------------------------------------------------------------------------
(* The theorems.                                                           *)

\* The strengthened invariant: what the panel, the waiting handlers and the
\* composer's evidence are about is the draft of their revision.
THEOREM InvariantHolds == Spec => []IInv
BY InitInv, NextInv, PTL DEF Spec

\* The session's fields, the locals of the handlers that gave way and the
\* service's approvals keep their types.
THEOREM TypeCorrect == Spec => []TypeOK
<1>1. IInv => TypeOK
  BY DEF IInv
<1> QED BY <1>1, InvariantHolds, PTL

\* No handler that returns leaves its in-progress flag set (state.py): unless
\* one ended with an exception, a locked editor is one that a handler unlocks.
THEOREM LocksAreReleased == Spec => []FlagsHaveHandlers
<1>1. IInv => FlagsHaveHandlers
  BY DEF IInv
<1> QED BY <1>1, InvariantHolds, PTL

\* approve_plan calls the service with what the panel holds after its yield:
\* what is executed is the draft of now, whatever happened in between.
THEOREM ApprovedIsTheDraft == Spec => ExecutedIsTheDraft
<1> DEFINE A == \A r \in executing' \ executing :
                  /\ pending[r].revision = revision
                  /\ pending[r].plan.target = form.target
                  /\ pending[r].plan.text \in {form.text, None}
<1>1. IInv /\ [Next]_vars => [A]_vars
  <2> SUFFICES ASSUME IInv, Next, NEW r \in executing', r \notin executing
               PROVE  /\ pending[r].revision = revision
                      /\ pending[r].plan.target = form.target
                      /\ pending[r].plan.text \in {form.text, None}
    OBVIOUS
  <2>1. Execute
    BY DEF Next, Edit, SetField, EditExpression, SaveSettings, ChangeRunMode, StartCreate,
           SelectSection, LoadPolicy, ApplyRecommendation, ApplyGeneratedNotice, Preview,
           ReviewFails, ReviewDiscarded, ReadDiscarded, ExecuteRefused, ExecutionBlocked,
           LoadRuntimeSettings, KeepPolicy, SetDescription, ComposePolicy,
           ComposerKeepsDraft, AssumptionRejected, GeneratePersona, PersonaKeepsDraft,
           PreviewRefused, ReviewAccepted, ReviewNotRecorded, ReadFails,
           BindAttendedPreview, AssessGoogleState, AssessmentEnds, Acknowledge,
           ApprovePlan, ExecutionEnds, handlers
  <2>2. r = view.run_id /\ view.run_id # None /\ pending[view.run_id] # None
    BY <2>1 DEF Execute, Accepted
  <2> QED BY <2>2 DEF IInv, Shown, Fits
<1> QED BY <1>1, InvariantHolds, PTL DEF Spec, ExecutedIsTheDraft

\* The checks on draft_revision in compose_policy and generate_persona are
\* enough: a late answer never overwrites fields it was not asked about.
THEOREM LateAnswersKeepEdits == Spec => NewerEditsArePreserved
<1> DEFINE A == form' # form =>
                  /\ composing # None /\ composing' = None => form.text = composing.seen
                  /\ writing # None /\ writing' = None => form.text = writing.seen
<1>1. IInv /\ [Next]_vars => [A]_vars
  <2> SUFFICES ASSUME IInv, Next, form' # form
               PROVE  /\ composing # None /\ composing' = None => form.text = composing.seen
                      /\ writing # None /\ writing' = None => form.text = writing.seen
    OBVIOUS
  <2>1. \/ \E ok \in BOOLEAN, t \in RecommendedTexts : ApplyRecommendation(t, ok)
        \/ \E ok \in BOOLEAN, t \in Texts : ApplyGeneratedNotice(t, ok)
        \/ UNCHANGED <<composing, writing>>
    BY DEF Next, Edit, SetField, EditExpression, SaveSettings, ChangeRunMode, StartCreate,
           SelectSection, LoadPolicy, Preview, ReviewFails, ReviewDiscarded, ReadDiscarded,
           ExecuteRefused, ExecutionBlocked, LoadRuntimeSettings, KeepPolicy,
           SetDescription, ComposePolicy, ComposerKeepsDraft, AssumptionRejected,
           GeneratePersona, PersonaKeepsDraft, PreviewRefused, ReviewAccepted,
           ReviewNotRecorded, ReadFails, BindAttendedPreview, AssessGoogleState,
           AssessmentEnds, Acknowledge, ApprovePlan, Execute, ExecutionEnds, handlers
  <2>2. Current
    BY DEF IInv
  <2>3. CASE \E ok \in BOOLEAN, t \in RecommendedTexts : ApplyRecommendation(t, ok)
    BY <2>2, <2>3 DEF ApplyRecommendation, ComposerIsCurrent, Current
  <2>4. CASE \E ok \in BOOLEAN, t \in Texts : ApplyGeneratedNotice(t, ok)
    BY <2>2, <2>4 DEF ApplyGeneratedNotice, PersonaIsCurrent, Current
  <2>5. CASE UNCHANGED <<composing, writing>>
    BY <2>5
  <2> QED BY <2>1, <2>3, <2>4, <2>5
<1> QED BY <1>1, InvariantHolds, PTL DEF Spec, NewerEditsArePreserved

\* Composer evidence of record_plan_review (_composer_audit_evidence) that says
\* the draft was not edited is about the plan it is recorded with.
THEOREM UneditedEvidenceIsTrue == Spec => UneditedIsUnedited
<1> DEFINE A == nextRun' # nextRun /\ recorded' # None =>
                  recorded'.edited \/ ( /\ reviewing.plan.op = "create"
                                        /\ reviewing.plan.text = recorded'.text )
<1>1. IInv /\ [Next]_vars => [A]_vars
  <2> SUFFICES ASSUME IInv, Next, nextRun' # nextRun, recorded' # None, ~recorded'.edited
               PROVE  reviewing.plan.op = "create" /\ reviewing.plan.text = recorded'.text
    OBVIOUS
  <2>1. ReviewAccepted
    BY DEF Next, Edit, SetField, EditExpression, SaveSettings, ChangeRunMode, StartCreate,
           SelectSection, LoadPolicy, ApplyRecommendation, ApplyGeneratedNotice, Preview,
           ReviewFails, ReviewDiscarded, ReadDiscarded, ExecuteRefused, ExecutionBlocked,
           LoadRuntimeSettings, KeepPolicy, SetDescription, ComposePolicy,
           ComposerKeepsDraft, AssumptionRejected, GeneratePersona, PersonaKeepsDraft,
           PreviewRefused, ReviewNotRecorded, ReadFails, BindAttendedPreview,
           AssessGoogleState, AssessmentEnds, Acknowledge, ApprovePlan, Execute,
           ExecutionEnds
  <2>2. reviewing # None /\ reviewing.revision = revision /\ recorded' = ComposerAuditEvidence
    BY <2>1 DEF ReviewAccepted, ReviewIsCurrent
  <2>3. /\ composer.revision # None /\ composer.revision = revision
        /\ recorded'.text = composer.text
    BY <2>2 DEF ComposerAuditEvidence
  <2> QED BY <2>2, <2>3 DEF IInv, Composed
<1> QED BY <1>1, InvariantHolds, PTL DEF Spec, UneditedIsUnedited

=============================================================================
