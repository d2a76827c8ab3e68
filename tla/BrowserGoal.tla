----------------------------- MODULE BrowserGoal ----------------------------
(***************************************************************************)
(* The browser's part of one approved execution: fresh read, change,       *)
(* verification read (PlaywrightAdminAgentSession of                       *)
(* browser/admin_agent_driver.py and ContentCompliancePage of              *)
(* browser/pages/content_compliance.py).  Each is a sequence of goals; a   *)
(* goal is a bounded loop that observes the page, asks a local model for   *)
(* one step and executes it if the gates let it.  The model may answer     *)
(* anything.  While it thinks, the attended browser is on the operator's   *)
(* screen and the page can change.                                         *)
(*                                                                         *)
(* Data.  A page is reduced to whether it may be used, the resource whose  *)
(* editor is open (its name is the identity that is visible) and whether   *)
(* the approved organizational unit is visible.  A control is its role and *)
(* what its name is taken for.                                             *)
(***************************************************************************)
EXTENDS Naturals, Sequences, SequencesExt

CONSTANTS
  Lists, Rules,      \* address lists and blocked-sender rules of a change
  Advanced,          \* content-compliance rules
  Changes,           \* the change sets that may have been approved
  Roles,             \* candidate roles on the pages
  None,
  MaxSteps,          \* browser_agent_max_steps
  MaxShifts          \* bound on the page changes nobody asked for

Resources == Lists \cup Rules \cup Advanced

\* A ChangeSet or a ComplianceChangeSet: what is created, updated, removed;
\* _partition of domain/diff.py keeps the three apart.
Change == [create : SUBSET Resources, update : SUBSET Resources,
           remove : SUBSET Resources]
Touched(c) == c.create \cup c.update \cup c.remove

Operations == {"read", "readback", "create", "update", "remove"}
Goal == [op : Operations, resource : Resources]

\* What a name is taken for: "Add setting" is a commit and a navigation, and
\* the name of the goal's resource is a navigation.
Controls == [role : Roles, name : {"commit", "add setting", "navigation", "other"}]
Actions  == {"click", "fill", "check", "uncheck", "select"}
BrowserStep == [action : Actions, control : Controls]
                 \cup [action : {"back", "complete"}, control : {None}]

\* choose_step: whatever the schema admits
ChooseStep == BrowserStep

\* "elsewhere": not on admin.google.com, or nothing that _detect_state knows
Pages == [at : {"admin"}, editor : Resources \cup {None}, ou : BOOLEAN]
           \cup [at : {"elsewhere"}, editor : {None}, ou : {FALSE}]
Start == {p \in Pages : p.at = "admin" /\ p.editor = None}

\* _detect_state
Known(p) == p.at = "admin"

RepeatedStepLimit == 3
Results == {"completed", "incomplete", "raised"}

ASSUME BrowserAssumption ==
  /\ Changes \subseteq Change
  /\ Roles \subseteq {"button", "link", "option", "textbox", "checkbox", "combobox"}
  /\ \A c \in Changes :
       /\ Touched(c) # {} /\ IsFiniteSet(Touched(c))
       /\ c.create \cap c.update = {} /\ (c.create \cup c.update) \cap c.remove = {}
       /\ Touched(c) \cap Advanced # {} => \E r \in Advanced : Touched(c) = {r}
  /\ Lists \cap Rules = {} /\ Lists \cap Advanced = {} /\ Rules \cap Advanced = {}
  /\ None \notin Resources \cup Controls \cup Pages \cup Results
  /\ MaxSteps \in Nat \ {0} /\ MaxShifts \in Nat

VARIABLES
  change,    \* the approved change set
  goals,     \* goals that are left
  at,        \* where _run_goal is
  steps,     \* iterations of the loop
  previous, repeated,
  page,      \* what the browser shows
  seen,      \* the page of the snapshot and the catalog, in a step
  form,      \* have fields of the open page been changed?
  google,    \* the resources as Google holds them
  result,    \* how the execution's browser work ended
  shifts,    \* counted for the bound
  \* history
  lied,      \* the model said complete, and the resource is not as it should be
  strayed    \* a control was activated on another page than the one observed

vars == <<change, goals, at, steps, previous, repeated, page, seen, form, google,
          result, shifts, lied, strayed>>

-----------------------------------------------------------------------------
(* The goals of an execution.                                              *)

Ops(op, S) == SetToSeq({[op |-> op, resource |-> x] : x \in S})

\* apply_blocked_sender_change; the defect creates and removes rules first
RulesFirst(c) ==
  Ops("create", c.create \cap Rules) \o Ops("update", c.update \cap Rules)
    \o Ops("create", c.create \cap Lists) \o Ops("update", c.update \cap Lists)
    \o Ops("remove", c.remove \cap Lists) \o Ops("remove", c.remove \cap Rules)
Phases(c) ==
  Ops("create", c.create \cap Lists) \o Ops("update", c.update \cap Lists)
    \o Ops("create", c.create \cap Rules) \o Ops("update", c.update \cap Rules)
    \o Ops("remove", c.remove \cap Rules) \o Ops("remove", c.remove \cap Lists)

\* apply_content_compliance_change: apply_rule opens the rule again to look at
\* it, remove_rule only reloads.
ComplianceGoals(c) ==
  Ops("create", c.create) \o Ops("update", c.update) \o Ops("remove", c.remove)
    \o Ops("readback", c.create \cup c.update)

\* What _fresh_read and _verification_read open
ReadGoals(S) == Ops("read", S \cap (Rules \cup Advanced)) \o Ops("read", S \cap Lists)

VerificationRead(c) == ReadGoals(c.create \cup c.update)

Program(c) ==
  ReadGoals(c.update \cup c.remove)
    \o (IF Touched(c) \cap Advanced # {} THEN ComplianceGoals(c) ELSE Phases(c))
    \o VerificationRead(c)

goal == Head(goals)
mutation_allowed == goal.op \notin {"read", "readback"}
commit_requires_ou == goal.resource \notin Lists

\* Changes of advanced rules run in ContentCompliancePage's own loop.
OnCompliancePage == goal.resource \in Advanced /\ goal.op # "read"

Init ==
  /\ change \in Changes
  /\ goals = Program(change)
  /\ at = "opening"
  /\ steps = 0 /\ previous = None /\ repeated = 0
  /\ page \in Pages
  /\ seen = None /\ form = "clean"
  /\ google = [x \in Resources |-> IF x \in change.create THEN "absent" ELSE "old"]
  /\ result = None
  /\ shifts = 0 /\ lied = FALSE /\ strayed = FALSE

-----------------------------------------------------------------------------
(* The gates.                                                              *)

IsCommit(c) == c.name \in {"commit", "add setting"}
IsNavigation(c) == c.name \in {"navigation", "add setting"}

\* _actions_for_role
AllowedActions(role) ==
  CASE role \in {"button", "link", "option"} -> {"click"}
    [] role = "textbox"  -> {"fill"}
    [] role = "combobox" -> {"click", "select"}
    [] role = "checkbox" -> {"check", "uncheck"}

\* _mutates, which _is_readback_mutation repeats
Mutates(step) ==
  \/ step.action \in {"fill", "check", "uncheck", "select"}
  \/ /\ step.action = "click"
     /\ CASE step.control.role = "link" ->
               IsCommit(step.control) \/ ~IsNavigation(step.control)
          [] step.control.role = "button" -> ~IsNavigation(step.control)
          [] OTHER -> TRUE

\* A goal that only reads; the defect has no second test.
RefusedIfMutating(step) == Mutates(step)
RefusedForRead(step) ==
  \/ Mutates(step)
  \/ step.control # None /\ IsCommit(step.control)

\* requires_target_gate; the defect looks at the name alone
CommitNamesOnly(step) == step.control # None /\ IsCommit(step.control)
RequiresTargetGate(step) ==
  /\ step.control # None
  /\ \/ IsCommit(step.control)
     \/ (step.control.role = "button" /\ Mutates(step))

\* _require_visible_identity and _require_target_ou, on the snapshot
TargetVisible ==
  /\ seen.editor = goal.resource
  /\ commit_requires_ou => seen.ou

StandardGate(step) ==
  IF mutation_allowed THEN RequiresTargetGate(step) => TargetVisible
  ELSE ~RefusedForRead(step)

\* The loop of ContentCompliancePage: _require_target_ou_visible and
\* _require_rule_identity_visible, both for every commit.
RuleVisible == seen.editor = goal.resource /\ seen.ou
ComplianceGate(step) ==
  /\ Mutates(step) => mutation_allowed
  /\ step.control # None =>
       IF IsCommit(step.control) THEN mutation_allowed /\ RuleVisible
       ELSE (step.control.role = "button" /\ Mutates(step)) => RuleVisible

Gated(step) == IF OnCompliancePage THEN ComplianceGate(step) ELSE StandardGate(step)

-----------------------------------------------------------------------------
(* One goal.                                                               *)

\* range(max_steps), and two defects: one step more, and no count
OneMore == steps <= MaxSteps
StepsLeft == steps < MaxSteps
Uncounted == UNCHANGED steps
Counted == steps' = steps + 1

\* An exception leaves the goal and the session.
Raises ==
  /\ at' = "done"
  /\ result' = "raised"
  /\ seen' = None
  /\ UNCHANGED <<change, goals, steps, previous, repeated, page, form, google, shifts,
                 lied, strayed>>

\* _open_admin_url: the settings page, once the expected administrator is
\* signed in to the expected domain.  apply_rule only reloads the page before it
\* looks at its rule again.
Reloaded == {page, [page EXCEPT !.editor = None]}
OpenAdminUrl ==
  /\ at = "opening"
  /\ \/ Raises
     \/ /\ at' = "looking"
        /\ page' \in IF goal.op = "readback" THEN Reloaded ELSE Start
        /\ form' = "clean"
        /\ steps' = 0 /\ previous' = None /\ repeated' = 0
        /\ UNCHANGED <<change, goals, seen, google, result, shifts, lied, strayed>>

\* The end of a goal: the goals that are left, and the outcome so far.  A read
\* goes on to transcribe the page, which may fail and in any case tells nothing
\* to later goals.
GoOnWith(rest, outcome) ==
  /\ goals' = rest
  /\ IF rest = <<>>
       THEN at' = "done" /\ result' = IF outcome = None THEN "completed" ELSE outcome
       ELSE at' = "opening" /\ result' = outcome

\* range(max_steps) is exhausted: the rest of the change is left, and the
\* verification read follows.  The defect goes on with the next goal.
GoesOn ==
  /\ GoOnWith(Tail(goals), result)
  /\ UNCHANGED <<change, page, form, google, shifts, lied, strayed>>
Exhausted ==
  /\ IF mutation_allowed THEN GoOnWith(VerificationRead(change), "incomplete")
     ELSE GoOnWith(Tail(goals), result)
  /\ UNCHANGED <<change, page, form, google, shifts, lied, strayed>>

OutOfSteps ==
  /\ at = "looking"
  /\ ~StepsLeft
  /\ \/ Exhausted /\ UNCHANGED <<steps, previous, repeated, seen>>
     \/ ~mutation_allowed /\ Raises

\* The loop as far as choose_step: host, page state, snapshot and catalog
Observe ==
  /\ at = "looking"
  /\ StepsLeft
  /\ \/ Raises
     \/ /\ Known(page)
        /\ at' = "choosing"
        /\ seen' = page
        /\ Counted
        /\ UNCHANGED <<change, goals, previous, repeated, page, form, google, result,
                       shifts, lied, strayed>>

\* A control of this kind may save when it is activated (external: Google's
\* editors save with buttons, and with what is named for it).
MaySave(step) ==
  /\ step.action = "click"
  /\ IsCommit(step.control) \/ (step.control.role = "button" /\ Mutates(step))

\* What Google holds after a save: the resource of the editor that is open
Saved ==
  IF page.editor = goal.resource
    THEN {[google EXCEPT ![goal.resource] = v] :
            v \in IF goal.op = "remove" THEN {"absent"} ELSE {"new", "bad"}}
    ELSE {[google EXCEPT ![page.editor] = v] : v \in {"bad", "absent"}}

\* A click or a way back leads to another page, or opens a tab that
\* _adopt_latest_admin_page makes the current one.
Navigates == page' \in Pages /\ form' = "clean"

\* execute_step, on the page that is there now
Execute(step) ==
  \/ /\ step.action = "back" \/ step.action = "click"
     /\ Navigates
     /\ UNCHANGED google
  \/ /\ step.action \in {"fill", "check", "uncheck", "select"}
     /\ form' = "changed"
     /\ UNCHANGED <<page, google>>
  \/ /\ MaySave(step)
     /\ page.editor # None
     /\ google' \in Saved
     /\ Navigates

\* No answer, or one that raises: a step repeated too often, stopped by a gate,
\* with a candidate, action or input token that the catalog does not have, or
\* with a control that is not the only one, visible and enabled.
StepFails == at = "choosing" /\ Raises

\* The answer is a step that is executed.  The rationale of two equal steps may
\* differ: then the step is not a repetition.
Act(step) ==
  /\ at = "choosing"
  /\ step.action # "complete"
  /\ step.control # None => step.action \in AllowedActions(step.control.role)
  /\ Gated(step)
  /\ repeated' \in {1} \cup (IF step = previous THEN {repeated + 1} ELSE {})
  /\ repeated' < RepeatedStepLimit
  /\ Execute(step)
  /\ previous' = step
  /\ strayed' = (strayed \/ page # seen)
  /\ seen' = None
  /\ at' = "looking"
  /\ UNCHANGED <<change, goals, steps, result, shifts, lied>>

\* The goal is done as far as the model is concerned.
Target(g) ==
  CASE g.op = "remove" -> "absent"
    [] g.op \in {"create", "update"} -> "new"
    [] OTHER -> google[g.resource]
Complete ==
  /\ at = "choosing"
  /\ \/ /\ GoOnWith(Tail(goals), result)
        /\ lied' = (lied \/ google[goal.resource] # Target(goal))
        /\ seen' = None
        /\ UNCHANGED <<change, steps, previous, repeated, page, form, google, shifts,
                       strayed>>
     \/ ~mutation_allowed /\ Raises

\* The page changes under the model: the operator at the screen, a redirect,
\* an expired sign-in.
PageShifts ==
  /\ at \in {"looking", "choosing"}
  /\ shifts < MaxShifts
  /\ page' \in Pages \ {page}
  /\ form' = "clean"
  /\ shifts' = shifts + 1
  /\ UNCHANGED <<change, goals, at, steps, previous, repeated, seen, google, result,
                 lied, strayed>>

Driver ==
  \/ OpenAdminUrl \/ Observe \/ OutOfSteps \/ Complete \/ StepFails
  \/ \E step \in ChooseStep : Act(step)

Next == Driver \/ PageShifts

\* Every wait of the driver has a time limit (navigation, action, model and
\* login timeouts), so it goes on or raises.
Spec == Init /\ [][Next]_vars /\ WF_vars(Driver)

-----------------------------------------------------------------------------
(* Properties.                                                             *)

\* Every variable has its type.
TypeOK ==
  /\ change \in Changes
  /\ goals \in Seq(Goal)
  /\ at \in {"opening", "looking", "choosing", "done"}
  /\ steps \in 0 .. MaxSteps
  /\ previous \in BrowserStep \cup {None} /\ repeated \in 0 .. RepeatedStepLimit - 1
  /\ page \in Pages /\ seen \in Pages \cup {None}
  /\ (at = "choosing") = (seen # None)
  /\ form \in {"clean", "changed"}
  /\ google \in [Resources -> {"absent", "old", "new", "bad"}]
  /\ result \in Results \cup {None}
  /\ shifts \in 0 .. MaxShifts /\ lied \in BOOLEAN /\ strayed \in BOOLEAN

\* A goal that reads changes no field and saves nothing, whatever the model
\* answers and even on a page that changed after it was observed: the fresh
\* read and the verification read leave Google alone.
ReadsChangeNothing ==
  [][at = "choosing" /\ ~mutation_allowed => google' = google /\ form' = "clean"]_vars

\* A save on the page that was observed is a save of the resource the goal is
\* about, with the approved unit in sight if it is a rule: no role and no name
\* of a control that saves gets around _run_goal's gates.
SavesAreIdentified ==
  [][google' # google /\ page = seen =>
       /\ page.editor = goal.resource
       /\ goal.resource \in Rules \cup Advanced => page.ou]_vars

\* Wherever the run stops - out of steps, an exception, a crash between two
\* saves - no rule refers to a list that is not there, provided that the model
\* reported truly and no page changed under it: lists are created before the
\* rules that use them and removed after them, and a goal that did not come to
\* its end stops the rest.
NoDanglingReference ==
  ~lied /\ ~strayed =>
    \A r \in Rules, l \in Lists :
      /\ {r, l} \subseteq change.create /\ google[l] = "absent" => google[r] = "absent"
      /\ {r, l} \subseteq change.remove /\ google[l] = "absent" => google[r] = "absent"

\* Under the same provision a run that reports completion has applied the
\* whole change, and no later goal undid an earlier one.
CompletedIsApplied ==
  result = "completed" /\ ~lied /\ ~strayed =>
    /\ \A x \in change.create \cup change.update : google[x] = "new"
    /\ \A x \in change.remove : google[x] = "absent"

\* The browser's work ends, whatever the model answers.
WorkEnds == <>(at = "done")

=============================================================================
