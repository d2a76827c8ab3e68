# TLA+ models of the Gmail compliance agent

The agent changes a Google Workspace configuration (blocked-sender rules,
address lists, content-compliance rules) on behalf of an operator. A language
model or a form proposes a typed plan; code reads the live configuration,
computes a change, has a human approve exactly that change, writes it through a
browser, reads it back and reports. These modules model that protocol, check it
with TLC and prove its main properties with TLAPS.

Paths below are relative to `src/compliance_agent/` of the repository.

## 1. Inventory

| Part | State it keeps | Operations | What makes it correct |
|---|---|---|---|
| Workflow (`workflow/`) | the typed message in flight; run scope only | 14 executors of a fixed graph, three human pauses | a write needs a current, exact approval; a retry needs the approved before-state; the result tells the truth |
| Policy (`domain/`) | none | desired state, diff, hashes, preconditions, verification, reconciliation, status | pure decisions agree with their description |
| Ownership (`domain/ownership.py`, `application/ownership_*.py`, `infrastructure/filesystem.py`) | `resources.json` (the registry) | load, check, commit after verification, recover, health | records follow only from a read-back; no record is lost; a commit never makes the registry unusable |
| Workflow audit (`application/workflow_audit_service.py`, `audit_service.py`, `audit/`) | run directory, hash chain, `_mutation_started`, warnings | record, finalize, verify | evidence precedes the write; gaps are disclosed |
| Console coordinator (`console/coordinator.py`) | `_runs`, tasks, live/preview services | start, plan, preview, approve, cancel, expire, reconfigure | phases follow the table; one browser; nothing hidden |
| Approvals (`application/approval_service.py`) | `_pending` envelopes with expiry | issue, approve, get, cancel | single use, bound to what is shown |
| Journal (`console/journal.py`, `console/app.py`) | `console-runs.json` | load and downgrade, save | a restart never makes an execution look harmless |
| Runtimes (`composition.py`, `console/capabilities.py`, `infrastructure/process_lock.py`) | `run.lock`, registry as loaded | compose, execute, close | one browser per installation; lock always released |
| Attended service (`application/attended_*.py`) | pending previews, `run.lock`, registry, run directory | record a plan review, preview, cancel, execute | as the workflow, for both Google surfaces; a manifest tells the truth; records follow only from a read-back |
| Audit package (`audit/`, `application/audit_*.py`, `retention_service.py`) | artifacts, `run.jsonl`, `manifest.json` | write, append, finalize, verify, delete when expired | what verifies is complete |
| Reflex console (`reflex_console/`) | page state, draft, review, approval, progress flags | edit, compose, write a notice, review, preview, approve, reset | the draft that is executed is the one reviewed and read; late answers overwrite nothing |
| Browser driver (`browser/`) | page, bounded navigation loop | read, apply, verify | reads change nothing; save only with OU and identity in view; lists before rules |
| Language models (`llm/`) | none across calls | structured retries, group review, personas | bounded; only a complete all-pass transcript counts |
| Propagation, export, CLI, settings | files | - | - |

How the parts interact. A request reaches the coordinator, which runs on one
event loop: a handler runs to its next `await` without interruption, so other
requests, restarts and other processes act only between awaits. The coordinator
awaits the planner, then the preview runtime (which takes `run.lock`, reads
Google and computes a change), then issues an approval envelope; the approval
starts a live runtime (lock again) that runs the whole workflow and answers its
one confirmation request with the approved hashes. Inside the workflow a single
message travels from executor to executor. The Reflex console is a second way
in: its handlers run on one event loop too, give way at each `yield` and `await`,
and call the attended service, which drives a headed browser with a local model
that picks one page control at a time. Both ways share `run.lock`, the ownership
registry and the layout of the audit package. Google is shared with other
administrators and no save is conditional.

What is hard: drift between read, approval and write; writes whose response is
lost; several resources saved one by one; audit or registry writes that fail in
the middle; late results for cancelled runs; approvals that expire; restarts
during an execution; a second process; a read that shows another organizational
unit (OU); edits, second clicks and late answers in an open page; lines of a log
that are torn; a page that changes between being looked at and being clicked;
and the long sequences of runs a registry has to survive. `PROJECT.json` lists these hazards at their lines.

## 2. Modules

| Module | Models | Used for |
|---|---|---|
| `ApprovalGate` | what any mutation-capable run promises (abstract) | refinement target |
| `ComplianceWorkflow` | the workflow graph, its policy, its auditor, the ownership commit | TLC and proofs |
| `MCComplianceWorkflow` | small instances: two resources, two OUs | TLC |
| `ComplianceWorkflowProofs` | type correctness, authority, evidence | TLAPS |
| `ComplianceWorkflowReportProofs` | truth of the report, disclosure of gaps, ownership, refinement of `ApprovalGate` | TLAPS |
| `ConsoleCoordinator` | coordinator, approvals, journal, lock, live runner | TLC and proofs |
| `MCConsoleCoordinator` | small instances: one or two runs | TLC |
| `ConsoleCoordinatorProofs` | approvals, exclusiveness, previews, restarts | TLAPS |
| `AttendedPolicy` | the attended service, its audit, the browser session and lock, the registry file | TLC and proofs |
| `MCAttendedPolicy` | small instances: two runs, one or two processes, three policies | TLC |
| `AttendedPolicyProofs` | types, lock and approvals, manifests, completion, refinement of `ApprovalGate`, the registry within one process | TLAPS |
| `DesiredState` | the algorithms of the desired state and the diff, as operators | used by `OwnershipLedger` |
| `OwnershipLedger` | the registry over many runs of both kinds, recovery, health | TLC and proofs |
| `MCOwnershipLedger` | three identifiers, two of which share their first digits | TLC |
| `OwnershipLedgerProofs` | what is written and what is recorded, for plans of every length | TLAPS |
| `ReflexSession` | the operator's session in the Reflex console | TLC and proofs |
| `MCReflexSession` | a small form, two runs, two revisions and more | TLC |
| `ReflexSessionProofs` | types, what is approved, late answers, evidence, flags | TLAPS |
| `AuditTrail` | the audit package of a run, its readers, retention | TLC and proofs |
| `MCAuditTrail` | two artifacts, two statuses | TLC |
| `AuditTrailProofs` | types, what an intact package contains, what a finalization leaves | TLAPS |
| `BrowserGoal` | the browser's part of one execution: goals, loop, gates | TLC and proofs |
| `MCBrowserGoal` | one list, one rule, one advanced rule | TLC |
| `BrowserGoalProofs` | types, what the gates guarantee, the order of saves, completion | TLAPS |

### ComplianceWorkflow

`node` is the executor that holds the message; the other message variables are
the fields of the typed messages (`plan`, `currentState`, `prepared`,
`approval`, `observedState`, `retryCount`, `mutationStatus`, `result`).
`mutationStarted`, `auditWarning`, `evidence` and `finalized` are the auditor
and what it made durable; `google`, `unsaved`, `registry` are the world, with
`ownership` the registry as loaded when the run was composed. The history
variables record what was shown and answered, the last read, and whether a save
of this run took effect (`effect`) since the before-state was last seen.

Each executor is one action. The mutation executor is three, because other
administrators act while the writer is awaited: `MutationStart`, `SaveResource`
for each resource, `MutationFinish`. Reads see one OU atomically. Failures:
`StateReadFailure` (mapped by `failure_mapping.py`), `AuditWriteFailure` (a
protected write raises before a mutation), the parameter `kept` (one fails after
it), `Crash` (any unmapped exception or the end of the process).

Abstractions, and why they are safe:
- A resource is a key with a value; a plan creates, updates, removes or keeps
  each key. Names and entries only matter through equality.
- A canonical hash is the value it is taken of.
- The identity of a created resource is a fixed key. The code mints a new
  identifier whenever a change is computed, so it accepts fewer old answers than
  the model. What the new identifiers do to an approval is in
  `ConsoleCoordinator`.
- The framework's limit of 100 supersteps only ends runs; `Crash` may too.
- `LateSaves` says whether Google may finish a save after the writer gave up.
  Such a save does not count as an effect of the run: no read of it could tell.

### ConsoleCoordinator

`runs`, `pending`, `journal`, `lock` are `_runs`, `_pending`, the journal file
and `run.lock`. `call[r]` is the await that run `r` is in with the change it
carries: a cancelled run can still be in one, holding the lock. A change is its
before-state and the number of the identifiers it was minted with. The steps of
a live run (`LiveConfirm`, `LiveReRead`, `LiveWrite`, `LiveFinish`,
`LiveEndsEarly`, `LiveRaise`) summarize the workflow; that `FAILED_UNCHANGED`
excludes a save is what `UnchangedIsHonest` establishes for it. `JournalFaults`
lets any save of the journal fail; a step that saves several times may then
leave any of its versions on disk. The end of the process and the next start
are one step, `Restart`. Not modelled: the cap on retained finished runs and a
journal file that cannot be read.

### AttendedPolicy

`at[r]` is the await, or the stretch without one, that run `r` is in. `pending`
is `PendingAttendedRuns`, `lock` is `run.lock`, `registry` the keys with a
record in `resources.json` and `ownership[r]` the registry as the current call
loaded it; `audit[r]` is the final status of the run's manifest (`"open"`: a
directory without manifest). `mutationStarted`, `completed` and `verified` are
the local variables of `execute`. The history variables say which identifiers
were ever given out, which approvals were consumed, who saved something in
Google and who changed the registry file.

`Preview`, `PreviewOpen`, `PreviewRead`, `PreviewClose` and `PreviewFails` are
`preview`; `Execute`, `LoadOwnership`, `Open`, `FreshRead`, `Drifts`,
`IssuePermit`, `SavePolicy`, `ApplyReturns`, `VerificationRead`, `Close`,
`ExecuteFails`, `CommitOwnership` and `FinalizeExecution` are `execute`, split
where it awaits or where another process can act. In the nodes of `NoAwait` the
coroutine does not give way to another one of its process (`Turn`); processes
interleave everywhere. `RegistryFaults` lets the registry file fail to load or
to save, `AuditFaults` any file of the run directory to be written; an exception
in the browser or the model is always possible. A wrong phrase or a missing
acknowledgement changes nothing and is not an action.

Abstractions:
- A policy is a rule with the lists it names, and what it holds is one value: a
  rule saved without its list is another value. `SavePolicy` may store any
  value in the approved policy, because the page gates of the driver check the
  identity and the OU in view, not what the model typed.
- All policies are of one OU. A read is one step.
- A read reports the policies it was told to expect with what they hold, the
  others by name only; a policy that is expected and gone makes it raise.
- Entering the session and taking the lock is one step, so a session whose start
  fails is a `PreviewFails` or `ExecuteFails` right after it.
- A registry save that raises leaves the old file. (`OwnershipStore.save` also
  sets the mode of the file after replacing it; that call is taken to succeed.)

### DesiredState and OwnershipLedger

`DesiredState` has one operator per action of a plan (`CreateRule`, `AddEntries`,
`UpdateRule`, `RemoveEntries`, `SetNotice`, `SetEnabled`, `RemoveRule`), with the
code's guards: an action whose guard fails yields no state, as the code raises.
Lists are found by name, and a name carries only the first digits of an
identifier (`Short`), so two resources can have one name. `Calculation` is the
loop over the actions of a plan, as a recursive function of how many have been
applied. `Created`, `Removed` and `Changed` are the change set.

`OwnershipLedger` is what the registry file goes through. `run` is the run that
holds `run.lock`; `BeginWorkflow`, `BeginAttended` and `BeginCompliance` read,
compute and hold a change, `Write` applies it, `FinishWorkflow`
(`commit_verified`), `FinishAttended` and `FinishCompliance` (`_commit_ownership`)
record it if the save works, `Abandon` ends the run anywhere. `Recover` rebuilds a
record from the change set of an audited run, `ExternalEdit` is another
administrator. The plans are constants: any the schema admits for the workflow;
for the attended service those its form builds, which remove a rule together with
its lists (`reflex_console/state.py:2236`). The attended service reads with the snapshots of the registry, so
an incomplete registry (`SnapshotAvailable`) keeps it from reading at all. A write
applies its whole change: partial writes and drift belong to the two protocols
above.

### ReflexSession

`form` is the draft (operation, target, text of its fields), `revision` is
`draft_revision`, `locks` the progress flags, `view` the evidence and approval
panel, `composer` the accepted recommendation. `composing`, `writing`,
`reviewing`, `reading`, `approving` and `executing` are the handlers that wait in
an `await` or after a `yield`, with the local variables they will use; `pending`
is the service's store of previews. Each handler is split where it gives way, and
every other handler may run in between, whatever the buttons of the page allow: an
event that was sent before a button was disabled is still delivered. An exception
that leaves a handler is recorded in `raised`.

### AuditTrail

`files`, `log`, `manifest` and `temps` are the run directory, `writer` the state
of `RunAuditWriter`, `todo` what is left of the recording or finalizing call. Each
file operation returns, raises before or after its effect, or is cut by the end
of the process; an append can leave a part of its line. `Intact` is the catalog's
verdict: the digests of the manifest and the hash chain. Retention is a process of
its own: it plans, checks again, and deletes file by file. A hash is the content
it is taken of, so that collisions do not exist.

### BrowserGoal

`goals` is what is left of fresh read, change and verification read, in the order
of the code; `at` and `steps` are the loop of `_run_goal`. `Observe` takes the
snapshot (`seen`), the model answers anything the schema admits, and `Act`
executes the answer if the gates allow it: `StandardGate` for
`PlaywrightAdminAgentSession._run_goal`, `ComplianceGate` for
`ContentCompliancePage._run_goal`. `PageShifts` lets the page change in between.
`google` holds for each resource whether it is absent, as before, as approved or
something else.

Abstractions: the name on a page is that of the editor that is open (the code
looks for it anywhere in the snapshot); a control is its role and the class of
its name; any button that is not a navigation, and anything whose name is a
commit, may save. The reads are those of the resources of the change; the drift
check between fresh read and change is in `AttendedPolicy`. What the model fills
in is not checked by the code either: it may save a wrong value (`"bad"`), which
the verification read has to find.

### ApprovalGate

A change is offered only for the state last seen; one approved change is
granted at most `MaxGrants` writes, each with its before-state as the last one
seen; ownership and success follow only from a granted change whose resources
were seen; a refusal is never reported after a grant. `ComplianceWorkflow`
implements it with two grants: the first when the first attempt starts, the
second when reconciliation orders the retry. `AttendedPolicy` implements it for
any one run (`Watched`) with one grant; the registry is seen as far as that run
changed it.

## 3. What the runs show

| Run | States | Result |
|---|---|---|
| `WorkflowAuthority` | 131,360 | `WriteAuthorized`, `AttemptStartsFromApprovedState`, `EvidenceBeforeSave`, `EvidenceGapDisclosed`, `UnchangedIsHonest`, `AppliedIsObserved`, `OwnershipFollowsReadBack`, `ImplementsGate` and `MutationConcludes`, with late saves |
| `ConsoleSafety` | 224,532 | `ApprovalIsCurrent`, `BrowserIsExclusive`, `MutationIsNeverHidden` for two runs |
| `ConsoleJournalFaults` | 134,800 | `WritesThePreview` and `RunsSettle`, one run, three mintings, failing journal |
| `AttendedSafety` | 1,244,590 | `ManifestIsHonest`, `CompletedIsVerified`, `SessionsAndApprovals` and `ImplementsGate`, two processes, every fault |
| `AttendedOneProcess` | 405,414 | `RegistryFollowsReadBack` and `CallsEnd`, two runs of one process, a failing registry file |
| `LedgerSafety` | 532,825 | type invariant; `OnlyOwnedIsWritten`, `CommitFollowsTheChange`, `CommitsAreValid`, `SnapshotsStayComplete`, `HealthyIsManageable` |
| `ReflexSafety` | 1,747,186 | type invariant; `ExecutedIsTheDraft`, `NewerEditsArePreserved`, `UneditedIsUnedited`, `FlagsHaveHandlers` |
| `AuditSafety` | 6,939,744 | type invariant; `IntactIsComplete`, `FinalizedVerifies` |
| `BrowserSafety` | 578,943 | type invariant; `ReadsChangeNothing`, `SavesAreIdentified`, `NoDanglingReference`, `CompletedIsApplied`, `WorkEnds` |
| `ConsoleFreshIds`, `AttendedTwoProcesses`, `LedgerRecovery` | - | violated: see below |

Bounds. Two resources (one created, one edited or removed) are what a partial
write, a partial match and a mixed ownership commit need. Two OUs distinguish
the approved one from any other. External edits change the owned rule, put it
back, and create what the plan creates; a clarification, a login and a drift can
each be repeated without a bound, and the state space is still finite. The
console runs have two competing runs (`ConsoleSafety`) or one run with enough
time for its approval to expire and be renewed (`MaxTime` 2 against `TTL` 1) and
two or three mintings: previews and a live recomputation. Runs and Google states
are interchangeable, hence the symmetry of `ConsoleSafety`. The attended runs
have two runs, which is what a race for the lock or for the registry needs, and
three policies: one that is created, one that is owned, updated and removed, and
one of the other surface. One plan changes two policies, for which no permit can
be made out. `TTL` 1 and `MaxTime` 1 let an approval expire before or after its
preview ends; another administrator removes the owned policy. The console has no
terminal state and the workflow stutters explicitly (`Stopped`), so deadlock is
checked for both. The attended service has nothing to do once all its runs are
done, so its runs do not check deadlock; `CallsEnd` says that no run gets stuck
before. The ledger has three runs (create, change, and one that meets the result),
three identifiers, two with the same first digits, and one edit by another
administrator. The Reflex session has two runs of the service, so that a second
preview can meet the first one's answer, and a bound on revisions; the audit trail
has two artifacts and enough contents for two finalizations after a failure. The
browser has three steps per goal (a field, a save, a completion), one page change
nobody asked for, and the roles of each class the gates distinguish: button, link,
and combobox for the others. Their behaviours end at a bound or with the work, so
these runs do not check deadlock either.

Fairness. `FairSpec` of the workflow is weak fairness of `Handler`: the
framework delivers the message in flight and every awaited adapter returns or
raises: the browser context and the model clients are created with request
timeouts (`browser/session.py`, `llm/planner.py`, `browser/ui_extraction.py`),
and an expired timeout is an exception. Nothing is assumed of the operator, the
other administrators or failures. `FairSpec` of the console is weak fairness of
`CallEnds(r)`: every awaited call ends. Nobody has to make a request, so
`RunsSettle` speaks of planning, preflight and executing, never of an approval
that nobody answers. `FairSpec` of the attended service is weak fairness of
`Step(r)`, what a coroutine does by itself: Playwright and the model client have
timeouts, the wait for a login has a deadline, and the goal loop has a maximum
number of steps. Requests and `SavePolicy` are not fair. `Spec` of the browser
goal is weakly fair for the driver's steps, for the same reason: navigation,
actions, model calls and the wait for a login all have time limits. The page need
not change, and the model may answer anything.

### Where code and documentation disagree

Shown by a run:

1. `ConsoleFreshIds`. The live runtime recomputes the change and mints new
   identifiers; an approved change that creates something is never applied,
   although Google did not drift.
2. `AttendedTwoProcesses`. `docs/architecture.md` describes the attended service
   as taking the lock and then loading ownership evidence. `execute` loads the
   registry before it takes `run.lock` and commits it after the release, so a
   commit can overwrite what another process committed in between.
3. `LedgerRecovery`. `OwnershipRecoveryService` says that it rebuilds one record;
   it saves a registry of the paired records alone
   (`application/ownership_recovery_service.py:63`), without the independent lists
   and the advanced rules.

Met while modelling, and part of the models without a run of its own:

- `_confirmation_remains_valid` (`workflow/executors.py:682`) does not catch
  `RootOuNotConfirmed`: after a read-back of another OU an uncertain write is not
  classified, and the run ends without result and manifest
  (`docs/architecture.md:47`).
- `verify_state` does not compare `target_ou`; success can be reported from a read
  of another OU, with a warning that ownership was not committed
  (`docs/threat-model.md:15`).
- The approval form of the console carries a phrase that is the same for all
  previews of a run and no hash, so a page of an expired preview approves the
  current one (`docs/architecture.md:44`).
- `execute` consumes the approval and loads the registry before its `try`
  statement: a registry that cannot be read leaves the run without approval and
  without manifest (`docs/operator-console.md:97`).
- `edited_after_application` compares revisions, which steps that edit no
  generated field advance too (`docs/advanced-blocking.md:127`).
  `UneditedIsUnedited` is the direction that holds.
- A workflow run whose verified update adds or removes a bypass list cannot commit
  it (`_created_resources`, `_fully_removed_ids`): the list stays without a record.
- Removing a rule refuses to remove a list that "remains referenced by another rule"
  (`domain/desired_state.py:384`), but looks for it only in the same role, and an
  update that drops a bypass list does not look at all. A list that one rule blocks
  and another, after an edit by an administrator, bypasses is removed with the
  first; the attended read-back then cannot transcribe the other rule, and the run
  is not recorded as completed.
- Not modelled: a turn of the group chat that cannot be parsed is left out of the
  transcript, which is then shorter than its rounds (`llm/group_chat.py:255`,
  `docs/architecture.md:64`).

## 4. What is proved

Each theorem holds for every value of the constants that satisfies
the assumption of its module (`ConstantsAssumption`, `ConsoleAssumption`,
`AttendedAssumption`, `BrowserAssumption`, `ReflexAssumption`, `TrailAssumption` or
`LedgerAssumption`); TLC evaluates it in that module's runs. Beyond types, the
assumptions say that `None` is no value, that a name of the browser's change is of
one kind of resource, that a change is finite and creates, updates and removes
different resources (`_partition` of `domain/diff.py` compares by identifier), that
identifiers of the two kinds of rules differ, and that an attended plan removes a
rule with its lists.

Workflow. `WriteAuthorized` is not inductive: nothing in it says where
`approval` comes from. `IInv` adds `Carried` (what each node's message holds:
for example, from `reread_current_state` on, the approval is for `prepared`) and
`Authority` (what has been shown, answered, recorded and read by then). From
`IInv` follow `TypeCorrect`, `AuthorizedWrites`, `AttemptsFromApprovedState` and
`EvidencePrecedesSaves`. `RInv` adds what the last read says at each node
(`Observed`) and what a result implies (`Reported`), which gives
`AppliedReportsAreObserved` and, with one step per action mapped to a step of
`ApprovalGate` or a stutter, `WorkflowImplementsGate`. `HInv` adds the relation
between `effect`, `unread` and the status in flight, which gives
`UnchangedReportsAreHonest`. `Disclosed` adds that the evidence of an attempt is
there or its loss is already a warning of the message in flight, which gives
`GapsAreDisclosed`. `OwnershipIsReadBack` follows from `RInv` in one step: the
commit takes its keys from the read that `Observed` describes.

Console. `IInv` consists of the types, `Structure` (what each phase holds, what
each awaited call carries, what the journal may hold), `ApprovalIsCurrent` and
`BrowserIsExclusive`. One lemma says that a step of one run that fits keeps the
invariant for all runs; one lemma per handler shows that it fits. This gives
`TypeCorrect`, `ApprovalsAreCurrent`, `BrowserExclusive` and
`ThePreviewIsWritten`, with or without journal faults. `WInv` adds that the
journal equals the runs when no save fails, and what a run that saved may look
like: `MutationsAreShown`.

Attended service. None of its invariants is inductive alone: that a manifest is
honest depends on `mutationStarted` being set before the first save, and
completion on what the run carries since its preview. `IInv` is `TypeOK`,
`SessionsAndApprovals` and, for each run, `Carried` (which plan, preview and
observation its node implies), `Accounted` (what manifest and result say of what
was saved and committed) and `Authorized` (where the approval comes from). One
lemma shows that a step of a run leaves the others alone; one step per action
does the rest. This gives `TypeCorrect`, `SessionsAreExclusive`,
`ManifestsAreHonest` and `CompletionIsVerified`, and `AttendedImplementsGate`
with one step of `ApprovalGate` or a stutter per action.
`RegistryFollowsInOneProcess` assumes that all runs have the same host; its
invariant adds that no session is open while another run commits (`Alone`) and
that from its loading to its commit a run holds the registry of the file
(`Current`).
Without the assumption TLC refutes the property (`AttendedTwoProcesses`).

Browser. Two lemmas say what the gates of both loops let through: in a goal that
reads, no change of a field and no step that may save (`ReadGate`); in a goal
that writes, a save only with the goal's resource, and for a rule the approved
unit, in the snapshot (`SaveGate`). `SavesAreOfTheGoal` follows from the second.
`ReadsAreHarmless` also needs the invariant `ReadIsClean`: a goal that reads starts
on a page without changed fields and keeps it so. Both hold for every answer of the
navigation model. `StopsAreSafe` and `CompletionIsTrue` are about the sequence of
goals. A first group of lemmas shows, for a change of any size, that the program of
an execution contains exactly the goals of its change and its reads, and never a
rule before a list it may need or a list before a rule that may need it (`SetInARow`,
`ConcatRuns`, `PhasesRun`, `ProgramRuns`), and that a resource has one goal that
writes (`OneMutation`). The invariant then says that this stays true of the goals
that are left (`Left`) and that what has no goal left is as it should be
(`Applied`); one lemma per action. Neither property is inductive without `Left`,
since nothing else excludes a goal that comes back or comes too early.

Audit package. That an intact package is complete cannot be shown from the manifest
and the log alone: the log may have been written after the manifest, hold an event
twice (an append that failed after its effect and was repeated) or a torn line.
`IInv` relates four things: the acknowledged events form a chain that ends where the
writer stands (`Acknowledged`); the log is these events, these and one line of a
failed append, broken for good, or removed (`Logged`); the
operations left of a call end with its event and manifest (`Planned`); what a
manifest sealed is what was there then (`Sealed`), no older than what was
acknowledged (`Kept`), and final once finalize has returned (`Finalized`); retention
only gets at the directory of a run that is over (`Retained`). `RepetitionBreaks` and `BrokenStays` are the lemmas
about the chain: a repeated event breaks it and no append mends it.

Reflex session. The properties are about single steps, but each needs to know what
a handler that gave way still holds. `Fresh`: an approval is of a run whose preview
is over, and no two previews are of one run. `Current`: what a handler keeps fits
the draft if it is of the draft's revision. `Shown`: a live approval that the panel
shows is for the draft. `Composed`: at the revision the composer made, the draft is
its recommendation. Two lemmas carry most of the proof: a step with a new revision
keeps all four whatever it changed (`NewRevision`), because nothing is of the new
revision yet; a step that leaves the draft alone keeps them if what it adds fits
(`SameDraft`). `KeepPolicy` is neither and has a lemma of its own.

Ownership ledger. What may be written and what is recorded depends on the change a
run calculated from its plan, several steps earlier and with other administrators
acting since. `IInv` is `TypeOK` and: an identifier that was not minted is nowhere
(`Minted`); the change of the run in progress alters only what it owns by the name
it was read with, what it is about to write still has that name in Google and what
it removed does not come back, what it creates has no record and no audit, and an
attended run works on the recorded rules (`Calculated`, from `Owned`, `Unwritten`,
`Gone`, `New` and `Attended`); no identifier has two records (`Unique`).
`Calculated` has to be shown when a run begins, for a plan of any length. One lemma
per plan action says what it may change (`Stepped`), and actions in a row compose
(`Leads`, `LeadsFurther`). That this holds after every number of actions is an
induction, which the prover has no theorem for; `InductionUpTo` derives it from the
least element of the numbers left out (`WFMin`), and `CalculationIs` is the
recursion equation. With it, one lemma per action of the ledger gives
`TypeCorrect`, `CommitsPassTheValidator` and `HealthAgreesWithThePlanner`, and the
action properties `WritesAreOwned`, `RecordsFollowTheChange` and
`AttendedRunsGoOn`. The last is why plans are assumed to remove lists with their
rule: an attended plan that kept the list would leave a registry that turns the
next run away.

The inductive invariants were checked with TLC before they were proved. Type
correctness of the first three modules is proved and not in their runs; the
runs of the other modules check it too.

Only model-checked: `MutationConcludes`, `RunsSettle`, `CallsEnd` and `WorkEnds`
(liveness under fairness is out of the prover's reach), and the three violations.

## 5. Plan

Done: `ComplianceWorkflow`, `ApprovalGate` and its two refinements,
`ConsoleCoordinator`, `AttendedPolicy`, `ReflexSession`, `AuditTrail`,
`BrowserGoal`, `DesiredState` and `OwnershipLedger`, each with its proofs.

Worth proving next: in `OwnershipLedger`, that a change removes no list another
rule refers to as long as no other administrator makes a rule refer to it.

Left to model: the corrective retries of the structured planner and the rounds of
the group review, propagation records, a console journal that cannot be read and
the cap on finished runs.

## 6. Not modelled

The parts under "Left to model" are protocols without a module yet. Rendering
(`reflex_console/app.py`, templates, static files), persona sampling and prompts, page locators and extraction, settings and
launchers have no protocol of their own. The content-compliance services
(`application/compliance_*_service.py`) are called by tests only.
