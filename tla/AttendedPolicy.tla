--------------------------- MODULE AttendedPolicy ---------------------------
(***************************************************************************)
(* The attended service of src/compliance_agent/application: preview reads *)
(* Google in a headed browser and keeps a one-time approval in memory,     *)
(* execute consumes it, reads again, writes, reads back and commits the    *)
(* ownership registry.  Several runs, possibly of several processes, share *)
(* run.lock, the registry file and Google.                                 *)
(*                                                                         *)
(* Data.  A policy is a rule of one of the two Google surfaces with the    *)
(* address lists it names; what it holds is one value, so a half-written   *)
(* policy is just another value.  All policies are of one organizational   *)
(* unit.  A read is told which policies to expect (those with an ownership *)
(* record, or those of the desired state): it reports what they hold, and  *)
(* every other policy only by its name (Unmanaged).                        *)
(***************************************************************************)
EXTENDS Naturals, FiniteSets

CONSTANTS
  Runs,           \* run identifiers
  Processes,
  Host,           \* the process that serves a run
  Keys,           \* identities of policies
  Surface,        \* "blocked_senders" or "content_compliance", for each key
  Values,         \* what an existing policy may hold
  Absent,         \* the policy does not exist
  Unmanaged,      \* the policy is seen, but not expected
  None,
  TaskPlans,      \* the plans under review
  InitialGoogle,  \* Google's configurations at the beginning
  InitialRegistry,\* keys with an ownership record at the beginning
  ExternalEdits,  \* <<key, value>>: edits other administrators make
  TTL, MaxTime,   \* approval_ttl_seconds and a bound on the clock
  RegistryFaults, \* may the registry file fail to load or to save?
  AuditFaults,    \* may an audit file fail to be written?
  Watched         \* the run whose promises ApprovalGate states

Surfaces    == {"blocked_senders", "content_compliance"}
Existing    == Values \cup {Absent}
Observation == [surface : Surfaces, res : [Keys -> Existing \cup {Unmanaged}]]
TaskPlan    == [surface : Surfaces,
                op  : [Keys -> {"keep", "create", "update", "remove"}],
                val : [Keys -> Values]]

\* AttendedPolicyPreview
PolicyPreview == [plan : TaskPlan, before : Observation, after : Observation]

\* What the manifest of a run says: there is no run directory, it has no
\* manifest (yet), or the run was finalized with a status.
AuditStatus ==
  {"none", "open", "NO_CHANGE_REQUIRED", "DRY_RUN_PREVIEW_READY",
   "CONFIRMATION_REJECTED", "FAILED_UNCHANGED", "INDETERMINATE",
   "APPLIED_UI_VERIFIED"}

\* What preview or execute gave its caller, or that the operator cancelled.
Results ==
  {"completed", "drifted", "verification_failed", "recovery_required",
   "rejected", "error"}

ASSUME AttendedAssumption ==
  /\ Host \in [Runs -> Processes]
  /\ Surface \in [Keys -> Surfaces]
  /\ Absent \notin Values /\ Unmanaged \notin Existing
  /\ None \notin PolicyPreview
  /\ None \notin Observation
  /\ None \notin TaskPlan
  /\ None \notin Runs /\ None \notin Results /\ None \notin Nat
  /\ TaskPlans \subseteq TaskPlan
  /\ InitialGoogle \subseteq [Keys -> Existing]
  /\ InitialRegistry \subseteq Keys
  /\ ExternalEdits \subseteq Keys \X Existing
  /\ TTL \in Nat \ {0} /\ MaxTime \in Nat
  /\ RegistryFaults \in BOOLEAN /\ AuditFaults \in BOOLEAN
  /\ Watched \in Runs

\* Where a run is.  In the nodes of NoAwait its coroutine does not give way to
\* another one of its process.
Nodes == {"new", "preview_open", "preview_read", "preview_close", "previewed",
          "load", "open", "fresh_read", "permit", "applying",
          "verification_read", "close", "commit", "finalize", "done"}
NoAwait == {"preview_open", "load", "open", "permit", "commit", "finalize"}
InSession == {"preview_read", "preview_close", "fresh_read", "permit",
              "applying", "verification_read", "close"}

VARIABLES
  at,        \* node of every run
  plan,      \* the plan under review
  live,      \* settings.run_mode is live
  preview,   \* the evidence that was presented
  expiresAt, \* when the approval of the preview expires
  pending,   \* PendingAttendedRuns: runs whose preview waits for an answer
  ownership, \* the registry as loaded by the current call
  observed,  \* the last state the run read
  mutationStarted,
  completed, \* browser_result.completed
  verified,
  result,    \* AttendedExecutionResult.status
  audit,     \* the run's manifest
  lock,      \* owner of run.lock
  registry,  \* keys with an ownership record in the registry file
  google,
  clock,
  \* history
  minted,    \* identities that were ever given to a policy
  approved,  \* runs whose approval was consumed
  saved,     \* runs that saved something
  committed  \* runs that changed the registry file

calls   == <<plan, live, preview, expiresAt, ownership, observed,
             mutationStarted, completed, verified>>
history == <<minted, approved, saved, committed>>
vars == <<at, calls, pending, result, audit, lock, registry, google, clock,
          history>>

Init ==
  /\ at = [r \in Runs |-> "new"]
  /\ plan = [r \in Runs |-> None]
  /\ live = [r \in Runs |-> FALSE]
  /\ preview = [r \in Runs |-> None]
  /\ expiresAt = [r \in Runs |-> None]
  /\ pending = {}
  /\ ownership = [r \in Runs |-> {}]
  /\ observed = [r \in Runs |-> None]
  /\ mutationStarted = [r \in Runs |-> FALSE]
  /\ completed = [r \in Runs |-> FALSE]
  /\ verified = [r \in Runs |-> FALSE]
  /\ result = [r \in Runs |-> None]
  /\ audit = [r \in Runs |-> "none"]
  /\ lock = None
  /\ registry = InitialRegistry
  /\ google \in InitialGoogle
  /\ clock = 0
  /\ minted = registry \cup {k \in Keys : google[k] # Absent}
  /\ approved = {} /\ saved = {} /\ committed = {}

-----------------------------------------------------------------------------
(* Reading and calculating.                                                 *)

\* A read opens every policy it expects: one that is gone makes it raise.
Readable(expected) == \A k \in expected : google[k] # Absent

\* read_blocked_sender_state and read_content_compliance_state
View(s, expected) ==
  [surface |-> s,
   res |-> [k \in Keys |->
              CASE Surface[k] # s    -> Absent
                [] Surface[k] = s /\ (k \in expected \/ google[k] = Absent)
                                     -> google[k]
                [] OTHER             -> Unmanaged]]

\* _standard_snapshot and _compliance_snapshot: what the registry expects.
Snapshot(s, own) == {k \in own : Surface[k] = s}

\* The policies a verification read expects: those of the desired state.
ManagedKeys(s) == {k \in Keys : s.res[k] \in Values}

CreatedBy(p) == {k \in Keys : p.op[k] = "create"}

\* ChangeService raises for an edited policy without dual ownership evidence.
\* Created policies have identifiers that nobody has used.
Calculable(p, s, own) ==
  \A k \in Keys :
    /\ p.op[k] # "keep" => Surface[k] = p.surface
    /\ p.op[k] = "create" => k \notin minted
    /\ p.op[k] \in {"update", "remove"} => k \in own /\ s.res[k] \in Values

DesiredState(p, s) ==
  [s EXCEPT !.res = [k \in Keys |->
     CASE p.op[k] = "keep"   -> s.res[k]
       [] p.op[k] = "remove" -> Absent
       [] OTHER              -> p.val[k]]]

ChangedKeys(c) == {k \in Keys : c.before.res[k] # c.after.res[k]}
RemovedKeys(c) == {k \in ChangedKeys(c) : c.after.res[k] = Absent}

-----------------------------------------------------------------------------
(* Building blocks.                                                         *)

\* Another coroutine of the same process runs only while this one awaits.
Turn(r) == \A q \in Runs \ {r} : Host[q] = Host[r] => at[q] \notin NoAwait

Goes(r, node) == Turn(r) /\ at' = [at EXCEPT ![r] = node]

\* BrowserSession.__aexit__, and a defect of it: it leaves without unlocking.
LeavesLocked(r) == UNCHANGED lock
Releases(r) == lock' = IF lock = r THEN None ELSE lock

\* AttendedRunAudit.finalize; a failed write leaves the run without manifest.
Finalizes(r, status) ==
  \/ audit' = [audit EXCEPT ![r] = status]
  \/ AuditFaults /\ UNCHANGED audit

Returns(r, outcome) ==
  Goes(r, "done") /\ result' = [result EXCEPT ![r] = outcome]

-----------------------------------------------------------------------------
(* preview                                                                  *)

\* record_plan_review: a plan-only package; no browser is involved.
RecordPlanReview(r) ==
  /\ at[r] = "new"
  /\ \/ Goes(r, "done")
        /\ audit' = [audit EXCEPT ![r] = "NO_CHANGE_REQUIRED"]
        /\ UNCHANGED result
     \/ /\ AuditFaults
        /\ \E a \in {"none", "open"} : audit' = [audit EXCEPT ![r] = a]
        /\ Returns(r, "error")
  /\ UNCHANGED <<calls, pending, lock, registry, google, clock, history>>

\* _approval_evidence
Expiry(start) == start + TTL

\* preview up to the opening of the browser session: the registry is loaded,
\* the run directory created and the group review recorded.  The time an
\* approval is good for counts from here.
Preview(r, p, l) ==
  /\ at[r] = "new"
  /\ \/ /\ Goes(r, "preview_open")
        /\ plan' = [plan EXCEPT ![r] = p]
        /\ live' = [live EXCEPT ![r] = l]
        /\ expiresAt' = [expiresAt EXCEPT ![r] = Expiry(clock)]
        /\ ownership' = [ownership EXCEPT ![r] = registry]
        /\ audit' = [audit EXCEPT ![r] = "open"]
        /\ UNCHANGED result
     \/ /\ \/ (RegistryFaults \/ AuditFaults) /\ UNCHANGED audit
           \/ AuditFaults /\ audit' = [audit EXCEPT ![r] = "open"]
        /\ Returns(r, "error")
        /\ UNCHANGED <<plan, live, expiresAt, ownership>>
  /\ UNCHANGED <<preview, observed, mutationStarted, completed, verified,
                 pending, lock, registry, google, clock, history>>

\* BrowserSession.__aenter__ takes run.lock or raises.
PreviewOpen(r) ==
  /\ at[r] = "preview_open"
  /\ \/ /\ lock = None
        /\ lock' = r
        /\ Goes(r, "preview_read")
        /\ UNCHANGED <<result, audit>>
     \/ /\ lock # None
        /\ Returns(r, "error")
        /\ Finalizes(r, "FAILED_UNCHANGED")
        /\ UNCHANGED lock
  /\ UNCHANGED <<calls, pending, registry, google, clock, history>>

\* The read, and the calculation that follows it.
PreviewRead(r) ==
  LET s == View(plan[r].surface, Snapshot(plan[r].surface, ownership[r]))
  IN /\ at[r] = "preview_read"
     /\ Readable(Snapshot(plan[r].surface, ownership[r]))
     /\ Calculable(plan[r], s, ownership[r])
     /\ Goes(r, "preview_close")
     /\ observed' = [observed EXCEPT ![r] = s]
     /\ minted' = minted \cup CreatedBy(plan[r])
     /\ UNCHANGED <<plan, live, preview, expiresAt, ownership, mutationStarted,
                    completed, verified, pending, result, audit, lock, registry,
                    google, clock, approved, saved, committed>>

\* The session closes and the evidence is recorded; a live preview with
\* mutations waits for its approval, every other one is finalized.
PreviewClose(r) ==
  LET c == [plan |-> plan[r], before |-> observed[r],
            after |-> DesiredState(plan[r], observed[r])]
  IN /\ at[r] = "preview_close"
     /\ Releases(r)
     /\ \/ /\ preview' = [preview EXCEPT ![r] = c]
           /\ \/ /\ live[r] /\ ChangedKeys(c) # {}
                 /\ Goes(r, "previewed")
                 /\ pending' = pending \cup {r}
                 /\ UNCHANGED <<audit, result>>
              \/ /\ ~(live[r] /\ ChangedKeys(c) # {})
                 /\ Goes(r, "done")
                 /\ audit' = [audit EXCEPT ![r] =
                       IF ChangedKeys(c) = {} THEN "NO_CHANGE_REQUIRED"
                                              ELSE "DRY_RUN_PREVIEW_READY"]
                 /\ UNCHANGED <<pending, result>>
        \/ /\ AuditFaults
           /\ Returns(r, "error")
           /\ UNCHANGED <<preview, pending, audit>>
     /\ UNCHANGED <<plan, live, expiresAt, ownership, observed,
                    mutationStarted, completed, verified, registry, google,
                    clock, history>>

\* Any exception inside the preview's session, its closing included.
PreviewFails(r) ==
  /\ at[r] \in {"preview_read", "preview_close"}
  /\ Returns(r, "error")
  /\ Releases(r)
  /\ Finalizes(r, "FAILED_UNCHANGED")
  /\ UNCHANGED <<calls, pending, registry, google, clock, history>>

-----------------------------------------------------------------------------
(* cancel and execute                                                       *)

\* PendingAttendedRuns.discard, and a defect of it: the approval stays usable.
KeepsApproval(r) == UNCHANGED pending
Discards(r) == pending' = pending \ {r}

\* cancel
Cancel(r) ==
  /\ r \in pending
  /\ Discards(r)
  /\ Returns(r, "rejected")
  /\ Finalizes(r, "CONFIRMATION_REJECTED")
  /\ UNCHANGED <<calls, lock, registry, google, clock, history>>

\* execute with the acknowledgement and the right phrase: the approval is
\* consumed before anything else happens.
Execute(r) ==
  /\ r \in pending
  /\ Discards(r)
  /\ \/ /\ clock >= expiresAt[r]
        /\ Returns(r, "rejected")
        /\ Finalizes(r, "CONFIRMATION_REJECTED")
        /\ UNCHANGED approved
     \/ /\ clock < expiresAt[r]
        /\ Goes(r, "load")
        /\ approved' = approved \cup {r}
        /\ UNCHANGED <<result, audit>>
  /\ UNCHANGED <<calls, lock, registry, google, clock, minted, saved,
                 committed>>

\* The registry is loaded outside the try statement that finalizes the audit.
LoadOwnership(r) ==
  /\ at[r] = "load"
  /\ \/ /\ Goes(r, "open")
        /\ ownership' = [ownership EXCEPT ![r] = registry]
        /\ UNCHANGED result
     \/ /\ RegistryFaults
        /\ Returns(r, "error")
        /\ UNCHANGED ownership
  /\ UNCHANGED <<plan, live, preview, expiresAt, observed, mutationStarted,
                 completed, verified, pending, audit, lock, registry, google,
                 clock, history>>

Open(r) ==
  /\ at[r] = "open"
  /\ \/ /\ lock = None
        /\ lock' = r
        /\ Goes(r, "fresh_read")
        /\ UNCHANGED <<result, audit>>
     \/ /\ lock # None
        /\ Returns(r, "error")
        /\ Finalizes(r, "FAILED_UNCHANGED")
        /\ UNCHANGED lock
  /\ UNCHANGED <<calls, pending, registry, google, clock, history>>

\* _fresh_read
FreshRead(r) ==
  LET expected == Snapshot(plan[r].surface, ownership[r])
  IN /\ at[r] = "fresh_read"
     /\ Readable(expected)
     /\ Goes(r, "permit")
     /\ observed' = [observed EXCEPT ![r] = View(plan[r].surface, expected)]
     /\ UNCHANGED <<plan, live, preview, expiresAt, ownership, mutationStarted,
                    completed, verified, pending, result, audit, lock,
                    registry, google, clock, history>>

\* The drift check, and a defect of it: the fresh state is not compared.
AnyStateIsFresh(r) == observed[r] # None
StillFresh(r) == observed[r] = preview[r].before

\* On drift the run ends; closing the session may still raise.
Drifts(r) ==
  /\ at[r] = "permit"
  /\ ~StillFresh(r)
  /\ Releases(r)
  /\ \/ /\ \E o \in {"drifted", "error"} : Returns(r, o)
        /\ audit' = [audit EXCEPT ![r] = "CONFIRMATION_REJECTED"]
     \/ /\ AuditFaults
        /\ Returns(r, "error")
        /\ Finalizes(r, "FAILED_UNCHANGED")
  /\ UNCHANGED <<calls, pending, registry, google, clock, history>>

\* A permit is made out for the one policy that the previewed change is about,
\* the driver accepts it, and the write begins.
IssuePermit(r) ==
  /\ at[r] = "permit"
  /\ StillFresh(r)
  /\ Cardinality(ChangedKeys(preview[r])) = 1
  /\ Goes(r, "applying")
  /\ mutationStarted' = [mutationStarted EXCEPT ![r] = TRUE]
  /\ UNCHANGED <<plan, live, preview, expiresAt, ownership, observed,
                 completed, verified, pending, result, audit, lock, registry,
                 google, clock, history>>

\* The browser agent presses a commit control.  The policy on the page is the
\* approved one, but nothing checks what the model filled in.
SavePolicy(r, k, v) ==
  /\ at[r] = "applying"
  /\ Turn(r)
  /\ k \in ChangedKeys(preview[r])
  /\ google' = [google EXCEPT ![k] = v]
  /\ saved' = saved \cup {r}
  /\ UNCHANGED <<at, calls, pending, result, audit, lock, registry, clock,
                 minted, approved, committed>>

\* apply_blocked_sender_change and apply_content_compliance_change return: the
\* model said that every goal is complete, or one ran out of steps.
ApplyReturns(r, ok) ==
  /\ at[r] = "applying"
  /\ Goes(r, "verification_read")
  /\ completed' = [completed EXCEPT ![r] = ok]
  /\ UNCHANGED <<plan, live, preview, expiresAt, ownership, observed,
                 mutationStarted, verified, pending, result, audit, lock,
                 registry, google, clock, history>>

\* _verification_read expects the policies of the desired state.
VerificationRead(r) ==
  LET expected == ManagedKeys(preview[r].after)
  IN /\ at[r] = "verification_read"
     /\ Readable(expected)
     /\ Goes(r, "close")
     /\ observed' = [observed EXCEPT ![r] = View(plan[r].surface, expected)]
     /\ UNCHANGED <<plan, live, preview, expiresAt, ownership, mutationStarted,
                    completed, verified, pending, result, audit, lock,
                    registry, google, clock, history>>

\* The comparison with the desired state, and a defect of it: the browser
\* agent's word is taken for it.
AgentIsBelieved(r) == completed[r]
ReadBackMatches(r) == completed[r] /\ observed[r] = preview[r].after

\* The session closes and run.lock is free before the registry is committed.
Close(r) ==
  /\ at[r] = "close"
  /\ Releases(r)
  /\ verified' = [verified EXCEPT ![r] = ReadBackMatches(r)]
  /\ Goes(r, IF ReadBackMatches(r) THEN "commit" ELSE "finalize")
  /\ UNCHANGED <<plan, live, preview, expiresAt, ownership, observed,
                 mutationStarted, completed, pending, result, audit, registry,
                 google, clock, history>>

\* Any exception inside the session of an execution, and a defect of its
\* handler: the audit always says that nothing changed.
AlwaysUnchanged(r) == "FAILED_UNCHANGED"
FailureStatus(r) ==
  IF mutationStarted[r] THEN "INDETERMINATE" ELSE "FAILED_UNCHANGED"

ExecuteFails(r) ==
  /\ at[r] \in {"fresh_read", "permit", "applying", "verification_read",
               "close"}
  /\ at[r] = "permit" =>
       StillFresh(r) /\ Cardinality(ChangedKeys(preview[r])) # 1
  /\ Returns(r, "error")
  /\ Releases(r)
  /\ Finalizes(r, FailureStatus(r))
  /\ UNCHANGED <<calls, pending, registry, google, clock, history>>

\* _commit_ownership builds the registry from the one this call loaded, and a
\* defect of it: records of removed policies stay.
KeepsRemovedRecords(r) == ownership[r] \cup ManagedKeys(preview[r].after)
CommittedRegistry(r) ==
  (ownership[r] \ RemovedKeys(preview[r])) \cup ManagedKeys(preview[r].after)

\* A save that raises leaves the old file (it replaces it atomically).
CommitOwnership(r) ==
  /\ at[r] = "commit"
  /\ \/ /\ registry' = CommittedRegistry(r)
        /\ committed' = committed \cup {r}
        /\ Goes(r, "finalize")
        /\ UNCHANGED <<result, audit>>
     \/ /\ RegistryFaults
        /\ \/ /\ Returns(r, "recovery_required")
              /\ audit' = [audit EXCEPT ![r] = "INDETERMINATE"]
           \/ /\ AuditFaults
              /\ Returns(r, "error")
              /\ UNCHANGED audit
        /\ UNCHANGED <<registry, committed>>
  /\ UNCHANGED <<calls, pending, lock, google, clock, minted, approved, saved>>

\* The end of execute.
FinalizeExecution(r) ==
  /\ at[r] = "finalize"
  /\ \/ /\ audit' = [audit EXCEPT ![r] =
              IF verified[r] THEN "APPLIED_UI_VERIFIED" ELSE "INDETERMINATE"]
        /\ Returns(r, IF verified[r] THEN "completed"
                                     ELSE "verification_failed")
     \/ /\ AuditFaults
        /\ Returns(r, "recovery_required")
        /\ UNCHANGED audit
  /\ UNCHANGED <<calls, pending, lock, registry, google, clock, history>>

-----------------------------------------------------------------------------
(* The rest of the world.                                                   *)

\* A process ends: its coroutines and approvals are gone, its lock is free.
Crash(p) ==
  LET hosted == {r \in Runs : Host[r] = p}
  IN /\ \E r \in hosted : at[r] \notin {"new", "done"}
     /\ at' = [r \in Runs |-> IF r \in hosted /\ at[r] # "new" THEN "done"
                                                              ELSE at[r]]
     /\ pending' = pending \ hosted
     /\ lock' = IF lock \in hosted THEN None ELSE lock
     /\ UNCHANGED <<calls, result, audit, registry, google, clock, history>>

Tick ==
  /\ clock < MaxTime
  /\ clock' = clock + 1
  /\ UNCHANGED <<at, calls, pending, result, audit, lock, registry, google,
                 history>>

\* Another administrator edits or removes a policy, or puts it back.
ExternalEdit(k, v) ==
  /\ k \in minted
  /\ google' = [google EXCEPT ![k] = v]
  /\ UNCHANGED <<at, calls, pending, result, audit, lock, registry, clock,
                 history>>

\* What a coroutine does by itself.
Step(r) ==
  \/ PreviewOpen(r) \/ PreviewRead(r) \/ PreviewClose(r) \/ PreviewFails(r)
  \/ LoadOwnership(r) \/ Open(r) \/ FreshRead(r) \/ Drifts(r) \/ IssuePermit(r)
  \/ VerificationRead(r) \/ Close(r)
  \/ \E ok \in BOOLEAN : ApplyReturns(r, ok)
  \/ ExecuteFails(r) \/ CommitOwnership(r) \/ FinalizeExecution(r)

Request(r) ==
  \/ RecordPlanReview(r)
  \/ \E p \in TaskPlans, l \in BOOLEAN : Preview(r, p, l)
  \/ Cancel(r)
  \/ Execute(r)

Next ==
  \/ \E r \in Runs : Step(r) \/ Request(r)
  \/ \E r \in Runs, k \in Keys, v \in Existing : SavePolicy(r, k, v)
  \/ \E p \in Processes : Crash(p)
  \/ Tick
  \/ \E e \in ExternalEdits : ExternalEdit(e[1], e[2])

Spec == Init /\ [][Next]_vars

\* Every awaited browser or model call ends; nobody has to make a request.
FairSpec == Spec /\ \A r \in Runs : WF_vars(Step(r))

-----------------------------------------------------------------------------
(* Properties.                                                              *)

\* Every variable keeps the type of the attribute or file it stands for.
TypeOK ==
  /\ at \in [Runs -> Nodes]
  /\ plan \in [Runs -> TaskPlan \cup {None}]
  /\ live \in [Runs -> BOOLEAN]
  /\ preview \in [Runs -> PolicyPreview \cup {None}]
  /\ expiresAt \in [Runs -> 0..(MaxTime + TTL) \cup {None}]
  /\ pending \in SUBSET Runs
  /\ ownership \in [Runs -> SUBSET Keys]
  /\ observed \in [Runs -> Observation \cup {None}]
  /\ mutationStarted \in [Runs -> BOOLEAN]
  /\ completed \in [Runs -> BOOLEAN]
  /\ verified \in [Runs -> BOOLEAN]
  /\ result \in [Runs -> Results \cup {None}]
  /\ audit \in [Runs -> AuditStatus]
  /\ lock \in Runs \cup {None}
  /\ registry \in SUBSET Keys
  /\ google \in [Keys -> Existing]
  /\ clock \in 0..MaxTime
  /\ minted \in SUBSET Keys
  /\ approved \in SUBSET Runs
  /\ saved \in SUBSET Runs
  /\ committed \in SUBSET Runs

\* docs/operator-console.md: "A failure before mutation is finalized as
\* unchanged; an exception after a commit sequence begins is finalized as
\* indeterminate".  A manifest that says that nothing changed is right about
\* it, whatever failed, drifted, expired or was cancelled.
ManifestIsHonest ==
  \A r \in Runs : audit[r] \notin {"none", "open", "INDETERMINATE",
                                   "APPLIED_UI_VERIFIED"} => r \notin saved

\* A caller that is told "completed" finds a manifest that says so, and such a
\* manifest means that the operator approved, that the desired state was the
\* last thing read from Google and that the registry was committed for it.
CompletedIsVerified ==
  \A r \in Runs :
    /\ result[r] = "completed" => audit[r] = "APPLIED_UI_VERIFIED"
    /\ audit[r] = "APPLIED_UI_VERIFIED" =>
         r \in committed /\ r \in approved /\ observed[r] = preview[r].after

\* run.lock belongs to the one run that has a browser session, on every way out
\* of it; an approval waits for exactly the runs that ended their preview with
\* one, so it is answered, by execute or by cancel, at most once.
SessionsAndApprovals ==
  /\ \A r \in Runs : lock = r <=> at[r] \in InSession
  /\ \A r \in Runs : r \in pending <=> at[r] = "previewed"

\* docs/operator-console.md: "Ownership snapshots are updated only after exact
\* browser read-back verification."  A commit leaves exactly the records of the
\* approved policies that were read back, and no record of any other policy
\* comes or goes with it.  The registry is loaded before the lock is taken and
\* committed after it is released, so this holds within one process only.
RegistryFollowsReadBack ==
  [][registry' # registry \/ committed' # committed =>
       \E r \in approved :
         /\ at[r] = "commit"
         /\ \A k \in Keys :
              k \in registry' <=> IF k \in ChangedKeys(preview[r])
                                    THEN observed[r].res[k] \in Values
                                    ELSE k \in registry]_vars

\* Every preview and every execution ends, and lets go of the browser lock.
CallsEnd ==
  \A r \in Runs :
    /\ lock = r ~> lock # r
    /\ at[r] \notin {"new", "previewed", "done"} ~>
         at[r] \in {"previewed", "done"}

-----------------------------------------------------------------------------
(* One run as an ApprovalGate with a single grant.                          *)

ReportedOutcome ==
  CASE result[Watched] = None -> None
    [] result[Watched] \in {"drifted", "rejected"} -> "refused"
    [] result[Watched] = "completed" -> "applied"
    [] OTHER -> "other"

Offered  == IF preview[Watched] = None THEN {} ELSE {preview[Watched]}
Approved == IF Watched \in approved THEN Offered ELSE {}
Granted  == IF mutationStarted[Watched] THEN preview[Watched] ELSE None
Grants   == IF mutationStarted[Watched] THEN 1 ELSE 0

\* The registry is seen as far as this run changed it.
Recorded == IF Watched \in committed THEN Watched ELSE None

Gate == INSTANCE ApprovalGate WITH
  Changes   <- PolicyPreview, States <- Observation,
  Registries <- {None, Watched},
  MaxGrants <- 1,
  seen      <- observed[Watched],
  offered   <- Offered,
  approved  <- Approved,
  granted   <- Granted,
  grants    <- Grants,
  registry  <- Recorded,
  outcome   <- ReportedOutcome

\* Every attended run keeps every promise of ApprovalGate.
ImplementsGate == Gate!Spec

=============================================================================
