-------------------------- MODULE ConsoleCoordinator --------------------------
(***************************************************************************)
(* The attended console of src/compliance_agent/console: ConsoleCoordinator *)
(* moves every run through its phases on one event loop, ApprovalService    *)
(* keeps the short-lived approvals, ConsoleRunJournal the projections that  *)
(* survive a restart, ProcessLock keeps two browsers apart, and             *)
(* InjectedLiveRunner drives one ComplianceWorkflow per approved run.       *)
(*                                                                         *)
(* A handler runs without interruption up to its next await; everything    *)
(* another request, a restart, another process or another administrator    *)
(* does falls between two awaits.  A change is represented by the state it *)
(* starts from and the ownership identifiers minted for what it creates.   *)
(* The workflow of a live run is represented by its outcomes; what happens *)
(* inside it is ComplianceWorkflow.                                        *)
(***************************************************************************)
EXTENDS Naturals

CONSTANTS
  Runs,          \* console run identifiers
  None,          \* Python's None
  States,        \* Google states a reader may return
  TTL,           \* approval_ttl_seconds, in ticks of the clock
  MaxTime,       \* bound on the clock
  MaxMint,       \* bound on how often identifiers are minted
  JournalFaults  \* may ConsoleRunJournal.save raise OSError?

Modes    == {"plan_only", "dry_run", "live"}
Plans    == {"edit", "create"}   \* "create": the plan needs new identifiers
Phases   == {"planning", "plan_ready", "preflight", "preview_ready",
             "awaiting_approval", "executing", "completed", "blocked",
             "cancelled", "interrupted"}
Change   == [before : States, ids : 0..MaxMint]

ConsoleRun == [mode : Modes, phase : Phases, plan : Plans \cup {None},
               preview : Change \cup {None}]
PendingApproval == [change : Change, expires : 0..(MaxTime + TTL)]

OtherProcess == "other process"   \* as the owner of run.lock

ASSUME ConsoleAssumption ==
  /\ None \notin Runs
  /\ OtherProcess \notin Runs
  /\ None \notin Plans
  /\ None \notin Change
  /\ None \notin ConsoleRun
  /\ None \notin PendingApproval
  /\ TTL \in Nat \ {0}
  /\ MaxTime \in Nat
  /\ MaxMint \in Nat
  /\ JournalFaults \in BOOLEAN

\* _ALLOWED_TRANSITIONS (RunPhase.VERIFYING is declared but never entered), and a
\* defect of it: an execution cannot be interrupted.
NoInterruption ==
  [p \in Phases |->
     CASE p = "planning"   -> {"plan_ready", "blocked", "cancelled"}
       [] p = "plan_ready" -> {"preflight", "blocked", "cancelled"}
       [] p = "preflight"  -> {"preview_ready", "awaiting_approval", "blocked",
                               "cancelled"}
       [] p = "awaiting_approval" -> {"plan_ready", "executing", "blocked",
                                      "cancelled"}
       [] p = "executing"  -> {"completed", "blocked"}
       [] OTHER            -> {}]

AllowedTransitions ==
  [p \in Phases |->
     CASE p = "planning"   -> {"plan_ready", "blocked", "cancelled"}
       [] p = "plan_ready" -> {"preflight", "blocked", "cancelled"}
       [] p = "preflight"  -> {"preview_ready", "awaiting_approval", "blocked",
                               "cancelled"}
       [] p = "awaiting_approval" -> {"plan_ready", "executing", "blocked",
                                      "cancelled"}
       [] p = "executing"  -> {"completed", "blocked", "interrupted"}
       [] OTHER            -> {}]

BrowserActive == {"preflight", "awaiting_approval", "executing"}

VARIABLES
  mode,     \* settings.run_mode
  caps,     \* what resolve_capabilities found: "none", "preview" or "live"
  runs,     \* ConsoleCoordinator._runs
  pending,  \* ApprovalService._pending
  journal,  \* console-runs.json
  call,     \* the await a run's coroutine is in, and the change it carries
  lock,     \* owner of run.lock
  clock,
  google,   \* the Workspace state
  minted,   \* how often identifiers were minted
  \* history
  used,     \* run identifiers that were ever created
  shown,    \* runs whose approval form was rendered
  wrote,    \* runs whose live workflow saved something
  refused   \* runs whose approval the live workflow found stale although the
            \* state it read is the approved one

settings == <<mode, caps>>
world    == <<clock, google, minted>>
history  == <<used, shown, wrote, refused>>
vars == <<settings, runs, pending, journal, call, lock, world, history>>

Calls == {"idle", "planner", "preview", "preview_read", "live", "confirmed",
          "writing"}
Idle  == [at |-> "idle", change |-> None]

\* resolve_capabilities fails closed: less than the mode allows is possible.
Capabilities(m) ==
  CASE m = "plan_only" -> {"none"}
    [] m = "dry_run"   -> {"none", "preview"}
    [] OTHER           -> {"none", "live"}

Init ==
  /\ mode \in Modes
  /\ caps \in Capabilities(mode)
  /\ runs = [r \in Runs |-> None]
  /\ pending = [r \in Runs |-> None]
  /\ journal = [r \in Runs |-> None]
  /\ call = [r \in Runs |-> Idle]
  /\ lock = None
  /\ clock = 0
  /\ google \in States
  /\ minted = 0
  /\ used = {}
  /\ shown = {}
  /\ wrote = {}
  /\ refused = {}

-----------------------------------------------------------------------------
(* Building blocks.                                                         *)

Exists(r) == runs[r] # None
InPhase(r, p) == Exists(r) /\ runs[r].phase = p

\* active_browser_run and _require_browser_slot, and a defect of it: a run that
\* waits for its approval does not count.
OpenBrowserRuns ==
  {r \in Runs : Exists(r) /\ runs[r].phase \in {"preflight", "executing"}}

ActiveRuns == {r \in Runs : Exists(r) /\ runs[r].phase \in BrowserActive}

Advanced(run, phase) == [run EXCEPT !.phase = phase]
MayAdvance(r, phase) == Exists(r) /\ phase \in AllowedTransitions[runs[r].phase]

\* Store a run and save all of them (_save).  A step that saves several times
\* names the earlier versions of the run: a save that fails leaves the file as
\* the last successful one wrote it.
StoresLast(r, earlier, run) ==
  /\ runs' = [runs EXCEPT ![r] = run]
  /\ \/ journal' = runs'
     \/ JournalFaults /\ UNCHANGED journal
     \/ JournalFaults /\ \E v \in earlier : journal' = [runs EXCEPT ![r] = v]

Stores(r, run) == StoresLast(r, {}, run)

\* _advance: a move the table does not allow raises and changes nothing.
Advances(r, run) ==
  IF MayAdvance(r, run.phase)
    THEN Stores(r, run)
    ELSE UNCHANGED <<runs, journal>>

Returns(r) == call' = [call EXCEPT ![r] = Idle]
Awaits(r, at, change) ==
  call' = [call EXCEPT ![r] = [at |-> at, change |-> change]]

Releases == lock' = None

\* ChangeService.calculate: new identifiers whenever the plan creates something.
FreshIds(plan) == IF plan = "create" THEN minted + 1 ELSE 0
Mints(plan) ==
  /\ plan = "create" => minted < MaxMint
  /\ minted' = IF plan = "create" THEN minted + 1 ELSE minted

-----------------------------------------------------------------------------
(* Planning.                                                                *)

\* start and schedule_planning (POST /runs)
Start(r) ==
  /\ r \notin used
  /\ used' = used \cup {r}
  /\ Stores(r, [mode |-> mode, phase |-> "planning", plan |-> None,
                preview |-> None])
  /\ Awaits(r, "planner", None)
  /\ UNCHANGED <<settings, pending, lock, world, shown, wrote, refused>>

\* create_from_plan: a typed form, no model involved.
CreateFromPlan(r, plan) ==
  /\ r \notin used
  /\ used' = used \cup {r}
  /\ Stores(r, [mode |-> mode, phase |-> "plan_ready", plan |-> plan,
                preview |-> None])
  /\ UNCHANGED <<settings, pending, call, lock, world, shown, wrote, refused>>

\* plan, after create_plan returned or raised: a run that was cancelled in the
\* meantime is left alone.
PlanFinish(r, plan) ==
  /\ call[r].at = "planner"
  /\ Returns(r)
  /\ IF InPhase(r, "planning")
       THEN Advances(r, [Advanced(runs[r], IF plan = None THEN "blocked"
                                                          ELSE "plan_ready")
                           EXCEPT !.plan = plan])
       ELSE UNCHANGED <<runs, journal>>
  /\ UNCHANGED <<settings, pending, lock, world, history>>

-----------------------------------------------------------------------------
(* Preview.                                                                 *)

\* POST /runs/{id}/preview up to the first await.  promote_plan adopts the
\* selected mode even when the browser slot is then refused; without the
\* process lock the run is blocked at once.
Preview(r) ==
  LET promoted == [runs[r] EXCEPT !.mode = mode]
      first    == IF runs[r].mode # mode THEN {promoted} ELSE {}
      cleared  == [Advanced(promoted, "preflight") EXCEPT !.preview = None]
  IN /\ InPhase(r, "plan_ready")
     /\ mode # "plan_only" /\ caps # "none"
     /\ \/ /\ ActiveRuns \ {r} # {}
           /\ runs[r].mode # mode
           /\ Stores(r, promoted)
           /\ UNCHANGED <<call, lock>>
        \/ /\ ActiveRuns \ {r} = {}
           /\ lock # None
           /\ StoresLast(r, first \cup {cleared}, Advanced(cleared, "blocked"))
           /\ UNCHANGED <<call, lock>>
        \/ /\ ActiveRuns \ {r} = {}
           /\ lock = None
           /\ lock' = r
           /\ StoresLast(r, first, cleared)
           /\ Awaits(r, "preview", None)
     /\ UNCHANGED <<settings, pending, world, history>>

\* DryRunService.preview reads Google and calculates the change.
PreviewRead(r) ==
  /\ call[r].at = "preview"
  /\ Mints(runs[r].plan)
  /\ Awaits(r, "preview_read",
            [before |-> google, ids |-> FreshIds(runs[r].plan)])
  /\ UNCHANGED <<settings, runs, pending, journal, lock, clock, google,
                 history>>

\* ApprovalService.issue
Issues(r, change) ==
  pending' = [pending EXCEPT ![r] = [change |-> change, expires |-> clock + TTL]]

\* The rest of preview: a late result for a run that was cancelled is discarded.
PreviewFinish(r, status) ==
  /\ call[r].at \in {"preview", "preview_read"}
  /\ status # "blocked" => call[r].at = "preview_read"
  /\ Releases
  /\ Returns(r)
  /\ IF InPhase(r, "preflight")
       THEN LET phase == CASE status = "blocked" -> "blocked"
                           [] status = "preview_ready" /\ runs[r].mode = "live"
                                -> "awaiting_approval"
                           [] OTHER -> "preview_ready"
            IN /\ Advances(r, [Advanced(runs[r], phase) EXCEPT
                                 !.preview = IF status = "blocked"
                                               THEN None ELSE call[r].change])
               /\ IF phase = "awaiting_approval"
                    THEN Issues(r, call[r].change)
                    ELSE UNCHANGED pending
       ELSE UNCHANGED <<runs, journal, pending>>
  /\ UNCHANGED <<settings, world, history>>

-----------------------------------------------------------------------------
(* Approval and cancellation.                                               *)

\* ApprovalService: an envelope that can still be consumed.
Valid(r) == pending[r] # None /\ clock < pending[r].expires
Forgets(r) == pending' = [pending EXCEPT ![r] = None]

\* GET /runs/{id}: pending_approval takes an expired approval back to
\* plan_ready, otherwise the page shows the change with its approval form.
RunDetail(r) ==
  /\ InPhase(r, "awaiting_approval")
  /\ IF Valid(r)
       THEN /\ shown' = shown \cup {r}
            /\ UNCHANGED <<runs, journal, pending>>
       ELSE /\ Forgets(r)
            /\ Advances(r, [Advanced(runs[r], "plan_ready")
                              EXCEPT !.preview = None])
            /\ UNCHANGED shown
  /\ UNCHANGED <<settings, call, lock, world, used, wrote, refused>>

\* cancel, and a defect of it: the approval survives the cancellation.
CancelsRunOnly(r) ==
  /\ MayAdvance(r, "cancelled")
  /\ Stores(r, Advanced(runs[r], "cancelled"))
  /\ UNCHANGED <<settings, pending, call, lock, world, history>>

Cancel(r) ==
  /\ MayAdvance(r, "cancelled")
  /\ Forgets(r)
  /\ Stores(r, Advanced(runs[r], "cancelled"))
  /\ UNCHANGED <<settings, call, lock, world, history>>

\* POST /runs/{id}/approve from a page with the form, maybe that of an earlier
\* preview.  The request carries the phrase, which is the same for every preview
\* of the run, and no hash; the envelope is consumed before anything else
\* happens.
Approve(r) ==
  /\ InPhase(r, "awaiting_approval")
  /\ mode = "live" /\ caps = "live"
  /\ r \in shown
  /\ Forgets(r)
  /\ \/ /\ ~Valid(r)
        /\ UNCHANGED <<runs, journal, call, lock>>
     \/ /\ Valid(r) /\ lock = None
        /\ lock' = r
        /\ Advances(r, Advanced(runs[r], "executing"))
        /\ Awaits(r, "live", pending[r].change)
     \/ /\ Valid(r) /\ lock # None
        /\ StoresLast(r, {Advanced(runs[r], "executing")},
                      Advanced(runs[r], "interrupted"))
        /\ UNCHANGED <<call, lock>>
  /\ UNCHANGED <<settings, world, used, shown, wrote, refused>>

-----------------------------------------------------------------------------
(* The live run (InjectedLiveRunner.execute, then the end of approve).      *)

\* The phase approve gives a finished live run.
PhaseOf(status) ==
  CASE status \in {"PARTIALLY_APPLIED", "INDETERMINATE"} -> "interrupted"
    [] status \in {"CONFIRMATION_REJECTED", "FAILED_UNCHANGED", "UNSUPPORTED"}
         -> "blocked"
    [] OTHER -> "completed"

Ends(r, phase) ==
  /\ Releases
  /\ Returns(r)
  /\ Advances(r, Advanced(runs[r], phase))

\* The workflow fails before it can ask for a confirmation, or finds that
\* nothing is left to change: its one output is returned.
LiveEndsEarly(r, status) ==
  /\ call[r].at = "live"
  /\ Ends(r, PhaseOf(status))
  /\ UNCHANGED <<settings, pending, world, history>>

\* The hashes of the approval and of the change, and a defect of the comparison:
\* the before-state is not compared.
BeforeStateIsIgnored(approved, computed) == approved.ids = computed.ids
ApprovalMatches(approved, computed) == approved = computed

\* The workflow reads Google, computes the change anew and compares its hashes
\* with the approval (ConfirmationExecutor.resume).
LiveConfirm(r) ==
  LET approved == call[r].change
      computed == [before |-> google, ids |-> FreshIds(runs[r].plan)]
  IN /\ call[r].at = "live"
     /\ Mints(runs[r].plan)
     /\ IF ApprovalMatches(approved, computed)
          THEN /\ Awaits(r, "confirmed", computed)
               /\ UNCHANGED <<runs, journal, lock, refused>>
          ELSE /\ Ends(r, PhaseOf("FAILED_UNCHANGED"))
               /\ refused' = IF google = approved.before
                               THEN refused \cup {r} ELSE refused
     /\ UNCHANGED <<settings, pending, clock, google, used, shown, wrote>>

\* The pre-write read.  A drift makes the workflow ask for a second
\* confirmation, which the runner cannot answer: it raises.
LiveReRead(r) ==
  /\ call[r].at = "confirmed"
  /\ IF google = call[r].change.before
       THEN /\ Awaits(r, "writing", call[r].change)
            /\ UNCHANGED <<runs, journal, lock>>
       ELSE Ends(r, "interrupted")
  /\ UNCHANGED <<settings, pending, world, history>>

\* The writer saves (some of) the change.
LiveWrite(r, s) ==
  /\ call[r].at = "writing"
  /\ google' = s
  /\ wrote' = wrote \cup {r}
  /\ UNCHANGED <<settings, runs, pending, journal, call, lock, clock, minted,
                 used, shown, refused>>

\* The workflow yields its result.  That FAILED_UNCHANGED excludes a save is
\* ComplianceWorkflow!UnchangedIsHonest.
LiveFinish(r, status) ==
  /\ call[r].at = "writing"
  /\ status = "FAILED_UNCHANGED" => r \notin wrote
  /\ Ends(r, PhaseOf(status))
  /\ UNCHANGED <<settings, pending, world, history>>

\* An exception leaves the workflow or the composition of its runtime.
LiveRaise(r) ==
  /\ call[r].at \in {"live", "confirmed", "writing"}
  /\ Ends(r, "interrupted")
  /\ UNCHANGED <<settings, pending, world, history>>

-----------------------------------------------------------------------------
(* Reconfiguration, restart and the rest of the world.                      *)

\* POST /setup/run-mode and configure_execution
ConfigureMode(m, c) ==
  /\ ActiveRuns = {}
  /\ c \in Capabilities(m)
  /\ mode' = m
  /\ caps' = c
  /\ UNCHANGED <<runs, pending, journal, call, lock, world, history>>

\* _restore_run, and a defect of it: an execution is taken for an approval
\* that merely expired.
RestoresAsPlanned(run) ==
  CASE run = None -> None
    [] run # None /\ run.phase \in {"planning", "preflight"} ->
         Advanced(run, "blocked")
    [] run # None /\ run.phase \in {"awaiting_approval", "executing"} ->
         [Advanced(run, "plan_ready") EXCEPT !.preview = None]
    [] OTHER -> run

RestoredRun(run) ==
  CASE run = None -> None
    [] run # None /\ run.phase \in {"planning", "preflight"} ->
         Advanced(run, "blocked")
    [] run # None /\ run.phase = "awaiting_approval" ->
         [Advanced(run, "plan_ready") EXCEPT !.preview = None]
    [] run # None /\ run.phase = "executing" -> Advanced(run, "interrupted")
    [] OTHER -> run

\* The process ends and create_console_app builds a new one: approvals and
\* coroutines are gone, the operating system released the lock.
Restart ==
  /\ runs' = [r \in Runs |-> RestoredRun(journal[r])]
  /\ journal' = runs' \/ (JournalFaults /\ UNCHANGED journal)
  /\ pending' = [r \in Runs |-> None]
  /\ call' = [r \in Runs |-> Idle]
  /\ lock' = IF lock \in Runs THEN None ELSE lock
  /\ caps' \in Capabilities(mode)
  /\ UNCHANGED <<mode, world, history>>

Tick ==
  /\ clock < MaxTime
  /\ clock' = clock + 1
  /\ UNCHANGED <<settings, runs, pending, journal, call, lock, google, minted,
                 history>>

\* Another process of this installation takes or releases run.lock.
OtherLocks ==
  /\ lock \in {None, OtherProcess}
  /\ lock' = IF lock = None THEN OtherProcess ELSE None
  /\ UNCHANGED <<settings, runs, pending, journal, call, world, history>>

ExternalEdit(s) ==
  /\ google' = s
  /\ UNCHANGED <<settings, runs, pending, journal, call, lock, clock, minted,
                 history>>

\* The steps by which an awaited call ends.
CallEnds(r) ==
  \/ \E plan \in Plans \cup {None} : PlanFinish(r, plan)
  \/ \E status \in {"preview_ready", "no_change", "blocked"} :
       PreviewFinish(r, status)
  \/ \E status \in {"FAILED_UNCHANGED", "NO_CHANGE_REQUIRED", "UNSUPPORTED"} :
       LiveEndsEarly(r, status)
  \/ LiveReRead(r)
  \/ \E status \in {"APPLIED_PENDING_PROPAGATION", "PARTIALLY_APPLIED",
                    "INDETERMINATE", "FAILED_UNCHANGED"} :
       LiveFinish(r, status)
  \/ LiveRaise(r)

CallGoesOn(r) ==
  \/ PreviewRead(r)
  \/ LiveConfirm(r)
  \/ \E s \in States : LiveWrite(r, s)

Request(r) ==
  \/ Start(r)
  \/ \E plan \in Plans : CreateFromPlan(r, plan)
  \/ Preview(r)
  \/ RunDetail(r)
  \/ Cancel(r)
  \/ Approve(r)

Next ==
  \/ \E r \in Runs : Request(r) \/ CallGoesOn(r) \/ CallEnds(r)
  \/ \E m \in Modes, c \in {"none", "preview", "live"} : ConfigureMode(m, c)
  \/ Restart
  \/ Tick
  \/ OtherLocks
  \/ \E s \in States : ExternalEdit(s)

Spec == Init /\ [][Next]_vars

\* Every awaited call ends; nobody has to make a request.
FairSpec == Spec /\ \A r \in Runs : WF_vars(CallEnds(r))

-----------------------------------------------------------------------------
(* Properties.                                                              *)

\* Every variable keeps the type of the attribute or file it stands for.
TypeOK ==
  /\ mode \in Modes
  /\ caps \in {"none", "preview", "live"}
  /\ runs \in [Runs -> ConsoleRun \cup {None}]
  /\ pending \in [Runs -> PendingApproval \cup {None}]
  /\ journal \in [Runs -> ConsoleRun \cup {None}]
  /\ call \in [Runs -> [at : Calls, change : Change \cup {None}]]
  /\ lock \in Runs \cup {None, OtherProcess}
  /\ clock \in 0..MaxTime
  /\ google \in States
  /\ minted \in 0..MaxMint
  /\ used \in SUBSET Runs
  /\ shown \in SUBSET Runs
  /\ wrote \in SUBSET Runs
  /\ refused \in SUBSET Runs

\* An approval is alive only while its run waits for it, and it is for the
\* change the run shows: no cancellation, expiry, re-preview, restart or late
\* preview result leaves an approval behind that something else could consume.
ApprovalIsCurrent ==
  \A r \in Runs : pending[r] # None =>
    /\ InPhase(r, "awaiting_approval")
    /\ runs[r].preview = pending[r].change
    /\ runs[r].mode = "live"
    /\ call[r] = Idle

\* Only one run at a time is in a phase that needs the browser, and a browser
\* is open only for the owner of run.lock, even when the run it was opened for
\* has been cancelled.
BrowserIsExclusive ==
  /\ \A r, q \in Runs :
       /\ Exists(r) /\ runs[r].phase \in BrowserActive
       /\ Exists(q) /\ runs[q].phase \in BrowserActive
       => r = q
  /\ \A r \in Runs : call[r].at \notin {"idle", "planner"} <=> lock = r

\* The live runner saves only for a run that is executing, in live mode, and
\* only the change that the run's approved preview shows.
WritesThePreview ==
  \A r \in Runs : call[r].at = "writing" =>
    /\ InPhase(r, "executing")
    /\ runs[r].mode = "live"
    /\ call[r].change = runs[r].preview

\* A run that saved something is never shown as cancelled, blocked or merely
\* planned, and never disappears, restarts included.  Holds when every journal
\* save succeeds.
MutationIsNeverHidden ==
  \A r \in wrote :
    Exists(r) /\ runs[r].phase \in {"executing", "completed", "interrupted"}

\* Planning, previewing and executing all come to an end, whatever is
\* cancelled, restarted, locked or edited meanwhile.
RunsSettle ==
  \A r \in Runs :
    /\ InPhase(r, "planning") ~> ~InPhase(r, "planning")
    /\ InPhase(r, "preflight") ~> ~InPhase(r, "preflight")
    /\ InPhase(r, "executing") ~> ~InPhase(r, "executing")

\* domain/desired_state.py: identifiers are injected "so retries and tests
\* produce identical states".  The live workflow mints new ones, so what it
\* computes from the unchanged state is not what was approved.
UndriftedApprovalIsHonoured == refused = {}

=============================================================================
