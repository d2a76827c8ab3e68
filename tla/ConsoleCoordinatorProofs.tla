---------------------- MODULE ConsoleCoordinatorProofs ----------------------
(***************************************************************************)
(* Theorems about ConsoleCoordinator, for any number of runs and Google    *)
(* states, any approval lifetime, and whether or not journal saves fail.   *)
(***************************************************************************)
EXTENDS ConsoleCoordinator, TLAPS

(***************************************************************************)
(* The inductive invariant.  The coordinator keeps a run's phase, its      *)
(* coroutine, its approval and the process lock in four places that no     *)
(* transaction joins: Phased says which await a phase leaves room for,     *)
(* Carried what the awaiting coroutine holds, Journaled that no run        *)
(* identifier is handed out twice.                                         *)
(***************************************************************************)
LiveCalls    == {"live", "confirmed", "writing"}
PreviewCalls == {"preview", "preview_read"}

CallsOf(phase) ==
  CASE phase = "planning"  -> {"planner"}
    [] phase = "preflight" -> PreviewCalls
    [] phase = "executing" -> LiveCalls
    [] phase = "cancelled" -> {"idle", "planner"} \cup PreviewCalls
    [] OTHER               -> {"idle"}

Phased ==
  \A r \in Runs :
    /\ Exists(r) => call[r].at \in CallsOf(runs[r].phase)
    /\ ~Exists(r) => call[r].at = "idle"

Carried ==
  \A r \in Runs :
    /\ call[r].at = "idle" => call[r] = Idle
    /\ call[r].at = "preview_read" => call[r].change # None
    /\ call[r].at \in LiveCalls =>
         /\ call[r].change # None
         /\ call[r].change = runs[r].preview
         /\ runs[r].mode = "live"

Journaled ==
  \A r \in Runs \ used : runs[r] = None /\ journal[r] = None

Structure == Phased /\ Carried /\ Journaled
IInv == TypeOK /\ Structure /\ ApprovalIsCurrent /\ BrowserIsExclusive

USE DEF settings, world, history

(***************************************************************************)
(* A step of one run r: its record becomes run, its coroutine c, its       *)
(* approval p and the lock l.  Fits is what these four owe each other, and *)
(* it is all a handler has to establish for the invariant to survive.      *)
(***************************************************************************)
Held == [at : Calls, change : Change \cup {None}]

RunStep(r, run, c, p, l) ==
  /\ runs' = [runs EXCEPT ![r] = run]
  /\ call' = [call EXCEPT ![r] = c]
  /\ pending' = [pending EXCEPT ![r] = p]
  /\ lock' = l
  /\ journal' \in [Runs -> ConsoleRun \cup {None}]
  /\ \A q \in Runs \ {r} : journal'[q] \in {journal[q], runs[q]}
  /\ used' = used \cup {r}

Fits(r, run, c, p, l) ==
  /\ run \in ConsoleRun
  /\ c \in Held
  /\ p \in PendingApproval \cup {None}
  /\ c.at \in CallsOf(run.phase)
  /\ c.at = "idle" => c = Idle
  /\ c.at = "preview_read" => c.change # None
  /\ c.at \in LiveCalls => /\ c.change # None
                          /\ c.change = run.preview
                          /\ run.mode = "live"
  /\ p # None => /\ run.phase = "awaiting_approval"
                /\ run.preview = p.change
                /\ run.mode = "live"
                /\ c = Idle
  /\ run.phase \in BrowserActive =>
       \A q \in Runs \ {r} : Exists(q) => runs[q].phase \notin BrowserActive
  /\ c.at \notin {"idle", "planner"} <=> l = r
  /\ l \in {None, r, lock}
  /\ lock \in Runs \ {r} => l = lock

Part == /\ runs \in [Runs -> ConsoleRun \cup {None}]
        /\ journal \in [Runs -> ConsoleRun \cup {None}]
        /\ pending \in [Runs -> PendingApproval \cup {None}]
        /\ call \in [Runs -> Held]
        /\ lock \in Runs \cup {None, OtherProcess}
        /\ used \in SUBSET Runs
        /\ Structure
        /\ ApprovalIsCurrent
        /\ BrowserIsExclusive

(* The invariant about runs, approvals and the browser survives a step of   *)
(* one run that fits.                                                       *)
LEMMA RunStepFits ==
  ASSUME Part, NEW r \in Runs, NEW run, NEW c, NEW p, NEW l,
         RunStep(r, run, c, p, l), Fits(r, run, c, p, l)
  PROVE  Part'
<1> USE DEF Part, RunStep, Fits
<1>1. /\ runs' \in [Runs -> ConsoleRun \cup {None}]
      /\ pending' \in [Runs -> PendingApproval \cup {None}]
      /\ call' \in [Runs -> Held]
      /\ lock' \in Runs \cup {None, OtherProcess}
      /\ used' \in SUBSET Runs
  OBVIOUS
<1>2. runs'[r] = run /\ run # None /\ call'[r] = c /\ pending'[r] = p
  BY ConsoleAssumption
<1>3. \A q \in Runs \ {r} :
        runs'[q] = runs[q] /\ call'[q] = call[q] /\ pending'[q] = pending[q]
  OBVIOUS
<1> HIDE DEF RunStep
<1>4. Phased'
  BY <1>2, <1>3 DEF Structure, Phased, Exists
<1>5. Carried'
  BY <1>2, <1>3 DEF Structure, Carried
<1>6. Journaled'
  BY <1>2, <1>3 DEF RunStep, Structure, Journaled
<1>7. ApprovalIsCurrent'
  BY <1>2, <1>3 DEF ApprovalIsCurrent, InPhase, Exists
<1>8. BrowserIsExclusive'
  <2>1. \A q \in Runs : call'[q].at \notin {"idle", "planner"} <=> lock' = q
    BY <1>2, <1>3, ConsoleAssumption DEF RunStep, BrowserIsExclusive
  <2>2. \A q \in Runs \ {r} :
          Exists(q)' /\ runs'[q].phase \in BrowserActive =>
            Exists(q) /\ runs[q].phase \in BrowserActive
    BY <1>3 DEF Exists
  <2> QED
    BY <1>2, <2>1, <2>2 DEF BrowserIsExclusive, Exists
<1> QED
  BY <1>1, <1>4, <1>5, <1>6, <1>7, <1>8 DEF RunStep, Structure

-----------------------------------------------------------------------------
(* The handlers, one lemma each where there is something to show.           *)

(* Moving a run to another phase changes nothing else of it.  *)
LEMMA AdvancedFields ==
  ASSUME NEW run \in ConsoleRun, NEW phase \in Phases
  PROVE  /\ Advanced(run, phase) \in ConsoleRun
         /\ Advanced(run, phase).phase = phase
         /\ Advanced(run, phase).mode = run.mode
         /\ Advanced(run, phase).preview = run.preview
BY DEF Advanced, ConsoleRun

(* A handler may replace the preview in the same move.  *)
LEMMA PreviewFields ==
  ASSUME NEW run \in ConsoleRun, NEW phase \in Phases,
         NEW preview \in Change \cup {None}
  PROVE  /\ [Advanced(run, phase) EXCEPT !.preview = preview] \in ConsoleRun
         /\ [Advanced(run, phase) EXCEPT !.preview = preview].phase = phase
         /\ [Advanced(run, phase) EXCEPT !.preview = preview].mode = run.mode
         /\ [Advanced(run, phase) EXCEPT !.preview = preview].preview = preview
BY DEF Advanced, ConsoleRun

(* A run that exists has been created.  *)
LEMMA ExistsUsed ==
  ASSUME Part, NEW r \in Runs, Exists(r)
  PROVE  runs[r] \in ConsoleRun /\ used = used \cup {r}
BY DEF Part, Exists, Structure, Journaled

(* start and create_from_plan: an identifier that was never handed out.  *)
LEMMA NewRunStep ==
  ASSUME Part, NEW r \in Runs, r \notin used,
         NEW run \in ConsoleRun, NEW c \in Held, Stores(r, run),
         call' = [call EXCEPT ![r] = c], used' = used \cup {r},
         UNCHANGED <<pending, lock>>,
         \/ run.phase = "planning" /\ c.at = "planner"
         \/ run.phase = "plan_ready" /\ c = Idle
  PROVE  Part'
<1>1. runs[r] = None /\ ~Exists(r) /\ pending[r] = None /\ call[r].at = "idle"
  BY DEF Part, Structure, Journaled, Phased, Exists, ApprovalIsCurrent, InPhase
<1>2. RunStep(r, run, c, None, lock)
  BY <1>1 DEF RunStep, Stores, StoresLast, Part
<1>3. lock # r
  BY <1>1 DEF Part, BrowserIsExclusive
<1>4. Fits(r, run, c, None, lock)
  BY <1>3 DEF Fits, CallsOf, LiveCalls, PreviewCalls, BrowserActive, Idle
<1> QED
  BY <1>2, <1>4, RunStepFits

(* A handler that stores an existing run keeps the invariant when the       *)
(* result fits.                                                             *)
LEMMA StoredStep ==
  ASSUME Part, NEW r \in Runs, Exists(r),
         NEW run, NEW earlier \in SUBSET ConsoleRun, NEW c, NEW p, NEW l,
         StoresLast(r, earlier, run), call' = [call EXCEPT ![r] = c],
         pending' = [pending EXCEPT ![r] = p], lock' = l, used' = used,
         Fits(r, run, c, p, l)
  PROVE  Part'
<1>1. used' = used \cup {r}
  BY ExistsUsed
<1>2. RunStep(r, run, c, p, l)
  BY <1>1 DEF RunStep, StoresLast, Part, Fits
<1> QED
  BY <1>2, RunStepFits

(* So does one that leaves the record of the run alone.  *)
LEMMA KeptStep ==
  ASSUME Part, NEW r \in Runs, Exists(r), NEW c, NEW p, NEW l,
         UNCHANGED <<runs, journal, used>>, call' = [call EXCEPT ![r] = c],
         pending' = [pending EXCEPT ![r] = p], lock' = l,
         Fits(r, runs[r], c, p, l)
  PROVE  Part'
<1>1. used' = used \cup {r}
  BY ExistsUsed
<1>2. RunStep(r, runs[r], c, p, l)
  BY <1>1 DEF RunStep, Part
<1> QED
  BY <1>2, RunStepFits

(* What the invariant says about one existing run.  *)
LEMMA Local ==
  ASSUME Part, NEW r \in Runs, Exists(r)
  PROVE  Fits(r, runs[r], call[r], pending[r], lock)
<1>1. /\ runs[r] \in ConsoleRun
      /\ call[r] \in Held
      /\ pending[r] \in PendingApproval \cup {None}
  BY DEF Part, Exists
<1>2. runs[r].phase \in BrowserActive =>
        \A q \in Runs \ {r} : Exists(q) => runs[q].phase \notin BrowserActive
  BY DEF Part, BrowserIsExclusive
<1>3. call[r].at \notin {"idle", "planner"} <=> lock = r
  BY DEF Part, BrowserIsExclusive
<1> QED
  BY <1>1, <1>2, <1>3 DEF Fits, Part, Structure, Phased, Carried,
     ApprovalIsCurrent, InPhase

(* plan, after its await.  *)
LEMMA PlanFinishStep ==
  ASSUME Part, NEW r \in Runs, NEW plan \in Plans \cup {None},
         PlanFinish(r, plan)
  PROVE  Part'
<1>1. Exists(r)
  BY DEF PlanFinish, Part, Structure, Phased
<1>2. Fits(r, runs[r], call[r], pending[r], lock) /\ runs[r] \in ConsoleRun
  BY <1>1, Local, ExistsUsed
<1>3. Idle \in Held /\ Idle.at = "idle"
  BY DEF Idle, Held, Calls
<1>4. pending' = [pending EXCEPT ![r] = pending[r]] /\ lock' = lock
      /\ used' = used /\ call' = [call EXCEPT ![r] = Idle]
      /\ call[r].at = "planner" /\ pending[r] = None
  BY <1>2 DEF PlanFinish, Returns, Part, Fits, Idle
<1>5. CASE runs[r].phase = "planning"
  <2> DEFINE phase == IF plan = None THEN "blocked" ELSE "plan_ready"
             run == [Advanced(runs[r], phase) EXCEPT !.plan = plan]
  <2>1. run \in ConsoleRun /\ run.phase = phase
    BY <1>2 DEF Advanced, ConsoleRun, Phases
  <2>2. MayAdvance(r, run.phase)
    BY <1>1, <1>5, <2>1 DEF MayAdvance, AllowedTransitions, Phases
  <2>3. Stores(r, run)
    BY <1>1, <1>5, <2>2 DEF PlanFinish, InPhase, Advances
  <2>4. Fits(r, run, Idle, pending[r], lock)
    BY <1>2, <1>3, <1>4, <2>1 DEF Fits, CallsOf, LiveCalls, BrowserActive
  <2> HIDE DEF run
  <2> QED
    BY <1>1, <1>4, <2>3, <2>4, StoredStep DEF Stores
<1>6. CASE runs[r].phase # "planning"
  <2>1. UNCHANGED <<runs, journal>>
    BY <1>6 DEF PlanFinish, InPhase
  <2>2. runs[r].phase = "cancelled"
    BY <1>2, <1>4, <1>6 DEF Fits, CallsOf, LiveCalls, PreviewCalls
  <2>3. Fits(r, runs[r], Idle, pending[r], lock)
    BY <1>2, <1>3, <1>4, <2>2 DEF Fits, CallsOf, LiveCalls, BrowserActive
  <2> QED
    BY <1>1, <1>4, <2>1, <2>3, KeptStep
<1> QED
  BY <1>5, <1>6

(* preview, up to its await.  *)
LEMMA PreviewStep ==
  ASSUME Part, mode \in Modes, NEW r \in Runs, Preview(r)
  PROVE  Part'
<1>1. Exists(r) /\ runs[r].phase = "plan_ready"
  BY DEF Preview, InPhase
<1>2. Fits(r, runs[r], call[r], pending[r], lock) /\ runs[r] \in ConsoleRun
  BY <1>1, Local, ExistsUsed
<1>3. call[r] = Idle /\ pending[r] = None /\ lock # r
  BY <1>1, <1>2 DEF Fits, CallsOf
<1>4. /\ call = [call EXCEPT ![r] = Idle]
      /\ pending' = [pending EXCEPT ![r] = None]
      /\ used' = used
      /\ Idle \in Held /\ Idle.at = "idle"
  BY <1>3 DEF Preview, Part, Idle, Held, Calls
<1> DEFINE promoted == [runs[r] EXCEPT !.mode = mode]
           first    == IF runs[r].mode # mode THEN {promoted} ELSE {}
           cleared  == [Advanced(promoted, "preflight") EXCEPT !.preview = None]
           blocked  == Advanced(cleared, "blocked")
           held     == [at |-> "preview", change |-> None]
<1>5. promoted \in ConsoleRun /\ promoted.phase = "plan_ready"
  BY <1>1, <1>2 DEF ConsoleRun
<1>6. cleared \in ConsoleRun /\ cleared.phase = "preflight"
  BY <1>5, PreviewFields DEF Phases
<1>7. blocked \in ConsoleRun /\ blocked.phase = "blocked"
  BY <1>6, AdvancedFields DEF Phases
<1>8. held \in Held /\ held.at = "preview"
  BY DEF Held, Calls
<1>9. CASE /\ StoresLast(r, {}, promoted)
           /\ UNCHANGED <<call, lock>>
  <2>1. Fits(r, promoted, Idle, None, lock)
    BY <1>3, <1>4, <1>5 DEF Fits, CallsOf, LiveCalls, BrowserActive
  <2> HIDE DEF promoted
  <2> QED
    BY <1>1, <1>4, <1>9, <2>1, StoredStep
<1>10. CASE /\ StoresLast(r, first \cup {cleared}, blocked)
            /\ UNCHANGED <<call, lock>>
  <2>1. Fits(r, blocked, Idle, None, lock)
    BY <1>3, <1>4, <1>7 DEF Fits, CallsOf, LiveCalls, BrowserActive
  <2>2. first \cup {cleared} \in SUBSET ConsoleRun
    BY <1>5, <1>6
  <2> HIDE DEF first, cleared, blocked
  <2> QED
    BY <1>1, <1>4, <1>10, <2>1, <2>2, StoredStep
<1>11. CASE /\ ActiveRuns \ {r} = {}
            /\ lock = None /\ lock' = r
            /\ StoresLast(r, first, cleared)
            /\ call' = [call EXCEPT ![r] = held]
  <2>1. \A q \in Runs \ {r} : Exists(q) => runs[q].phase \notin BrowserActive
    BY <1>11 DEF ActiveRuns
  <2>2. Fits(r, cleared, held, None, r)
    BY <1>6, <1>8, <1>11, <2>1, ConsoleAssumption
       DEF Fits, CallsOf, LiveCalls, PreviewCalls
  <2>3. first \in SUBSET ConsoleRun
    BY <1>5
  <2> HIDE DEF first, cleared, held
  <2> QED
    BY <1>1, <1>4, <1>11, <2>2, <2>3, StoredStep
<1> QED
  BY <1>9, <1>10, <1>11 DEF Preview, Stores, Awaits

(* DryRunService.preview, after its read.  *)
LEMMA PreviewReadStep ==
  ASSUME Part, minted \in Nat, MaxMint \in Nat, google \in States, minted <= MaxMint,
         NEW r \in Runs, PreviewRead(r)
  PROVE  Part'
<1>1. Exists(r)
  BY DEF PreviewRead, Part, Structure, Phased
<1>2. Fits(r, runs[r], call[r], pending[r], lock)
  BY <1>1, Local
<1> DEFINE change == [before |-> google, ids |-> FreshIds(runs[r].plan)]
           held   == [at |-> "preview_read", change |-> change]
<1>3. change \in Change
  BY DEF Change, FreshIds, PreviewRead, Mints
<1>4. held \in Held /\ held.at = "preview_read" /\ held.change # None
  BY <1>3, ConsoleAssumption DEF Held, Calls
<1>5. pending[r] = None /\ lock = r /\ runs[r].phase \in {"preflight", "cancelled"}
  BY <1>2 DEF Fits, PreviewRead, CallsOf, LiveCalls, PreviewCalls, Idle
<1>6. Fits(r, runs[r], held, pending[r], lock)
  BY <1>2, <1>4, <1>5 DEF Fits, CallsOf, LiveCalls, PreviewCalls
<1>7. /\ UNCHANGED <<runs, journal, used>> /\ lock' = lock
      /\ call' = [call EXCEPT ![r] = held]
      /\ pending' = [pending EXCEPT ![r] = pending[r]]
  BY DEF PreviewRead, Awaits, Part
<1> HIDE DEF held
<1> QED
  BY <1>1, <1>6, <1>7, KeptStep

(* preview, after its await.  *)
LEMMA PreviewFinishStep ==
  ASSUME Part, clock \in 0..MaxTime, NEW r \in Runs,
         NEW status \in {"preview_ready", "no_change", "blocked"},
         PreviewFinish(r, status)
  PROVE  Part'
<1>1. Exists(r)
  BY DEF PreviewFinish, Part, Structure, Phased
<1>2. Fits(r, runs[r], call[r], pending[r], lock) /\ runs[r] \in ConsoleRun
  BY <1>1, Local, ExistsUsed
<1>3. pending[r] = None /\ lock = r /\ runs[r].phase \in {"preflight", "cancelled"}
  BY <1>2 DEF Fits, PreviewFinish, CallsOf, LiveCalls, PreviewCalls, Idle
<1>4. /\ call' = [call EXCEPT ![r] = Idle] /\ lock' = None /\ used' = used
      /\ Idle \in Held /\ Idle.at = "idle"
  BY DEF PreviewFinish, Returns, Releases, Idle, Held, Calls
<1>5. CASE runs[r].phase = "cancelled"
  <2>1. UNCHANGED <<runs, journal>> /\ pending' = [pending EXCEPT ![r] = None]
    BY <1>3, <1>5 DEF PreviewFinish, InPhase, Part
  <2>2. Fits(r, runs[r], Idle, None, None)
    BY <1>2, <1>3, <1>4, <1>5, ConsoleAssumption
       DEF Fits, CallsOf, LiveCalls, BrowserActive
  <2> QED
    BY <1>1, <1>4, <2>1, <2>2, KeptStep
<1>6. CASE runs[r].phase = "preflight"
  <2> DEFINE phase == CASE status = "blocked" -> "blocked"
                        [] status = "preview_ready" /\ runs[r].mode = "live"
                             -> "awaiting_approval"
                        [] OTHER -> "preview_ready"
             change == IF status = "blocked" THEN None ELSE call[r].change
             run == [Advanced(runs[r], phase) EXCEPT !.preview = change]
             envelope == [change |-> call[r].change, expires |-> clock + TTL]
  <2>1. phase \in {"blocked", "awaiting_approval", "preview_ready"}
    OBVIOUS
  <2>2. change \in Change \cup {None}
    BY <1>2 DEF Fits, Held
  <2>3. /\ run \in ConsoleRun /\ run.phase = phase
        /\ run.mode = runs[r].mode /\ run.preview = change
    BY <1>2, <2>1, <2>2, PreviewFields DEF Phases
  <2>4. Stores(r, run)
    <3>1. MayAdvance(r, run.phase)
      BY <1>1, <1>6, <2>1, <2>3 DEF MayAdvance, AllowedTransitions, Phases
    <3> QED
      BY <1>1, <1>6, <3>1 DEF PreviewFinish, InPhase, Advances
  <2>5. CASE phase = "awaiting_approval"
    <3>1. status # "blocked" /\ runs[r].mode = "live"
      BY <2>5
    <3>2. call[r].change \in Change /\ change = call[r].change
      BY <1>2, <3>1 DEF PreviewFinish, Fits, Held
    <3>3. envelope \in PendingApproval /\ envelope.change = change
      BY <3>2, ConsoleAssumption DEF PendingApproval
    <3>4. pending' = [pending EXCEPT ![r] = envelope]
      BY <1>1, <1>6, <2>5 DEF PreviewFinish, InPhase, Issues
    <3>5. Fits(r, run, Idle, envelope, None)
      BY <1>2, <1>3, <1>4, <1>6, <2>3, <2>5, <3>1, <3>3, ConsoleAssumption
         DEF Fits, CallsOf, LiveCalls, BrowserActive
    <3> HIDE DEF run, envelope
    <3> QED
      BY <1>1, <1>4, <2>4, <3>4, <3>5, StoredStep DEF Stores
  <2>6. CASE phase # "awaiting_approval"
    <3>1. pending' = [pending EXCEPT ![r] = None]
      BY <1>1, <1>3, <1>6, <2>6 DEF PreviewFinish, InPhase, Part
    <3>2. Fits(r, run, Idle, None, None)
      BY <1>3, <1>4, <2>1, <2>3, <2>6, ConsoleAssumption
         DEF Fits, CallsOf, LiveCalls, BrowserActive
    <3> HIDE DEF run
    <3> QED
      BY <1>1, <1>4, <2>4, <3>1, <3>2, StoredStep DEF Stores
  <2> QED
    BY <2>5, <2>6
<1> QED
  BY <1>3, <1>5, <1>6

(* pending_approval, on a page view.  *)
LEMMA RunDetailStep ==
  ASSUME Part, NEW r \in Runs, RunDetail(r)
  PROVE  Part'
<1>1. Exists(r) /\ runs[r].phase = "awaiting_approval"
  BY DEF RunDetail, InPhase
<1>2. Fits(r, runs[r], call[r], pending[r], lock) /\ runs[r] \in ConsoleRun
  BY <1>1, Local, ExistsUsed
<1>3. call[r] = Idle /\ Idle.at = "idle" /\ lock # r
  BY <1>1, <1>2 DEF Fits, CallsOf, Idle
<1>4. /\ call' = [call EXCEPT ![r] = Idle] /\ lock' = lock /\ used' = used
  BY <1>3 DEF RunDetail, Part
<1>5. CASE Valid(r)
  <2>1. /\ UNCHANGED <<runs, journal>>
        /\ pending' = [pending EXCEPT ![r] = pending[r]]
    BY <1>5 DEF RunDetail, Part
  <2> QED
    BY <1>1, <1>2, <1>3, <1>4, <2>1, KeptStep
<1>6. CASE ~Valid(r)
  <2> DEFINE run == [Advanced(runs[r], "plan_ready") EXCEPT !.preview = None]
  <2>1. run \in ConsoleRun /\ run.phase = "plan_ready"
    BY <1>2, PreviewFields DEF Phases
  <2>2. Stores(r, run) /\ pending' = [pending EXCEPT ![r] = None]
    <3>1. MayAdvance(r, run.phase)
      BY <1>1, <2>1 DEF MayAdvance, AllowedTransitions, Phases
    <3> QED
      BY <1>6, <3>1 DEF RunDetail, Advances, Forgets
  <2>3. Fits(r, run, Idle, None, lock)
    BY <1>2, <1>3, <2>1 DEF Fits, CallsOf, LiveCalls, BrowserActive
  <2> HIDE DEF run
  <2> QED
    BY <1>1, <1>4, <2>2, <2>3, StoredStep DEF Stores
<1> QED
  BY <1>5, <1>6

(* cancel.  *)
LEMMA CancelStep ==
  ASSUME Part, NEW r \in Runs, Cancel(r)
  PROVE  Part'
<1>1. Exists(r) /\ "cancelled" \in AllowedTransitions[runs[r].phase]
  BY DEF Cancel, MayAdvance
<1>2. Fits(r, runs[r], call[r], pending[r], lock) /\ runs[r] \in ConsoleRun
  BY <1>1, Local, ExistsUsed
<1>3. runs[r].phase \in {"planning", "plan_ready", "preflight",
                        "awaiting_approval"}
  BY <1>1, <1>2 DEF AllowedTransitions, ConsoleRun, Phases
<1> DEFINE run == Advanced(runs[r], "cancelled")
<1>4. run \in ConsoleRun /\ run.phase = "cancelled"
  BY <1>2, AdvancedFields DEF Phases
<1>5. call[r].at \in {"idle", "planner"} \cup PreviewCalls
  BY <1>2, <1>3 DEF Fits, CallsOf
<1>6. Fits(r, run, call[r], None, lock)
  BY <1>2, <1>4, <1>5 DEF Fits, CallsOf, LiveCalls, PreviewCalls, BrowserActive
<1>7. /\ StoresLast(r, {}, run) /\ pending' = [pending EXCEPT ![r] = None]
      /\ call' = [call EXCEPT ![r] = call[r]] /\ lock' = lock /\ used' = used
  BY DEF Cancel, Stores, Forgets, Part
<1> HIDE DEF run
<1> QED
  BY <1>1, <1>6, <1>7, StoredStep

(* approve, up to the await of the live runner.  *)
LEMMA ApproveStep ==
  ASSUME Part, NEW r \in Runs, Approve(r)
  PROVE  Part'
<1>1. Exists(r) /\ runs[r].phase = "awaiting_approval"
  BY DEF Approve, InPhase
<1>2. Fits(r, runs[r], call[r], pending[r], lock) /\ runs[r] \in ConsoleRun
  BY <1>1, Local, ExistsUsed
<1>3. call[r] = Idle /\ Idle.at = "idle" /\ Idle \in Held /\ lock # r
  BY <1>1, <1>2 DEF Fits, CallsOf, Idle
<1>4. pending' = [pending EXCEPT ![r] = None] /\ used' = used
  BY DEF Approve, Forgets
<1>5. CASE ~Valid(r)
  <2>1. /\ UNCHANGED <<runs, journal>> /\ lock' = lock
        /\ call' = [call EXCEPT ![r] = Idle]
    BY <1>3, <1>5 DEF Approve, Part
  <2>2. Fits(r, runs[r], Idle, None, lock)
    BY <1>2, <1>3 DEF Fits
  <2> QED
    BY <1>1, <1>4, <2>1, <2>2, KeptStep
<1>6. CASE Valid(r) /\ lock = None
  <2> DEFINE run  == Advanced(runs[r], "executing")
             held == [at |-> "live", change |-> pending[r].change]
  <2>1. /\ run \in ConsoleRun /\ run.phase = "executing"
        /\ run.preview = runs[r].preview /\ run.mode = runs[r].mode
    BY <1>2, AdvancedFields DEF Phases
  <2>2. /\ Stores(r, run) /\ lock' = r
        /\ call' = [call EXCEPT ![r] = held]
    <3>1. MayAdvance(r, run.phase)
      BY <1>1, <2>1 DEF MayAdvance, AllowedTransitions, Phases
    <3> QED
      BY <1>6, <3>1 DEF Approve, Advances, Awaits
  <2>3. /\ pending[r].change \in Change /\ run.preview = pending[r].change
        /\ run.mode = "live"
    BY <1>2, <1>6, <2>1 DEF Valid, Fits, PendingApproval
  <2>4. /\ held \in Held /\ held.at = "live" /\ held.change # None
        /\ held.change = run.preview
    BY <2>3, ConsoleAssumption DEF Held, Calls
  <2>5. Fits(r, run, held, None, r)
    BY <1>1, <1>2, <1>6, <2>1, <2>3, <2>4, ConsoleAssumption
       DEF Fits, CallsOf, LiveCalls, PreviewCalls, BrowserActive
  <2> HIDE DEF run, held
  <2> QED
    BY <1>1, <1>4, <2>2, <2>5, StoredStep DEF Stores
<1>7. CASE Valid(r) /\ lock # None
  <2> DEFINE run == Advanced(runs[r], "interrupted")
             mid == Advanced(runs[r], "executing")
  <2>1. /\ run \in ConsoleRun /\ run.phase = "interrupted"
        /\ {mid} \in SUBSET ConsoleRun
    BY <1>2, AdvancedFields DEF Phases
  <2>2. /\ StoresLast(r, {mid}, run) /\ lock' = lock
        /\ call' = [call EXCEPT ![r] = Idle]
    BY <1>3, <1>7 DEF Approve, Part
  <2>3. Fits(r, run, Idle, None, lock)
    BY <1>2, <1>3, <2>1 DEF Fits, CallsOf, LiveCalls, BrowserActive
  <2> HIDE DEF run, mid
  <2> QED
    BY <1>1, <1>4, <2>1, <2>2, <2>3, StoredStep
<1> QED
  BY <1>5, <1>6, <1>7

(* The live runner holds the change of an executing live run.  *)
LEMMA LiveLocal ==
  ASSUME Part, NEW r \in Runs, call[r].at \in LiveCalls
  PROVE  /\ Exists(r) /\ runs[r] \in ConsoleRun
         /\ runs[r].phase = "executing" /\ lock = r /\ pending[r] = None
         /\ Fits(r, runs[r], call[r], pending[r], lock)
<1>1. Exists(r)
  BY DEF LiveCalls, Part, Structure, Phased
<1>2. Fits(r, runs[r], call[r], pending[r], lock) /\ runs[r] \in ConsoleRun
  BY <1>1, Local, ExistsUsed
<1> QED
  BY <1>1, <1>2 DEF Fits, CallsOf, LiveCalls, PreviewCalls, Idle

(* The end of approve: the live runner returned or raised.  *)
LEMMA EndsStep ==
  ASSUME Part, NEW r \in Runs, call[r].at \in LiveCalls,
         NEW phase \in {"completed", "blocked", "interrupted"},
         Ends(r, phase), UNCHANGED <<pending, used>>
  PROVE  Part'
<1>1. /\ Exists(r) /\ runs[r] \in ConsoleRun
      /\ runs[r].phase = "executing" /\ lock = r /\ pending[r] = None
  BY LiveLocal
<1> DEFINE run == Advanced(runs[r], phase)
<1>2. run \in ConsoleRun /\ run.phase = phase
  BY <1>1, AdvancedFields DEF Phases
<1>3. /\ Stores(r, run) /\ lock' = None
      /\ call' = [call EXCEPT ![r] = Idle]
      /\ pending' = [pending EXCEPT ![r] = None]
  <2>1. MayAdvance(r, run.phase)
    BY <1>1, <1>2 DEF MayAdvance, AllowedTransitions, Phases
  <2> QED
    BY <1>1, <2>1 DEF Ends, Advances, Releases, Returns, Part
<1>4. Fits(r, run, Idle, None, None)
  BY <1>1, <1>2, ConsoleAssumption DEF Fits, CallsOf, LiveCalls, BrowserActive,
     Idle, Held, Calls
<1> HIDE DEF run
<1> QED
  BY <1>1, <1>3, <1>4, StoredStep DEF Stores

(* The live runner goes on with the change it holds.  *)
LEMMA HoldsOnStep ==
  ASSUME Part, NEW r \in Runs, call[r].at \in LiveCalls, NEW at \in LiveCalls,
         Awaits(r, at, call[r].change),
         UNCHANGED <<runs, journal, pending, lock, used>>
  PROVE  Part'
<1>1. /\ Exists(r) /\ runs[r].phase = "executing" /\ lock = r
      /\ Fits(r, runs[r], call[r], pending[r], lock) /\ pending[r] = None
  BY LiveLocal
<1> DEFINE held == [at |-> at, change |-> call[r].change]
<1>2. held \in Held /\ held.at = at /\ held.change = call[r].change
  BY <1>1 DEF Fits, Held, Calls, LiveCalls
<1>3. Fits(r, runs[r], held, None, lock)
  BY <1>1, <1>2 DEF Fits, CallsOf, LiveCalls
<1>4. /\ call' = [call EXCEPT ![r] = held] /\ lock' = lock
      /\ pending' = [pending EXCEPT ![r] = None]
  BY <1>1 DEF Awaits, Part
<1> HIDE DEF held
<1> QED
  BY <1>1, <1>3, <1>4, KeptStep

(* A new process starts from the journal with no approval, coroutine or     *)
(* browser.                                                                 *)
LEMMA RestartStep ==
  ASSUME Part, Restart
  PROVE  Part'
<1>1. \A r \in Runs : journal[r] \in ConsoleRun \cup {None}
  BY DEF Part
<1>2. \A r \in Runs :
        /\ RestoredRun(journal[r]) \in ConsoleRun \cup {None}
        /\ RestoredRun(journal[r]) = None <=> journal[r] = None
        /\ RestoredRun(journal[r]) # None =>
             RestoredRun(journal[r]).phase \in
               Phases \ {"planning", "preflight", "awaiting_approval",
                         "executing"}
  BY <1>1, ConsoleAssumption DEF RestoredRun, Advanced, ConsoleRun, Phases
<1>3. /\ runs' = [r \in Runs |-> RestoredRun(journal[r])]
      /\ journal' \in {runs', journal}
      /\ pending' = [r \in Runs |-> None] /\ call' = [r \in Runs |-> Idle]
      /\ lock' \in {None, lock} /\ lock' \notin Runs /\ used' = used
  BY ConsoleAssumption DEF Restart
<1>4. Idle \in Held /\ Idle.at = "idle"
  BY DEF Idle, Held, Calls
<1>5. Phased' /\ Carried' /\ Journaled'
  BY <1>2, <1>3, <1>4 DEF Phased, Carried, Journaled, Exists, CallsOf, Part,
     Structure, LiveCalls, PreviewCalls
<1>6. ApprovalIsCurrent' /\ BrowserIsExclusive'
  BY <1>2, <1>3, <1>4 DEF ApprovalIsCurrent, BrowserIsExclusive, Exists,
     BrowserActive
<1> QED
  BY <1>2, <1>3, <1>4, <1>5, <1>6 DEF Part, Structure

-----------------------------------------------------------------------------
(* All steps.                                                               *)

(* Runs, approvals, coroutines and the lock stay consistent.  *)
LEMMA PartStep == IInv /\ [Next]_vars => Part'
<1> SUFFICES ASSUME TypeOK, Part, [Next]_vars PROVE Part'
  BY DEF IInv, Part, TypeOK, Held
<1>1. ASSUME NEW r \in Runs, Start(r) PROVE Part'
  <2> DEFINE run  == [mode |-> mode, phase |-> "planning", plan |-> None,
                      preview |-> None]
             held == [at |-> "planner", change |-> None]
  <2>1. run \in ConsoleRun /\ run.phase = "planning"
        /\ held \in Held /\ held.at = "planner"
    BY DEF TypeOK, ConsoleRun, Phases, Held, Calls
  <2>2. /\ r \notin used /\ Stores(r, run) /\ call' = [call EXCEPT ![r] = held]
        /\ used' = used \cup {r} /\ UNCHANGED <<pending, lock>>
    BY <1>1 DEF Start, Awaits
  <2> HIDE DEF run, held
  <2> QED
    BY <2>1, <2>2, NewRunStep
<1>2. ASSUME NEW r \in Runs, NEW plan \in Plans, CreateFromPlan(r, plan)
      PROVE  Part'
  <2> DEFINE run == [mode |-> mode, phase |-> "plan_ready", plan |-> plan,
                     preview |-> None]
  <2>1. run \in ConsoleRun /\ run.phase = "plan_ready" /\ Idle \in Held
    BY DEF TypeOK, ConsoleRun, Phases, Held, Calls, Idle
  <2>2. r \notin used /\ Stores(r, run) /\ used' = used \cup {r}
        /\ UNCHANGED <<pending, lock, call>>
    BY <1>2 DEF CreateFromPlan
  <2>3. call' = [call EXCEPT ![r] = Idle]
    BY <2>2 DEF Part, Structure, Journaled, Phased, Carried, Exists
  <2> HIDE DEF run
  <2> QED
    BY <2>1, <2>2, <2>3, NewRunStep
<1>3. ASSUME NEW r \in Runs, NEW plan \in Plans \cup {None}, PlanFinish(r, plan)
      PROVE  Part'
  BY <1>3, PlanFinishStep
<1>4. ASSUME NEW r \in Runs, Preview(r) PROVE Part'
  BY <1>4, PreviewStep DEF TypeOK
<1>5. ASSUME NEW r \in Runs, PreviewRead(r) PROVE Part'
  BY <1>5, PreviewReadStep, ConsoleAssumption DEF TypeOK
<1>6. ASSUME NEW r \in Runs,
             NEW status \in {"preview_ready", "no_change", "blocked"},
             PreviewFinish(r, status)
      PROVE  Part'
  BY <1>6, PreviewFinishStep DEF TypeOK
<1>7. ASSUME NEW r \in Runs, RunDetail(r) PROVE Part'
  BY <1>7, RunDetailStep
<1>8. ASSUME NEW r \in Runs, Cancel(r) PROVE Part'
  BY <1>8, CancelStep
<1>9. ASSUME NEW r \in Runs, Approve(r) PROVE Part'
  BY <1>9, ApproveStep
<1>10. \A status : PhaseOf(status) \in {"completed", "blocked", "interrupted"}
  BY DEF PhaseOf
<1>11. ASSUME NEW r \in Runs, NEW status, LiveEndsEarly(r, status) PROVE Part'
  BY <1>10, <1>11, EndsStep DEF LiveEndsEarly, LiveCalls
<1>12. ASSUME NEW r \in Runs, LiveConfirm(r) PROVE Part'
  <2>1. CASE Ends(r, PhaseOf("FAILED_UNCHANGED"))
    BY <1>10, <1>12, <2>1, EndsStep DEF LiveConfirm, LiveCalls
  <2>2. CASE /\ Awaits(r, "confirmed", call[r].change)
             /\ UNCHANGED <<runs, journal, lock>>
    BY <1>12, <2>2, HoldsOnStep DEF LiveConfirm, LiveCalls
  <2> QED
    BY <1>12, <2>1, <2>2 DEF LiveConfirm, ApprovalMatches
<1>13. ASSUME NEW r \in Runs, LiveReRead(r) PROVE Part'
  <2>1. CASE Ends(r, "interrupted")
    BY <1>13, <2>1, EndsStep DEF LiveReRead, LiveCalls
  <2>2. CASE /\ Awaits(r, "writing", call[r].change)
             /\ UNCHANGED <<runs, journal, lock>>
    BY <1>13, <2>2, HoldsOnStep DEF LiveReRead, LiveCalls
  <2> QED
    BY <1>13, <2>1, <2>2 DEF LiveReRead
<1>14. ASSUME NEW r \in Runs, NEW status, LiveFinish(r, status) PROVE Part'
  BY <1>10, <1>14, EndsStep DEF LiveFinish, LiveCalls
<1>15. ASSUME NEW r \in Runs, LiveRaise(r) PROVE Part'
  BY <1>15, EndsStep DEF LiveRaise, LiveCalls
<1>16. CASE Restart
  BY <1>16, RestartStep
<1>17. CASE OtherLocks
  <2>1. /\ UNCHANGED <<runs, journal, pending, call, used>>
        /\ lock \in {None, OtherProcess} /\ lock' \in {None, OtherProcess}
    BY <1>17 DEF OtherLocks
  <2> QED
    BY <2>1, ConsoleAssumption DEF Part, Structure, Phased, Carried,
       Journaled, ApprovalIsCurrent, BrowserIsExclusive, InPhase, Exists
<1>18. ASSUME UNCHANGED <<runs, journal, pending, call, lock, used>> PROVE Part'
  BY <1>18 DEF Part, Structure, Phased, Carried, Journaled, ApprovalIsCurrent,
     BrowserIsExclusive, InPhase, Exists
<1> QED
  BY <1>1, <1>2, <1>3, <1>4, <1>5, <1>6, <1>7, <1>8, <1>9, <1>11, <1>12,
     <1>13, <1>14, <1>15, <1>16, <1>17, <1>18
     DEF Next, Request, CallGoesOn, CallEnds, LiveWrite, ConfigureMode, Tick,
         ExternalEdit, vars

Rest ==
  /\ mode \in Modes
  /\ caps \in {"none", "preview", "live"}
  /\ clock \in 0..MaxTime
  /\ google \in States
  /\ minted \in 0..MaxMint
  /\ shown \in SUBSET Runs
  /\ wrote \in SUBSET Runs
  /\ refused \in SUBSET Runs

(* Settings, clock, Workspace and history keep their types.  *)
LEMMA RestStep == IInv /\ [Next]_vars => Rest'
<1> SUFFICES ASSUME TypeOK, Rest, ApprovalIsCurrent, [Next]_vars PROVE Rest'
  BY DEF IInv, TypeOK, Rest
<1> USE ConsoleAssumption DEF Rest
<1>1. ASSUME NEW r \in Runs, Start(r) PROVE Rest'
  BY <1>1 DEF Start
<1>2. ASSUME NEW r \in Runs, NEW plan, CreateFromPlan(r, plan) PROVE Rest'
  BY <1>2 DEF CreateFromPlan
<1>3. ASSUME NEW r \in Runs, NEW plan, PlanFinish(r, plan) PROVE Rest'
  BY <1>3 DEF PlanFinish
<1>4. ASSUME NEW r \in Runs, Preview(r) PROVE Rest'
  BY <1>4 DEF Preview
<1>5. ASSUME NEW r \in Runs, PreviewRead(r) PROVE Rest'
  BY <1>5 DEF PreviewRead, Mints
<1>6. ASSUME NEW r \in Runs, NEW status, PreviewFinish(r, status) PROVE Rest'
  BY <1>6 DEF PreviewFinish
<1>7. ASSUME NEW r \in Runs, RunDetail(r) PROVE Rest'
  BY <1>7 DEF RunDetail
<1>8. ASSUME NEW r \in Runs, Cancel(r) PROVE Rest'
  BY <1>8 DEF Cancel
<1>9. ASSUME NEW r \in Runs, Approve(r) PROVE Rest'
  BY <1>9 DEF Approve
<1>10. ASSUME NEW r \in Runs, NEW status, LiveEndsEarly(r, status) PROVE Rest'
  BY <1>10 DEF LiveEndsEarly
<1>11. ASSUME NEW r \in Runs, LiveConfirm(r) PROVE Rest'
  BY <1>11 DEF LiveConfirm, Mints
<1>12. ASSUME NEW r \in Runs, LiveReRead(r) PROVE Rest'
  BY <1>12 DEF LiveReRead
<1>13. ASSUME NEW r \in Runs, NEW s \in States, LiveWrite(r, s) PROVE Rest'
  BY <1>13 DEF LiveWrite
<1>14. ASSUME NEW r \in Runs, NEW status, LiveFinish(r, status) PROVE Rest'
  BY <1>14 DEF LiveFinish
<1>15. ASSUME NEW r \in Runs, LiveRaise(r) PROVE Rest'
  BY <1>15 DEF LiveRaise
<1>16. ASSUME NEW m \in Modes, NEW c \in {"none", "preview", "live"},
              ConfigureMode(m, c)
       PROVE  Rest'
  BY <1>16 DEF ConfigureMode
<1>17. CASE Restart
  BY <1>17 DEF Restart, Capabilities
<1>18. CASE Tick
  BY <1>18 DEF Tick
<1>19. CASE OtherLocks
  BY <1>19 DEF OtherLocks
<1>20. ASSUME NEW s \in States, ExternalEdit(s) PROVE Rest'
  BY <1>20 DEF ExternalEdit
<1>21. CASE UNCHANGED vars
  BY <1>21 DEF vars
<1> QED
  BY <1>1, <1>2, <1>3, <1>4, <1>5, <1>6, <1>7, <1>8, <1>9, <1>10, <1>11,
     <1>12, <1>13, <1>14, <1>15, <1>16, <1>17, <1>18, <1>19, <1>20, <1>21
     DEF Next, Request, CallGoesOn, CallEnds

(* A console without runs satisfies the invariant.  *)
LEMMA InitIInv == Init => IInv
<1> SUFFICES ASSUME Init PROVE IInv
  OBVIOUS
<1>1. Idle \in Held /\ Idle.at = "idle" /\ Idle.change = None
  BY DEF Idle, Held, Calls
<1>2. TypeOK
  BY <1>1, ConsoleAssumption DEF Init, TypeOK, Capabilities, Modes, Held
<1>3. Structure
  BY <1>1 DEF Init, Structure, Phased, Carried, Journaled, Exists, LiveCalls
<1>4. ApprovalIsCurrent /\ BrowserIsExclusive
  BY <1>1, ConsoleAssumption DEF Init, ApprovalIsCurrent, BrowserIsExclusive,
     Exists
<1> QED
  BY <1>2, <1>3, <1>4 DEF IInv

(* The invariant holds in every state the console reaches.  *)
THEOREM InvariantHolds == Spec => []IInv
<1>1. IInv /\ [Next]_vars => IInv'
  <2>1. Part' /\ Rest' => IInv'
    BY DEF Part, Rest, IInv, TypeOK, Held
  <2> QED
    BY <2>1, PartStep, RestStep
<1> QED
  BY <1>1, InitIInv, PTL DEF Spec

(* Every attribute and file of the console keeps its type.  *)
THEOREM TypeCorrect == Spec => []TypeOK
<1>1. IInv => TypeOK
  BY DEF IInv
<1> QED
  BY <1>1, InvariantHolds, PTL

(* However many runs there are, and even when journal saves fail, an        *)
(* approval lives only while its run waits for it and covers exactly the    *)
(* change that run shows (ApprovalService, coordinator.cancel, preview and  *)
(* pending_approval).                                                       *)
THEOREM ApprovalsAreCurrent == Spec => []ApprovalIsCurrent
<1>1. IInv => ApprovalIsCurrent
  BY DEF IInv
<1> QED
  BY <1>1, InvariantHolds, PTL

(* At most one run is in a browser phase, and the process lock is held by   *)
(* exactly the run whose browser is open, cancelled runs included           *)
(* (_require_browser_slot, ProcessLock).                                    *)
THEOREM BrowserExclusive == Spec => []BrowserIsExclusive
<1>1. IInv => BrowserIsExclusive
  BY DEF IInv
<1> QED
  BY <1>1, InvariantHolds, PTL

(* What the live runner saves is the preview of the run that was approved   *)
(* (approve, InjectedLiveRunner.execute).                                   *)
THEOREM ThePreviewIsWritten == Spec => []WritesThePreview
<1>1. IInv => WritesThePreview
  <2> SUFFICES ASSUME IInv, NEW r \in Runs, call[r].at = "writing"
               PROVE  /\ InPhase(r, "executing")
                      /\ runs[r].mode = "live"
                      /\ call[r].change = runs[r].preview
    BY DEF WritesThePreview
  <2>1. Part
    BY DEF IInv, TypeOK, Part, Held
  <2>2. /\ Exists(r) /\ runs[r].phase = "executing"
        /\ Fits(r, runs[r], call[r], pending[r], lock)
    BY <2>1, LiveLocal DEF LiveCalls
  <2> QED
    BY <2>2 DEF Fits, LiveCalls, InPhase
<1> QED
  BY <1>1, InvariantHolds, PTL

-----------------------------------------------------------------------------
(* A run that saved something, when every journal save succeeds.            *)

Shown  == {"executing", "completed", "interrupted"}
Saved  == journal = runs
Traced == \A r \in wrote : /\ Exists(r) /\ runs[r].phase \in Shown
                           /\ call[r].at \in {"writing", "idle"}
WInv   == IInv /\ Saved /\ Traced

(* Without faults the file holds what the memory holds after every step.  *)
LEMMA SavedStep ==
  ASSUME JournalFaults = FALSE, Saved, [Next]_vars
  PROVE  Saved'
<1> USE JournalFaults = FALSE DEF Saved
<1>1. ASSUME NEW r, NEW earlier, NEW run, StoresLast(r, earlier, run)
      PROVE  Saved'
  BY <1>1 DEF StoresLast
<1>2. ASSUME NEW r, NEW run, Advances(r, run) PROVE Saved'
  BY <1>1, <1>2 DEF Advances, Stores
<1>3. CASE Restart
  BY <1>3 DEF Restart
<1>4. CASE UNCHANGED <<runs, journal>>
  BY <1>4
<1>5. ASSUME NEW r \in Runs, Request(r) PROVE Saved'
  BY <1>1, <1>2, <1>4, <1>5 DEF Request, Start, CreateFromPlan, Preview,
     RunDetail, Cancel, Approve, Stores
<1>6. ASSUME NEW r \in Runs, CallGoesOn(r) PROVE Saved'
  BY <1>2, <1>4, <1>6 DEF CallGoesOn, PreviewRead, LiveConfirm, LiveWrite, Ends
<1>7. ASSUME NEW r \in Runs, CallEnds(r) PROVE Saved'
  BY <1>2, <1>4, <1>7 DEF CallEnds, PlanFinish, PreviewFinish, LiveEndsEarly,
     LiveReRead, LiveFinish, LiveRaise, Ends
<1> QED
  BY <1>3, <1>4, <1>5, <1>6, <1>7 DEF Next, vars, ConfigureMode, Tick,
     OtherLocks, ExternalEdit

(* A step of one run leaves the other runs that saved something alone.  *)
LEMMA TracedElsewhere ==
  ASSUME Part, Traced, wrote' = wrote, NEW r \in Runs, wrote \in SUBSET Runs,
         NEW run, NEW c,
         \/ UNCHANGED runs
         \/ runs' = [runs EXCEPT ![r] = run],
         call' = [call EXCEPT ![r] = c] \/ UNCHANGED call,
         r \in wrote => /\ Exists(r)' /\ runs'[r].phase \in Shown
                       /\ call'[r].at \in {"writing", "idle"}
  PROVE  Traced'
BY DEF Traced, Exists, Part

(* No handler but the live runner's finds a run that saved something, and   *)
(* the live runner ends such a run as completed or interrupted.             *)
LEMMA TracedStep ==
  ASSUME WInv, [Next]_vars
  PROVE  Traced'
<1>1. Part /\ wrote \in SUBSET Runs /\ Traced
  BY DEF WInv, IInv, TypeOK, Part, Held
<1>2. \A r \in wrote : runs[r] \in ConsoleRun /\ r \in used
  BY <1>1, ExistsUsed DEF Traced
<1>3. ASSUME NEW r \in Runs, NEW phase, Ends(r, phase), wrote' = wrote,
             call[r].at \in LiveCalls, r \in wrote => phase \in Shown,
             phase \in {"completed", "blocked", "interrupted"}
      PROVE  Traced'
  <2>1. runs[r] \in ConsoleRun /\ runs[r].phase = "executing" /\ Exists(r)
    BY <1>1, <1>3, LiveLocal
  <2> DEFINE run == Advanced(runs[r], phase)
  <2>2. run \in ConsoleRun /\ run.phase = phase
    BY <1>3, <2>1, AdvancedFields DEF Phases
  <2>3. MayAdvance(r, run.phase)
    BY <1>3, <2>1, <2>2 DEF MayAdvance, AllowedTransitions, Phases
  <2>4. /\ runs' = [runs EXCEPT ![r] = run]
        /\ call' = [call EXCEPT ![r] = Idle]
    BY <1>3, <2>3 DEF Ends, Advances, Stores, StoresLast, Returns
  <2>5. r \in wrote => /\ Exists(r)' /\ runs'[r].phase \in Shown
                      /\ call'[r].at \in {"writing", "idle"}
    BY <1>1, <1>3, <2>2, <2>4, ConsoleAssumption DEF Exists, Part, Idle
  <2> HIDE DEF run
  <2> QED
    BY <1>1, <1>3, <2>4, <2>5, TracedElsewhere
<1>4. ASSUME NEW r \in Runs, r \notin wrote, wrote' = wrote,
             \/ UNCHANGED runs
             \/ \E run : runs' = [runs EXCEPT ![r] = run],
             UNCHANGED call \/ \E c : call' = [call EXCEPT ![r] = c]
      PROVE  Traced'
  BY <1>1, <1>4, TracedElsewhere
<1>5. ASSUME NEW r \in Runs, NEW run, Stores(r, run)
      PROVE  \E v : runs' = [runs EXCEPT ![r] = v]
  BY <1>5 DEF Stores, StoresLast
<1>6. ASSUME NEW r \in Runs, NEW run, Advances(r, run)
      PROVE  UNCHANGED runs \/ \E v : runs' = [runs EXCEPT ![r] = v]
  BY <1>5, <1>6 DEF Advances
<1> USE DEF Shown
<1>7. ASSUME NEW r \in Runs, Start(r) PROVE Traced'
  BY <1>2, <1>4, <1>5, <1>7 DEF Start, Awaits
<1>8. ASSUME NEW r \in Runs, NEW plan, CreateFromPlan(r, plan) PROVE Traced'
  BY <1>2, <1>4, <1>5, <1>8 DEF CreateFromPlan
<1>9. ASSUME NEW r \in Runs, NEW plan, PlanFinish(r, plan) PROVE Traced'
  BY <1>1, <1>4, <1>6, <1>9 DEF PlanFinish, Returns, Traced
<1>10. ASSUME NEW r \in Runs, Preview(r) PROVE Traced'
  BY <1>1, <1>4, <1>10 DEF Preview, Stores, StoresLast, Awaits, Traced, InPhase
<1>11. ASSUME NEW r \in Runs, PreviewRead(r) PROVE Traced'
  BY <1>1, <1>4, <1>11 DEF PreviewRead, Awaits, Traced
<1>12. ASSUME NEW r \in Runs, NEW status, PreviewFinish(r, status) PROVE Traced'
  <2>1. r \notin wrote /\ wrote' = wrote
    BY <1>1, <1>12 DEF PreviewFinish, Traced
  <2>2. UNCHANGED runs \/ \E v : runs' = [runs EXCEPT ![r] = v]
    BY <1>6, <1>12 DEF PreviewFinish
  <2> QED
    BY <1>4, <1>12, <2>1, <2>2 DEF PreviewFinish, Returns
<1>13. ASSUME NEW r \in Runs, RunDetail(r) PROVE Traced'
  BY <1>1, <1>4, <1>6, <1>13 DEF RunDetail, Traced, InPhase
<1>14. ASSUME NEW r \in Runs, Cancel(r) PROVE Traced'
  <2>1. r \notin wrote
    BY <1>1, <1>2, <1>14 DEF Cancel, MayAdvance, AllowedTransitions, Phases,
       Traced
  <2> QED
    BY <1>4, <1>5, <1>14, <2>1 DEF Cancel
<1>15. ASSUME NEW r \in Runs, Approve(r) PROVE Traced'
  <2>1. r \notin wrote /\ wrote' = wrote
    BY <1>1, <1>15 DEF Approve, Traced, InPhase
  <2>2. UNCHANGED runs \/ \E v : runs' = [runs EXCEPT ![r] = v]
    BY <1>6, <1>15 DEF Approve, StoresLast
  <2> QED
    BY <1>4, <1>15, <2>1, <2>2 DEF Approve, Awaits
<1>16. ASSUME NEW r \in Runs, NEW status, LiveEndsEarly(r, status) PROVE Traced'
  BY <1>1, <1>3, <1>16 DEF LiveEndsEarly, PhaseOf, Traced, LiveCalls
<1>17. ASSUME NEW r \in Runs, LiveConfirm(r) PROVE Traced'
  <2>1. r \notin wrote /\ wrote' = wrote
    BY <1>1, <1>17 DEF LiveConfirm, Traced
  <2>2. CASE Ends(r, PhaseOf("FAILED_UNCHANGED"))
    BY <1>3, <1>17, <2>1, <2>2 DEF LiveConfirm, PhaseOf, LiveCalls
  <2>3. CASE UNCHANGED runs /\ \E c : call' = [call EXCEPT ![r] = c]
    BY <1>4, <2>1, <2>3
  <2> QED
    BY <1>17, <2>2, <2>3 DEF LiveConfirm, Awaits
<1>18. ASSUME NEW r \in Runs, LiveReRead(r) PROVE Traced'
  <2>1. r \notin wrote /\ wrote' = wrote
    BY <1>1, <1>18 DEF LiveReRead, Traced
  <2>2. CASE Ends(r, "interrupted")
    BY <1>3, <1>18, <2>1, <2>2 DEF LiveReRead, LiveCalls
  <2>3. CASE UNCHANGED runs /\ \E c : call' = [call EXCEPT ![r] = c]
    BY <1>4, <2>1, <2>3
  <2> QED
    BY <1>18, <2>2, <2>3 DEF LiveReRead, Awaits
<1>19. ASSUME NEW r \in Runs, NEW s, LiveWrite(r, s) PROVE Traced'
  <2>1. Exists(r) /\ runs[r].phase = "executing"
    BY <1>1, <1>19, LiveLocal DEF LiveWrite, LiveCalls
  <2> QED
    BY <1>1, <1>19, <2>1 DEF LiveWrite, Traced, Exists
<1>20. ASSUME NEW r \in Runs,
              NEW status \in {"APPLIED_PENDING_PROPAGATION", "INDETERMINATE",
                              "PARTIALLY_APPLIED", "FAILED_UNCHANGED"},
              LiveFinish(r, status)
       PROVE  Traced'
  <2>1. /\ Ends(r, PhaseOf(status)) /\ call[r].at \in LiveCalls
        /\ wrote' = wrote
    BY <1>20 DEF LiveFinish, LiveCalls
  <2>2. /\ r \in wrote => PhaseOf(status) \in Shown
        /\ PhaseOf(status) \in {"completed", "blocked", "interrupted"}
    BY <1>20 DEF LiveFinish, PhaseOf
  <2> QED
    BY <1>3, <2>1, <2>2
<1>21. ASSUME NEW r \in Runs, LiveRaise(r) PROVE Traced'
  BY <1>3, <1>21 DEF LiveRaise, LiveCalls
<1>22. CASE Restart
  <2>1. /\ runs' = [r \in Runs |-> RestoredRun(runs[r])]
        /\ call' = [r \in Runs |-> Idle] /\ wrote' = wrote
    BY <1>22 DEF Restart, WInv, Saved
  <2>2. \A r \in wrote : RestoredRun(runs[r]) # None
                         /\ RestoredRun(runs[r]).phase \in Shown
    <3> SUFFICES ASSUME NEW r \in wrote
                 PROVE  /\ RestoredRun(runs[r]) # None
                        /\ RestoredRun(runs[r]).phase \in Shown
      OBVIOUS
    <3>1. runs[r] \in ConsoleRun /\ runs[r] # None /\ runs[r].phase \in Shown
      BY <1>1, <1>2 DEF Traced, Exists
    <3>2. CASE runs[r].phase = "executing"
      <4>1. RestoredRun(runs[r]) = Advanced(runs[r], "interrupted")
        BY <3>1, <3>2 DEF RestoredRun
      <4> QED
        BY <3>1, <4>1, AdvancedFields, ConsoleAssumption DEF Phases
    <3>3. CASE runs[r].phase # "executing"
      <4>1. RestoredRun(runs[r]) = runs[r]
        BY <3>1, <3>3 DEF RestoredRun
      <4> QED
        BY <3>1, <4>1
    <3> QED
      BY <3>2, <3>3
  <2> QED
    BY <1>1, <2>1, <2>2 DEF Traced, Exists, Idle
<1>23. ASSUME UNCHANGED <<runs, call, wrote>> PROVE Traced'
  BY <1>1, <1>23 DEF Traced, Exists
<1> QED
  BY <1>7, <1>8, <1>9, <1>10, <1>11, <1>12, <1>13, <1>14, <1>15, <1>16,
     <1>17, <1>18, <1>19, <1>20, <1>21, <1>22, <1>23
     DEF Next, Request, CallGoesOn, CallEnds, ConfigureMode, Tick, OtherLocks,
         ExternalEdit, vars

(* When every journal save succeeds, a run that changed the Workspace is    *)
(* always shown as executing, completed or interrupted, restarts at any     *)
(* point included (_restore_run, approve).                                  *)
THEOREM MutationsAreShown ==
  ASSUME JournalFaults = FALSE
  PROVE  Spec => []MutationIsNeverHidden
<1>1. Init => WInv
  BY InitIInv DEF Init, WInv, Saved, Traced
<1>2. IInv /\ [Next]_vars => IInv'
  <2>1. Part' /\ Rest' => IInv'
    BY DEF Part, Rest, IInv, TypeOK, Held
  <2> QED
    BY <2>1, PartStep, RestStep
<1>3. WInv /\ [Next]_vars => WInv'
  BY JournalFaults = FALSE, <1>2, SavedStep, TracedStep DEF WInv
<1>4. WInv => MutationIsNeverHidden
  BY DEF WInv, Traced, Shown, MutationIsNeverHidden
<1> QED
  BY <1>1, <1>3, <1>4, PTL DEF Spec

=============================================================================
