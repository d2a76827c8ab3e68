-------------------------- MODULE OwnershipLedger ---------------------------
(***************************************************************************)
(* The life of the ownership registry (resources.json) over many runs: the *)
(* administrative workflow commits through OwnershipLifecycleService, the  *)
(* attended service through _commit_ownership, and an operator of the      *)
(* console recovers a record from a finished audit.  Other administrators  *)
(* edit Google at any time; a run or a save can be lost at every step.     *)
(*                                                                         *)
(* Approvals, drift and partial writes are the subject of                  *)
(* ComplianceWorkflow and AttendedPolicy: here a write applies its whole   *)
(* change set, and what matters is what the registry then says.            *)
(***************************************************************************)
EXTENDS DesiredState

CONSTANTS
  CIds,           \* ownership IDs of content-compliance rules
  CValues,        \* what such a rule holds
  WorkflowPlans,  \* plans the planner and the CLI make: sequences of actions
  AttendedPlans,  \* plans the Reflex console makes: it removes lists with their rule
  MaxRuns,        \* bound on the number of runs
  MaxEdits        \* bound on the edits of other administrators

CreatedRecord == [rule : RuleNames, list : ListNames,
                  rule_snapshot : ManagedBlockedSenderRule \cup {None},
                  list_snapshot : ManagedAddressList \cup {None}]
ListRecord    == [name : ListNames, snapshot : ManagedAddressList \cup {None}]
Registry      == [resources     : [Ids -> CreatedRecord \cup {None}],
                  address_lists : [Ids -> ListRecord \cup {None}],
                  compliance    : [CIds -> CValues \cup {None}]]

Change == [before : BlockedSenderState, after : BlockedSenderState,
           unmanaged : SUBSET RuleNames]

ASSUME LedgerAssumption ==
  /\ Ids \cap CIds = {}
  /\ WorkflowPlans \subseteq Seq(PlanAction) /\ AttendedPlans \subseteq Seq(PlanAction)
  /\ \A plan \in AttendedPlans : \A n \in DOMAIN plan :
       plan[n].type = "remove" => plan[n].remove_list
  /\ None \notin ManagedBlockedSenderRule \cup ManagedAddressList
  /\ None \notin CreatedRecord \cup ListRecord \cup CValues
  /\ None \notin Ids
  /\ MaxRuns \in Nat /\ MaxEdits \in Nat

VARIABLES
  google,      \* blocked-sender rules and address lists of the root OU
  compliance,  \* content-compliance rules
  registry,    \* the ownership registry file
  run,         \* the run that holds run.lock, or None
  audits,      \* change sets of the workflow runs recorded as applied
  minted,      \* IDs uuid4 has produced
  runs, edits, \* counted for the bounds
  recovered    \* history: recovery was used

vars == <<google, compliance, registry, run, audits, minted, runs, edits, recovered>>

\* A run from its approval on, with the registry it loaded
NoRun         == [kind |-> "none"]
PolicyRun     == [kind : {"workflow", "attended"}, change : Change,
                  loaded : Registry, written : BOOLEAN]
ComplianceRun == [kind : {"compliance"}, id : CIds, value : CValues \cup {None},
                  loaded : Registry, written : BOOLEAN]

-----------------------------------------------------------------------------
(* What a run reads.                                                       *)

\* The lists a set of rules refers to, by name.
Referred(rules) ==
  UNION {Range(rules[i].lists) \cup Range(rules[i].bypass) :
           i \in {i \in Ids : rules[i] # None}}

\* _standard_snapshot: what the registry says was last verified.
SnapshotRules(reg) ==
  [i \in Ids |-> IF reg.resources[i] = None THEN None
                 ELSE reg.resources[i].rule_snapshot]
SnapshotLists(reg) ==
  LET recorded(i) == IF reg.resources[i] # None THEN reg.resources[i].list_snapshot
                     ELSE IF reg.address_lists[i] # None
                            THEN reg.address_lists[i].snapshot ELSE None
  IN [i \in Ids |-> IF /\ recorded(i) # None
                       /\ recorded(i).name \in Referred(SnapshotRules(reg))
                      THEN recorded(i) ELSE None]
HasSnapshots(reg) ==
  \A i \in Ids : reg.resources[i] # None => reg.resources[i].rule_snapshot # None
SnapshotAvailable(reg) ==
  /\ HasSnapshots(reg)
  /\ {SnapshotLists(reg)[i].name : i \in {i \in Ids : SnapshotLists(reg)[i] # None}}
       = Referred(SnapshotRules(reg))

\* read_blocked_sender_state: every expected rule is opened and transcribed,
\* and every list it refers to must be one of the expected lists and be there.
AttendedReadable(expected) ==
  \A i \in Ids : expected.rules[i] # None =>
    /\ google.rules[i] # None
    /\ google.rules[i].name = expected.rules[i].name
    /\ \A name \in Range(google.rules[i].lists) \cup Range(google.rules[i].bypass) :
         \E j \in Ids : /\ expected.lists[j] # None /\ expected.lists[j].name = name
                        /\ google.lists[j] # None /\ google.lists[j].name = name
AttendedRead(expected) ==
  LET rules == [i \in Ids |-> IF expected.rules[i] = None THEN None ELSE google.rules[i]]
  IN [rules |-> rules,
      lists |-> [j \in Ids |-> IF /\ expected.lists[j] # None
                                  /\ expected.lists[j].name \in Referred(rules)
                                 THEN google.lists[j] ELSE None]]

\* Visible rules that the read did not expect, by name.
UnmanagedNames(expected) ==
  {google.rules[i].name : i \in {i \in Ids : google.rules[i] # None}}
    \ {expected.rules[i].name : i \in {i \in Ids : expected.rules[i] # None}}

Snapshot(reg) == [rules |-> SnapshotRules(reg), lists |-> SnapshotLists(reg)]

-----------------------------------------------------------------------------
(* Runs.                                                                   *)

Init ==
  /\ google = [rules |-> [i \in Ids |-> None], lists |-> [i \in Ids |-> None]]
  /\ compliance = [c \in CIds |-> None]
  /\ registry = [resources |-> [i \in Ids |-> None],
                 address_lists |-> [i \in Ids |-> None],
                 compliance |-> [c \in CIds |-> None]]
  /\ run = NoRun
  /\ audits = {} /\ minted = {} /\ runs = 0 /\ edits = 0 /\ recovered = FALSE

\* A run reads the state, calculates the change of its plan with new IDs and
\* is approved.  The attended run keeps the registry it loaded.
Begin(kind, plan, fresh, before, unmanaged) ==
  LET desired == Desired(before, unmanaged, plan, registry, fresh)
      change  == [before |-> before, after |-> desired.state,
                  unmanaged |-> unmanaged]
  IN /\ run = NoRun
     /\ runs < MaxRuns
     /\ Len(fresh) = ProposedIds(plan)
     /\ desired.ok
     /\ HasMutations(change)
     /\ run' = [kind |-> kind, change |-> change, loaded |-> registry,
                written |-> FALSE]
     /\ minted' = minted \cup Range(fresh)
     /\ runs' = runs + 1
     /\ UNCHANGED <<google, compliance, registry, audits, edits, recovered>>

BeginWorkflow(plan, fresh) == Begin("workflow", plan, fresh, google, {})

BeginAttended(plan, fresh) ==
  /\ SnapshotAvailable(registry)
  /\ AttendedReadable(Snapshot(registry))
  /\ Begin("attended", plan, fresh, AttendedRead(Snapshot(registry)),
           UnmanagedNames(Snapshot(registry)))

\* An attended run of the advanced surface: one rule is created, revised or
\* removed (v = None).  calculate_compliance_desired_state requires ownership.
BeginCompliance(c, v) ==
  /\ run = NoRun
  /\ runs < MaxRuns
  /\ compliance[c] # v
  /\ compliance[c] # None => registry.compliance[c] # None
  /\ \A d \in CIds : registry.compliance[d] # None => compliance[d] # None
  /\ run' = [kind |-> "compliance", id |-> c, value |-> v, loaded |-> registry,
             written |-> FALSE]
  /\ runs' = runs + 1
  /\ UNCHANGED <<google, compliance, registry, audits, minted, edits, recovered>>

\* The browser applies the whole change set.
Write ==
  /\ run # NoRun
  /\ ~run.written
  /\ run' = [run EXCEPT !.written = TRUE]
  /\ IF run.kind = "compliance"
       THEN /\ compliance' = [compliance EXCEPT ![run.id] = run.value]
            /\ UNCHANGED google
       ELSE /\ google' =
                 [rules |-> [i \in Ids |->
                    IF i \in Changed(run.change.before.rules, run.change.after.rules)
                      THEN run.change.after.rules[i] ELSE google.rules[i]],
                  lists |-> [i \in Ids |->
                    IF i \in Changed(run.change.before.lists, run.change.after.lists)
                      THEN run.change.after.lists[i] ELSE google.lists[i]]]
            /\ UNCHANGED compliance
  /\ UNCHANGED <<registry, audits, minted, runs, edits, recovered>>

-----------------------------------------------------------------------------
(* Commits.                                                                *)

CreatedRules(c) == Created(c.before.rules, c.after.rules)
CreatedLists(c) == Created(c.before.lists, c.after.lists)
RemovedRules(c) == Removed(c.before.rules, c.after.rules)
RemovedLists(c) == Removed(c.before.lists, c.after.lists)

\* _created_resources and _fully_removed_ids raise unless every created list
\* is the pair or a bypass list of a created rule, and every removed list is
\* the pair or a bypass list of a removed rule.
Attributable(c) ==
  /\ CreatedRules(c) \subseteq CreatedLists(c)
  /\ \A i \in CreatedRules(c) :
       c.after.rules[i].lists = <<c.after.lists[i].name>>
  /\ \A i \in CreatedLists(c) \ CreatedRules(c) :
       \E j \in CreatedRules(c) :
         c.after.lists[i].name \in Range(c.after.rules[j].bypass)
  /\ \A i \in RemovedLists(c) \ RemovedRules(c) :
       \E j \in RemovedRules(c) :
         c.before.lists[i].name \in Range(c.before.rules[j].bypass)

\* A record already there must agree with the created resource.
Consistent(c, reg) ==
  /\ \A i \in CreatedRules(c) : reg.resources[i] # None =>
       /\ reg.resources[i].rule = c.after.rules[i].name
       /\ reg.resources[i].list = c.after.lists[i].name
  /\ \A i \in CreatedLists(c) \ CreatedRules(c) : reg.address_lists[i] # None =>
       reg.address_lists[i].name = c.after.lists[i].name

\* The record of a pair after commit_verified: added without snapshots when the
\* change created the pair, dropped when it removed both.  The defect records
\* whatever pair the state shows.
Unverified(rule, list) ==
  [rule |-> rule.name, list |-> list.name,
   rule_snapshot |-> None, list_snapshot |-> None]
ShownResource(c, reg, i) ==
  IF c.after.rules[i] # None /\ c.after.lists[i] # None
    THEN Unverified(c.after.rules[i], c.after.lists[i])
    ELSE None
VerifiedResource(c, reg, i) ==
  CASE i \in CreatedRules(c) /\ reg.resources[i] = None ->
         Unverified(c.after.rules[i], c.after.lists[i])
    [] i \in RemovedRules(c) \cap RemovedLists(c) -> None
    [] OTHER -> reg.resources[i]

\* OwnershipLifecycleService.commit_verified
CommitVerified(c, reg) ==
  [resources |-> [i \in Ids |-> VerifiedResource(c, reg, i)],
   address_lists |-> [i \in Ids |->
     CASE i \in CreatedLists(c) \ CreatedRules(c) /\ reg.address_lists[i] = None ->
            [name |-> c.after.lists[i].name, snapshot |-> None]
       [] i \in RemovedLists(c) -> None
       [] OTHER -> reg.address_lists[i]],
   compliance |-> reg.compliance]

\* What _commit_ownership records of a rule and the list of its ID, which may be
\* missing.  The defect keeps no snapshot of the list.
ListOf(rule, list) == IF list # None THEN list.name ELSE rule.lists[1]
RuleSnapshot(rule, list) ==
  [rule |-> rule.name, list |-> ListOf(rule, list),
   rule_snapshot |-> rule, list_snapshot |-> None]
SnapshotRecord(rule, list) ==
  [rule |-> rule.name, list |-> ListOf(rule, list),
   rule_snapshot |-> rule, list_snapshot |-> list]

\* A list has a record of its own when no rule has its ID.  The defect does not
\* look for the rule.
AnyList(c, resources, i) == c.after.lists[i] # None
IndependentList(c, resources, i) == c.after.lists[i] # None /\ resources[i] = None

\* _commit_ownership: every rule and list of the after-state is recorded
\* with its snapshot, into the registry the run loaded.
CommitOwnership(c, reg) ==
  LET resources == [i \in Ids |->
        CASE c.after.rules[i] # None -> SnapshotRecord(c.after.rules[i], c.after.lists[i])
          [] i \in RemovedRules(c) -> None
          [] OTHER -> reg.resources[i]]
  IN [resources |-> resources,
      address_lists |-> [i \in Ids |->
        CASE IndependentList(c, resources, i) ->
               [name |-> c.after.lists[i].name, snapshot |-> c.after.lists[i]]
          [] i \in RemovedLists(c) -> None
          [] OTHER -> reg.address_lists[i]],
      compliance |-> reg.compliance]

\* reject_duplicate_ownership_ids
UniqueIds(reg) ==
  \A i \in Ids : reg.resources[i] = None \/ reg.address_lists[i] = None

\* VerificationDecisionExecutor and the audit: a matched read-back is
\* recorded as applied, whether the registry could be committed or not.
FinishWorkflow(saved) ==
  /\ run.kind = "workflow"
  /\ run.written
  /\ LET c == run.change IN
       IF google = c.after
         THEN /\ audits' = audits \cup {c}
              /\ registry' = IF saved /\ Attributable(c) /\ Consistent(c, registry)
                                   /\ UniqueIds(CommitVerified(c, registry))
                               THEN CommitVerified(c, registry) ELSE registry
         ELSE UNCHANGED <<audits, registry>>
  /\ run' = NoRun
  /\ UNCHANGED <<google, compliance, minted, runs, edits, recovered>>

\* execute: the verification read expects the after-state; its audit has no
\* after.json and no report.json, so that recovery cannot use it.
FinishAttended(saved) ==
  /\ run.kind = "attended"
  /\ run.written
  /\ LET c == run.change IN
       registry' = IF /\ AttendedReadable(c.after)
                      /\ AttendedRead(c.after) = c.after
                      /\ UnmanagedNames(c.after) = c.unmanaged
                      /\ saved
                      /\ UniqueIds(CommitOwnership(c, run.loaded))
                     THEN CommitOwnership(c, run.loaded) ELSE registry
  /\ run' = NoRun
  /\ UNCHANGED <<google, compliance, audits, minted, runs, edits, recovered>>

\* The compliance part of _commit_ownership: the rules that stay are recorded
\* as they were read.
FinishCompliance(saved) ==
  /\ run.kind = "compliance"
  /\ run.written
  /\ registry' = IF saved /\ compliance[run.id] = run.value
                   THEN [run.loaded EXCEPT !.compliance = [c \in CIds |->
                           IF c = run.id \/ @[c] # None THEN compliance[c] ELSE None]]
                   ELSE registry
  /\ run' = NoRun
  /\ UNCHANGED <<google, compliance, audits, minted, runs, edits, recovered>>

\* The run fails or its process ends.
Abandon ==
  /\ run # NoRun
  /\ run' = NoRun
  /\ UNCHANGED <<google, compliance, registry, audits, minted, runs, edits, recovered>>

-----------------------------------------------------------------------------
(* Recovery, health and other administrators.                              *)

\* _exact_pair; the defect does not compare the relationship
BothVisible(s, i) == s.rules[i] # None /\ s.lists[i] # None
ExactPair(s, i) ==
  /\ s.rules[i] # None /\ s.lists[i] # None
  /\ s.rules[i].lists = <<s.lists[i].name>>

\* has_verified_creation: the audit's change set created the exact pair
VerifiedCreation(c, i) ==
  i \in CreatedRules(c) \cap CreatedLists(c) /\ ExactPair(c.after, i)

\* OwnershipRecoveryService.recover, as the console calls it: the current
\* state it compares with is the after-state of the same audit.  The saved
\* registry is built from the paired resources alone.
Recover(i, c) ==
  /\ VerifiedCreation(c, i)
  /\ registry.resources[i] = None
  /\ registry' =
       [resources |-> [registry.resources EXCEPT ![i] =
          Unverified(c.after.rules[i], c.after.lists[i])],
        address_lists |-> [j \in Ids |-> None],
        compliance |-> [d \in CIds |-> None]]
  /\ recovered' = TRUE
  /\ UNCHANGED <<google, compliance, run, audits, minted, runs, edits>>

\* assess_ownership_health
Health(s, reg, i) ==
  IF reg.resources[i] = None
    THEN IF s.rules[i] = None /\ s.lists[i] = None THEN "unknown"
         ELSE "registry_missing"
    ELSE CASE s.rules[i] = None /\ s.lists[i] = None -> "missing_in_ui"
           [] (s.rules[i] = None) # (s.lists[i] = None) -> "partial_creation"
           [] OTHER -> IF /\ s.rules[i].name = reg.resources[i].rule
                          /\ s.lists[i].name = reg.resources[i].list
                          /\ ExactPair(s, i)
                         THEN "healthy" ELSE "relationship_changed"

\* Another administrator removes a rule or an unused list, switches a rule, or
\* makes a rule use a list that is there.
Edits ==
  LET rules == {i \in Ids : google.rules[i] # None}
      lists == {i \in Ids : google.lists[i] # None}
  IN {[google EXCEPT !.rules[i] = None] : i \in rules}
     \cup {[google EXCEPT !.rules[i].enabled = ~@] : i \in rules}
     \cup {[google EXCEPT !.lists[i] = None] :
             i \in {i \in lists : google.lists[i].name \notin Referred(google.rules)}}
     \cup {[google EXCEPT !.rules[i].lists = <<google.lists[j].name>>] :
             i \in rules, j \in lists}
     \cup {[google EXCEPT !.rules[i].bypass = <<google.lists[j].name>>] :
             i \in rules, j \in lists}

ExternalEdit(g) ==
  /\ edits < MaxEdits
  /\ google' = g
  /\ edits' = edits + 1
  /\ UNCHANGED <<compliance, registry, run, audits, minted, runs, recovered>>

\* Sequences of different IDs that were never used.
FreshIds(n) == {f \in [1 .. n -> Ids \ minted] : IsInjective(f)}

Next ==
  \/ \E plan \in WorkflowPlans :
       \E fresh \in FreshIds(ProposedIds(plan)) : BeginWorkflow(plan, fresh)
  \/ \E plan \in AttendedPlans :
       \E fresh \in FreshIds(ProposedIds(plan)) : BeginAttended(plan, fresh)
  \/ \E c \in CIds, v \in CValues \cup {None} : BeginCompliance(c, v)
  \/ Write
  \/ \E saved \in BOOLEAN :
       FinishWorkflow(saved) \/ FinishAttended(saved) \/ FinishCompliance(saved)
  \/ Abandon
  \/ \E i \in Ids, c \in audits : Recover(i, c)
  \/ \E g \in Edits : ExternalEdit(g)

Spec == Init /\ [][Next]_vars

-----------------------------------------------------------------------------
(* Properties.                                                             *)

\* Every variable has its type.
TypeOK ==
  /\ google \in BlockedSenderState
  /\ compliance \in [CIds -> CValues \cup {None}]
  /\ registry \in Registry
  /\ run \in {NoRun} \cup PolicyRun \cup ComplianceRun
  /\ audits \subseteq Change
  /\ minted \subseteq Ids
  /\ runs \in 0 .. MaxRuns /\ edits \in 0 .. MaxEdits
  /\ recovered \in BOOLEAN

\* A run changes or removes a rule or list that is there only when the
\* registry it loaded establishes that the application owns it, whichever
\* way the plan reaches the resource (require_owned_rule and
\* require_owned_address_list).
OnlyOwnedIsWritten ==
  [][run' # run /\ google' # google =>
       \A i \in Ids :
         /\ google.rules[i] # None /\ google'.rules[i] # google.rules[i]
              => OwnsRule(run.loaded, i, google.rules[i])
         /\ google.lists[i] # None /\ google'.lists[i] # google.lists[i]
              => OwnsList(run.loaded, i, google.lists[i])]_vars

\* A commit adds records only for resources of its change set that Google
\* shows under the recorded name, drops records only of resources the change
\* removed, and loses no other record of the registry it started from.
CommitFollowsTheChange ==
  [][run.kind \in {"workflow", "attended"} /\ registry' # registry /\ run' # run =>
       LET c    == run.change
           base == IF run.kind = "workflow" THEN registry ELSE run.loaded
       IN \A i \in Ids :
            /\ base.resources[i] = None /\ registry'.resources[i] # None =>
                 /\ i \in CreatedRules(c)
                 /\ google.rules[i].name = registry'.resources[i].rule
                 /\ google.lists[i].name = registry'.resources[i].list
            /\ base.resources[i] # None /\ registry'.resources[i] = None =>
                 i \in RemovedRules(c) /\ google.rules[i] = None
            /\ base.address_lists[i] = None /\ registry'.address_lists[i] # None =>
                 /\ i \in CreatedLists(c)
                 /\ google.lists[i].name = registry'.address_lists[i].name
            /\ base.address_lists[i] # None /\ registry'.address_lists[i] = None =>
                 i \in RemovedLists(c) /\ google.lists[i] = None]_vars

\* No ID ever has two records, so that a verified change is never lost to
\* the validator of OwnershipRegistry when it is committed.
CommitsAreValid ==
  /\ UniqueIds(registry)
  /\ run.kind = "workflow" => UniqueIds(CommitVerified(run.change, registry))
  /\ run.kind = "attended" => UniqueIds(CommitOwnership(run.change, run.loaded))

\* Whatever other administrators did to the rules, the registry an attended
\* run commits has a snapshot of every rule and of every list that one of them
\* refers to: the next attended run is not turned away by _standard_snapshot.
SnapshotsStayComplete ==
  [][run.kind = "attended" /\ run' # run /\ registry' # registry =>
       SnapshotAvailable(registry')]_vars

\* calculate_desired_state accepts actions on a pair exactly when the health
\* page calls it healthy and no other visible list has the name of its list
\* (two IDs with the same first digits; the page does not look for that).
HealthyIsManageable ==
  \A i \in Ids :
    HasRule(google, registry, i) /\ HasRuleList(google, registry, i)
      <=> /\ Health(google, registry, i) = "healthy"
          /\ Named(google, google.lists[i].name) = {i}

\* Recovery adds the record it was asked for and leaves every other record
\* as it is.
RecoveryAddsOneRecord ==
  [][run' = run /\ registry' # registry =>
       /\ registry'.address_lists = registry.address_lists
       /\ registry'.compliance = registry.compliance]_vars

=============================================================================
