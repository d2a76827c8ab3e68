---------------------------- MODULE ApprovalGate ----------------------------
(***************************************************************************)
(* What a run that changes Google Workspace promises, whatever its graph,  *)
(* its retries and its failures look like.  A change is a record with the  *)
(* state it starts from (before) and the state it leads to (after).        *)
(*                                                                         *)
(*  - a change is offered to the operator only for the state last seen;    *)
(*  - one approved change, and no other, is ever granted a write, at most  *)
(*    MaxGrants times, each time with its before-state as the last one     *)
(*    seen;                                                                *)
(*  - ownership changes, and success is reported, only for a granted       *)
(*    change whose resources were the last thing seen;                     *)
(*  - a run that says it was refused was never granted a write.            *)
(*                                                                         *)
(* A run may stop at any point; nothing here says that it must end.        *)
(***************************************************************************)
EXTENDS Naturals

CONSTANTS
  Changes,     \* the changes a run may propose
  States,      \* the states a reader may return
  Registries,  \* the ownership registries
  None,
  MaxGrants    \* the first attempt and its retries

VARIABLES
  seen,      \* the last state any reader returned
  offered,   \* changes an operator was asked to approve
  approved,  \* changes an operator approved
  granted,   \* the change that may be written, if any
  grants,    \* how often a write was granted
  registry,
  outcome    \* what the run reports

vars == <<seen, offered, approved, granted, grants, registry, outcome>>

Outcomes == {"refused", "applied", "other"}

\* Success means that every resource is as the change wants it.
Reaches(c, s) == c.after.res = s.res

Init ==
  /\ seen = None
  /\ offered = {} /\ approved = {}
  /\ granted = None /\ grants = 0
  /\ registry \in Registries
  /\ outcome = None

Open == outcome = None

See(s) ==
  /\ Open
  /\ seen' = s
  /\ UNCHANGED <<offered, approved, granted, grants, registry, outcome>>

Offer(c) ==
  /\ Open /\ grants = 0
  /\ c \in Changes
  /\ seen = c.before
  /\ offered' = offered \cup {c}
  /\ UNCHANGED <<seen, approved, granted, grants, registry, outcome>>

Approve(c) ==
  /\ Open /\ grants = 0
  /\ c \in offered
  /\ approved' = approved \cup {c}
  /\ UNCHANGED <<seen, offered, granted, grants, registry, outcome>>

\* The before-state may be read in the same step.
Grant(c) ==
  /\ Open
  /\ c \in approved
  /\ granted \in {None, c}
  /\ grants < MaxGrants
  /\ seen' = c.before
  /\ granted' = c
  /\ grants' = grants + 1
  /\ UNCHANGED <<offered, approved, registry, outcome>>

Commit(r) ==
  /\ Open
  /\ granted # None /\ Reaches(granted, seen)
  /\ registry' = r
  /\ UNCHANGED <<seen, offered, approved, granted, grants, outcome>>

Close(o) ==
  /\ Open
  /\ o = "refused" => grants = 0
  /\ o = "applied" => granted # None /\ Reaches(granted, seen)
  /\ outcome' = o
  /\ UNCHANGED <<seen, offered, approved, granted, grants, registry>>

\* Whatever concerns a change concerns one that has been offered by then.
Next ==
  \/ \E s \in States : See(s)
  \/ \E c \in offered' : Offer(c) \/ Approve(c) \/ Grant(c)
  \/ \E r \in Registries : Commit(r)
  \/ \E o \in Outcomes : Close(o)

Spec == Init /\ [][Next]_vars

=============================================================================
