-------------------------- MODULE MCAttendedPolicy --------------------------
(***************************************************************************)
(* Small instances of AttendedPolicy.  a1 is created, a2 is owned from the *)
(* beginning; c1 is an advanced rule, owned from the beginning too.        *)
(***************************************************************************)
EXTENDS AttendedPolicy

CONSTANTS r1, r2, a1, a2, c1, v1, v2, p1, p2

OneProcess   == [r \in Runs |-> p1]
TwoProcesses == [r \in Runs |-> IF r = r1 THEN p1 ELSE p2]

SurfaceOf == [k \in Keys |-> IF k = c1 THEN "content_compliance"
                                       ELSE "blocked_senders"]

\* A plan with one action, and one without.
Plan(k, o, v) ==
  [surface |-> Surface[k],
   op  |-> [j \in Keys |-> IF j = k THEN o ELSE "keep"],
   val |-> [j \in Keys |-> v]]

Creates == Plan(a1, "create", v1)
Removes == Plan(a2, "remove", v1)
Lists   == Plan(a2, "keep", v1)
Revises == Plan(c1, "update", v2)
Both    == [Plan(a2, "update", v2) EXCEPT !.op[a1] = "create"]

AllPlans  == {Creates, Removes, Lists, Revises, Both}
SomePlans == {Creates, Removes, Revises}

GoogleStates == {[k \in Keys |-> IF k = a1 THEN Absent ELSE v1]}
Edits        == {<<a2, Absent>>}

=============================================================================
