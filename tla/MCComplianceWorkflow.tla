------------------------ MODULE MCComplianceWorkflow ------------------------
(***************************************************************************)
(* Small instances of ComplianceWorkflow: two resources, a created and an  *)
(* edited or removed one, a root OU and a child OU.                        *)
(***************************************************************************)
EXTENDS ComplianceWorkflow

CONSTANTS k1, k2, v1, v2

MCKeys   == {k1, k2}
MCValues == {v1, v2, Absent}

\* k1 is to be created; k2 exists, is owned and is edited or removed.
PlanWith(status, ou, op2) ==
  [status |-> status, ou |-> ou,
   op  |-> [k \in MCKeys |-> IF k = k1 THEN "create" ELSE op2],
   val |-> [k \in MCKeys |-> v2]]

EditOnly(op2) ==
  [status |-> "plan", ou |-> None,
   op  |-> [k \in MCKeys |-> IF k = k1 THEN "keep" ELSE op2],
   val |-> [k \in MCKeys |-> v2]]

MCTaskPlans ==
  {PlanWith("plan", Root, "update"), EditOnly("update"), EditOnly("remove"),
   PlanWith("plan", CHOOSE u \in OUs : u # Root, "keep"),
   [EditOnly("keep") EXCEPT !.status = "unsupported"],
   [EditOnly("keep") EXCEPT !.status = "clarification_needed"]}

\* The child OU has nothing of its own.
MCInitialConfigs ==
  {[u \in OUs |-> [k \in MCKeys |-> IF k = k2 /\ u = Root THEN v ELSE Absent]]
     : v \in {v1, v2}}

MCInitialRegistries ==
  {[k \in MCKeys |-> IF k = k2 THEN o ELSE None] : o \in {Root, None}}

\* Another administrator edits the owned rule and puts it back, or creates
\* what the plan creates.
MCExternalEdits == {<<Root, k2, v1>>, <<Root, k2, v2>>, <<Root, k1, v1>>}

=============================================================================
