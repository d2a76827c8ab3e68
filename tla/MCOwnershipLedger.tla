------------------------- MODULE MCOwnershipLedger --------------------------
(***************************************************************************)
(* Small instances of OwnershipLedger: three IDs, two of which share the   *)
(* digits that visible names show, one advanced rule.                      *)
(***************************************************************************)
EXTENDS OwnershipLedger

CONSTANTS i1, i2, i3, e1, e2, n1

ShortOf == [i \in Ids |-> IF i = i2 THEN 2 ELSE 1]

Action(type, target, entries, bypass, notice, enabled, remove) ==
  [type |-> type, target |-> target, entries |-> entries, bypass |-> bypass,
   notice |-> notice, enabled |-> enabled, remove_list |-> remove]

Create(bypass)    == Action("create", None, {e1}, bypass, None, TRUE, FALSE)
Add(target, n)    == Action("add", target, {e2}, {}, n, TRUE, FALSE)
Drop(i)           == Action("remove_entries", i, {e2}, {}, None, TRUE, FALSE)
Update(i, bypass) == Action("update", i, {e1}, bypass, n1, TRUE, FALSE)
Notice(i)         == Action("notice", i, {}, {}, n1, TRUE, FALSE)
Disable(i)        == Action("enable", i, {}, {}, None, FALSE, FALSE)
Delete(i, lists)  == Action("remove", i, {}, {}, None, TRUE, lists)
ListRules         == Action("list", None, {}, {}, None, TRUE, FALSE)

\* The Reflex console always removes the lists with their rule.
ReflexPlans ==
  {<<Create({})>>, <<Create({e2})>>}
  \cup UNION {{<<Update(i, {})>>, <<Update(i, {e2})>>, <<Delete(i, TRUE)>>,
               <<Disable(i)>>} : i \in Ids}

PlannerPlans ==
  {<<Create({})>>, <<Create({e2})>>, <<ListRules>>, <<Add(None, None)>>}
  \cup UNION {{<<Update(i, {})>>, <<Update(i, {e2})>>, <<Delete(i, TRUE)>>,
               <<Delete(i, FALSE)>>, <<Add(i, n1)>>, <<Notice(i), Drop(i)>>} : i \in Ids}

=============================================================================
