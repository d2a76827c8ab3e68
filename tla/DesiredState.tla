---------------------------- MODULE DesiredState ----------------------------
(***************************************************************************)
(* The pure policy of src/compliance_agent/domain: who owns a resource     *)
(* (ownership.py), which state a plan leads to (desired_state.py) and which *)
(* resources differ between two states (diff.py).                          *)
(*                                                                         *)
(* A state maps every ownership ID to its rule and to its address list, or *)
(* to None.  Visible names carry eight hexadecimal digits of the ID, so    *)
(* two IDs may share a name (Short).  Entries of a list are a set: the     *)
(* code keeps them sorted and free of duplicates.  A state is one of the   *)
(* root organizational unit, whose rules are never inherited.              *)
(***************************************************************************)
EXTENDS Integers, FiniteSets, Sequences, SequencesExt

CONSTANTS
  Ids,       \* ownership IDs
  Short,     \* what the visible names show of an ID
  Entries,   \* normalized addresses and domains
  Notices,   \* rejection notices
  None       \* Python's None

ListKinds == {"Addresses", "Addresses bypass"}
RuleNames == {<<"Block rule", Short[i]>> : i \in Ids}
ListNames == {<<k, Short[i]>> : k \in ListKinds, i \in Ids}

\* managed_resource_names; a bypass list has a suffix of its own.
\* The defect takes the first of the two names for the second.
RuleName(i)   == <<"Block rule", Short[i]>>
FirstName(i)  == RuleName(i)
ListName(i)   == <<"Addresses", Short[i]>>
BypassName(i) == <<"Addresses bypass", Short[i]>>

ManagedAddressList == [name : ListNames, entries : SUBSET Entries]
ManagedBlockedSenderRule ==
  [name : RuleNames, lists : Seq(ListNames) \ {<<>>}, bypass : Seq(ListNames),
   notice : Notices \cup {None}, enabled : BOOLEAN]
\* An action of a TaskPlan.  Only "create", "add" and "list" may have no target.
PlanAction ==
  {a \in [type : {"create", "add", "update", "remove_entries", "notice", "enable",
                  "remove", "list"},
          target : Ids \cup {None}, entries : SUBSET Entries, bypass : SUBSET Entries,
          notice : Notices \cup {None}, enabled : BOOLEAN, remove_list : BOOLEAN] :
     a.target = None => a.type \in {"create", "add", "list"}}

BlockedSenderState ==
  [rules : [Ids -> ManagedBlockedSenderRule \cup {None}],
   lists : [Ids -> ManagedAddressList \cup {None}]]

-----------------------------------------------------------------------------
(* Local evidence.  reg.resources pairs a rule with the list of the same   *)
(* ID, reg.address_lists holds the lists that have no rule of their own.   *)

\* require_owned_rule
OwnsRule(reg, i, rule) ==
  reg.resources[i] # None /\ reg.resources[i].rule = rule.name

\* find_address_list and require_owned_address_list
OwnsList(reg, i, list) ==
  IF reg.resources[i] # None THEN reg.resources[i].list = list.name
  ELSE reg.address_lists[i] # None /\ reg.address_lists[i].name = list.name

-----------------------------------------------------------------------------
(* One action of a plan turns a working set into the next: rules and lists *)
(* as they will be, the proposed IDs that are left, and whether an         *)
(* exception ended the calculation.                                        *)

Refuse(w) == [w EXCEPT !.ok = FALSE]

Named(w, name) == {i \in Ids : w.lists[i] # None /\ w.lists[i].name = name}

\* _require_rule, then require_owned_rule
HasRule(w, reg, i) == w.rules[i] # None /\ OwnsRule(reg, i, w.rules[i])

\* _require_rule_list: exactly one list, visible once, of the same ID, owned
HasRuleList(w, reg, i) ==
  /\ Len(w.rules[i].lists) = 1
  /\ Named(w, w.rules[i].lists[1]) = {i}
  /\ OwnsList(reg, i, w.lists[i])

\* _owned_bypass_lists; the defect leaves out require_owned_address_list
VisibleBypassLists(w, reg, rule) ==
  \A name \in Range(rule.bypass) : \E j \in Ids : Named(w, name) = {j}
HasBypassLists(w, reg, rule) ==
  \A name \in Range(rule.bypass) :
    \E j \in Ids : Named(w, name) = {j} /\ OwnsList(reg, j, w.lists[j])

BypassLists(w, rule) ==
  {j \in Ids : w.lists[j] # None /\ w.lists[j].name \in Range(rule.bypass)}

Without(lists, ids) == [i \in Ids |-> IF i \in ids THEN None ELSE lists[i]]

NewBypassList(i, entries) == [name |-> BypassName(i), entries |-> entries]

\* _create_rule
CreateRule(w, entries, notice, bypass, enabled) ==
  LET needed == IF bypass = {} THEN 1 ELSE 2
      id     == w.fresh[1]
      listed == [w.lists EXCEPT ![id] = [name |-> ListName(id), entries |-> entries]]
  IN IF Len(w.fresh) < needed \/ w.rules[id] # None \/ w.lists[id] # None
       THEN Refuse(w)
       ELSE [w EXCEPT
              !.rules[id] = [name |-> RuleName(id), lists |-> <<ListName(id)>>,
                             bypass |-> IF bypass = {} THEN <<>>
                                        ELSE <<BypassName(w.fresh[2])>>,
                             notice |-> notice, enabled |-> enabled],
              !.lists = IF bypass = {} THEN listed
                        ELSE [listed EXCEPT ![w.fresh[2]] =
                                NewBypassList(w.fresh[2], bypass)],
              !.fresh = SubSeq(w.fresh, needed + 1, Len(w.fresh))]

\* _resolve_add_target: every rule with the requested notice must be owned
AddTargets(w, a) ==
  IF a.target # None THEN {a.target}
  ELSE {i \in Ids : w.rules[i] # None /\ w.rules[i].notice = a.notice}

\* _apply_create_or_add for AddBlockedEntries
AddEntries(w, reg, a) ==
  LET targets == AddTargets(w, a)
      id      == CHOOSE i \in targets : TRUE
  IN IF \/ \E i \in targets : ~HasRule(w, reg, i) \/ ~HasRuleList(w, reg, i)
        \/ \E i, j \in targets : i # j
       THEN Refuse(w)
     ELSE IF targets = {} \/ (a.notice # None /\ a.notice # w.rules[id].notice)
       THEN CreateRule(w, a.entries, a.notice, {}, TRUE)
     ELSE [w EXCEPT !.lists[id].entries = @ \cup a.entries]

\* _update_rule: the first bypass list is reused, the others are removed
UpdateRule(w, reg, a) ==
  LET i       == a.target
      rule    == w.rules[i]
      written == [w.lists EXCEPT ![i].entries = a.entries]
      revised(bypass) == [rule EXCEPT !.bypass = bypass, !.notice = a.notice,
                                      !.enabled = a.enabled]
      first   == CHOOSE j \in Ids : Named(w, rule.bypass[1]) = {j}
  IN IF \/ ~HasRule(w, reg, i) \/ ~HasRuleList(w, reg, i)
        \/ ~HasBypassLists(w, reg, rule)
        \/ a.bypass # {} /\ rule.bypass = <<>> /\ w.fresh = <<>>
       THEN Refuse(w)
     ELSE IF a.bypass = {}
       THEN [w EXCEPT !.rules[i] = revised(<<>>),
                      !.lists = Without(written, BypassLists(w, rule))]
     ELSE IF rule.bypass # <<>>
       THEN [w EXCEPT !.rules[i] = revised(<<rule.bypass[1]>>),
                      !.lists = Without([written EXCEPT ![first].entries = a.bypass],
                                        BypassLists(w, rule) \ {first})]
     ELSE [w EXCEPT !.rules[i] = revised(<<BypassName(w.fresh[1])>>),
                    !.lists = [written EXCEPT ![w.fresh[1]] =
                                 NewBypassList(w.fresh[1], a.bypass)],
                    !.fresh = Tail(w.fresh)]

\* _remove_entries
RemoveEntries(w, reg, a) ==
  IF HasRule(w, reg, a.target) /\ HasRuleList(w, reg, a.target)
    THEN [w EXCEPT !.lists[a.target].entries = @ \ a.entries]
    ELSE Refuse(w)

\* _set_notice
SetNotice(w, reg, a) ==
  IF HasRule(w, reg, a.target) /\ HasRuleList(w, reg, a.target)
    THEN [w EXCEPT !.rules[a.target].notice = a.notice]
    ELSE Refuse(w)

\* SetBlockedSenderRuleEnabled, handled in calculate_desired_state itself
SetEnabled(w, reg, a) ==
  IF HasRule(w, reg, a.target)
    THEN [w EXCEPT !.rules[a.target].enabled = a.enabled]
    ELSE Refuse(w)

\* A rule that stays uses a list of this one in the same role.
StillReferenced(rule, rest) ==
  \E other \in rest : \/ rule.lists[1] \in Range(other.lists)
                      \/ Range(rule.bypass) \cap Range(other.bypass) # {}

\* _remove_rule: the lists go only when no rule that stays refers to them
RemoveRule(w, reg, a) ==
  LET i      == a.target
      rule   == w.rules[i]
      rest   == {w.rules[j] : j \in {j \in Ids \ {i} : w.rules[j] # None}}
      listed == [w EXCEPT !.rules[i] = None, !.lists[i] = None]
  IN IF ~HasRule(w, reg, i) \/ ~HasRuleList(w, reg, i) THEN Refuse(w)
     ELSE IF ~a.remove_list THEN [w EXCEPT !.rules[i] = None]
     ELSE IF StillReferenced(rule, rest) \/ ~HasBypassLists(listed, reg, rule)
       THEN Refuse(w)
     ELSE [listed EXCEPT !.lists = Without(@, BypassLists(listed, rule))]

Apply(w, reg, a) ==
  IF ~w.ok THEN w ELSE
  CASE a.type = "create"    -> CreateRule(w, a.entries, a.notice, a.bypass, a.enabled)
    [] a.type = "add"       -> AddEntries(w, reg, a)
    [] a.type = "update"    -> UpdateRule(w, reg, a)
    [] a.type = "remove_entries" -> RemoveEntries(w, reg, a)
    [] a.type = "notice"    -> SetNotice(w, reg, a)
    [] a.type = "enable"    -> SetEnabled(w, reg, a)
    [] a.type = "remove"    -> RemoveRule(w, reg, a)
    [] a.type = "list"      -> w

\* _require_unique_display_names
UniqueNames(w, unmanaged) ==
  /\ \A i \in Ids : w.rules[i] # None => w.rules[i].name \notin unmanaged
  /\ \A i, j \in Ids : i # j =>
    /\ w.rules[i] # None /\ w.rules[j] # None => w.rules[i].name # w.rules[j].name
    /\ w.lists[i] # None /\ w.lists[j] # None => w.lists[i].name # w.lists[j].name

\* The working sets of a calculation: before, and after each action of the plan
Calculation(s, plan, reg, fresh) ==
  LET w[n \in 0 .. Len(plan)] ==
        IF n = 0 THEN [rules |-> s.rules, lists |-> s.lists, fresh |-> fresh, ok |-> TRUE]
        ELSE Apply(w[n - 1], reg, plan[n])
  IN w

\* calculate_desired_state; ok is FALSE when it raises
Desired(s, unmanaged, plan, reg, fresh) ==
  LET w == Calculation(s, plan, reg, fresh)[Len(plan)]
  IN [state |-> [rules |-> w.rules, lists |-> w.lists],
      ok    |-> w.ok /\ UniqueNames(w, unmanaged)]

\* ChangeService.calculate: an ID for every rule or list a plan may create
ProposedIds(plan) ==
  LET Needs(a) == CASE a.type = "create" -> IF a.bypass = {} THEN 1 ELSE 2
                    [] a.type = "add"    -> 1
                    [] a.type = "update" -> IF a.bypass = {} THEN 0 ELSE 1
                    [] OTHER             -> 0
  IN Cardinality({p \in (DOMAIN plan) \X {1, 2} : p[2] <= Needs(plan[p[1]])})

-----------------------------------------------------------------------------
(* calculate_change_set and _partition                                     *)

Created(before, after) == {i \in Ids : before[i] = None /\ after[i] # None}
Removed(before, after) == {i \in Ids : before[i] # None /\ after[i] = None}
Changed(before, after) == {i \in Ids : before[i] # after[i]}
HasMutations(c) == c.before # c.after

=============================================================================
