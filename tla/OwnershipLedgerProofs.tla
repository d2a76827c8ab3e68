------------------------ MODULE OwnershipLedgerProofs -----------------------
(***************************************************************************)
(* What runs write and what they record, for every number of resources,    *)
(* runs and edits by other administrators, and for plans of every length.  *)
(***************************************************************************)
EXTENDS OwnershipLedger, FiniteSetTheorems, SequenceTheorems, WellFoundedInduction, TLAPS

\* i has a record of either kind.
Recorded(reg, i) == reg.resources[i] # None \/ reg.address_lists[i] # None

\* i has a rule or a list.
Present(s, i) == s.rules[i] # None \/ s.lists[i] # None

\* IDs are minted before anything has them.
Minted ==
  \A i \in Ids \ minted :
    /\ ~Present(google, i) /\ ~Recorded(registry, i)
    /\ \A c \in audits : ~Present(c.after, i)
    /\ run.kind # "none" => ~Recorded(run.loaded, i)
    /\ run.kind \in {"workflow", "attended"} => ~Present(run.change.after, i)

\* A resource that is changed is owned by the name it was read with.
Owned(c, reg) ==
  \A i \in Ids :
    /\ c.before.rules[i] # None /\ c.after.rules[i] # c.before.rules[i]
         => OwnsRule(reg, i, c.before.rules[i])
    /\ c.before.lists[i] # None /\ c.after.lists[i] # c.before.lists[i]
         => OwnsList(reg, i, c.before.lists[i])

\* Until it is written, a change is about what Google holds: what it creates is
\* not there, and what it changes has the name it was read with.
Unwritten(c) ==
  \A i \in Ids :
    /\ c.after.rules[i] # c.before.rules[i] /\ google.rules[i] # None =>
         c.before.rules[i] # None /\ google.rules[i].name = c.before.rules[i].name
    /\ c.after.lists[i] # c.before.lists[i] /\ google.lists[i] # None =>
         c.before.lists[i] # None /\ google.lists[i].name = c.before.lists[i].name

\* What was removed does not come back.
Gone(c) ==
  /\ \A i \in RemovedRules(c) : google.rules[i] = None
  /\ \A i \in RemovedLists(c) : google.lists[i] = None

\* What a change creates is new: it has no record and is in no audit, and a
\* rule comes with its list.
New(c) ==
  /\ \A i \in CreatedRules(c) \cup CreatedLists(c) :
       /\ ~Recorded(registry, i) /\ ~Recorded(run.loaded, i)
       /\ \A d \in audits : ~Present(d.after, i)
  /\ CreatedRules(c) \subseteq CreatedLists(c)

\* An attended run works on exactly the rules that have a record, and on lists
\* that have one; it removes a rule with its list.
Attended(c, reg) ==
  \A i \in Ids :
    /\ c.before.rules[i] # None <=> reg.resources[i] # None
    /\ c.before.lists[i] # None => Recorded(reg, i)
    /\ i \in RemovedRules(c) => c.after.lists[i] = None

\* The change of a run.
Calculated ==
  run.kind \in {"workflow", "attended"} =>
    /\ Owned(run.change, run.loaded)
    /\ IF run.written THEN Gone(run.change) ELSE Unwritten(run.change)
    /\ New(run.change)
    /\ run.kind = "attended" => Attended(run.change, run.loaded)

\* No ID has two records.
Unique == UniqueIds(registry) /\ (run.kind # "none" => UniqueIds(run.loaded))

IInv == TypeOK /\ Minted /\ Calculated /\ Unique

-----------------------------------------------------------------------------
(* Plans of every length.                                                  *)

\* Induction up to a bound, from the least element of what would be left out.
LEMMA InductionUpTo ==
  ASSUME NEW N \in Nat, NEW T, 0 \in T, \A n \in 0 .. N - 1 : n \in T => n + 1 \in T
  PROVE  0 .. N \subseteq T
<1> SUFFICES ASSUME NEW k \in 0 .. N, k \notin T PROVE FALSE
  OBVIOUS
<1> DEFINE rest == {n \in 0 .. N : n \notin T}
<1> DEFINE less == OpToRel(<, Nat)
<1>1. rest \subseteq Nat /\ k \in rest
  OBVIOUS
<1>2. IsWellFoundedOn(less, Nat)
  BY NatLessThanWellFounded
<1>3. PICK m \in rest : \A n \in rest : ~(<<n, m>> \in less)
  <2> HIDE DEF rest, less
  <2> QED BY <1>1, <1>2, WFMin
<1>4. m # 0 /\ m - 1 \in 0 .. N - 1 /\ (m - 1) + 1 = m /\ m - 1 < m
  OBVIOUS
<1>5. m - 1 \in rest
  BY <1>4
<1>6. <<m - 1, m>> \in less
  BY <1>4, <1>5 DEF OpToRel
<1> QED BY <1>3, <1>5, <1>6

Start(s, fresh) == [rules |-> s.rules, lists |-> s.lists, fresh |-> fresh, ok |-> TRUE]

\* A calculation applies the actions of its plan one after the other.
LEMMA CalculationIs ==
  ASSUME NEW s, NEW plan, NEW reg, NEW fresh, Len(plan) \in Nat
  PROVE  LET w == Calculation(s, plan, reg, fresh)
         IN w = [n \in 0 .. Len(plan) |-> IF n = 0 THEN Start(s, fresh)
                                          ELSE Apply(w[n - 1], reg, plan[n])]
<1> DEFINE Eq(g, m) == g = [n \in 0 .. m |-> IF n = 0 THEN Start(s, fresh)
                                             ELSE Apply(g[n - 1], reg, plan[n])]
<1> DEFINE T == {m \in 0 .. Len(plan) : \E g : Eq(g, m)}
<1>1. 0 \in T
  <2>1. Eq([n \in {0} |-> Start(s, fresh)], 0)
    OBVIOUS
  <2> HIDE DEF Eq
  <2> QED BY <2>1
<1>2. ASSUME NEW m \in 0 .. Len(plan) - 1, m \in T
      PROVE  m + 1 \in T
  <2>1. PICK g : Eq(g, m)
    BY <1>2
  <2> DEFINE h == [n \in 0 .. m + 1 |-> IF n = m + 1 THEN Apply(g[m], reg, plan[n])
                                        ELSE g[n]]
  <2>2. Eq(h, m + 1)
    BY <2>1
  <2>3. m + 1 \in 0 .. Len(plan)
    OBVIOUS
  <2> HIDE DEF Eq, h
  <2> QED BY <2>2, <2>3
<1>3. 0 .. Len(plan) \subseteq T
  <2> HIDE DEF T
  <2> QED BY <1>1, <1>2, InductionUpTo
<1>4. \E g : Eq(g, Len(plan))
  BY <1>3
<1>5. Calculation(s, plan, reg, fresh) = CHOOSE g : Eq(g, Len(plan))
  BY DEF Calculation, Start
<1> QED BY <1>4, <1>5

-----------------------------------------------------------------------------
(* One action.                                                             *)

Rules == [Ids -> ManagedBlockedSenderRule \cup {None}]
Lists == [Ids -> ManagedAddressList \cup {None}]
Working == [rules : Rules, lists : Lists, fresh : Seq(Ids), ok : BOOLEAN]

\* What an action may do to the working set w: give new IDs a list, or a rule
\* with a list, and change or remove what the registry says is owned.
Stepped(w, v, reg) ==
  /\ v \in Working /\ Range(v.fresh) \subseteq Range(w.fresh)
  /\ \A i \in Ids :
       /\ \/ v.rules[i] = w.rules[i]
          \/ i \in Range(w.fresh) /\ v.rules[i] # None /\ v.lists[i] # None
          \/ /\ w.rules[i] # None /\ OwnsRule(reg, i, w.rules[i])
             /\ v.rules[i] # None => v.rules[i].name = w.rules[i].name
       /\ \/ v.lists[i] = w.lists[i]
          \/ i \in Range(w.fresh) /\ v.lists[i] # None
          \/ /\ w.lists[i] # None /\ OwnsList(reg, i, w.lists[i])
             /\ v.lists[i] # None => v.lists[i].name = w.lists[i].name

\* It removes a rule with its list.
RemovesBoth(w, v) ==
  \A i \in Ids : w.rules[i] # None /\ v.rules[i] = None => v.lists[i] = None

LEMMA Unchanged ==
  ASSUME NEW w \in Working, NEW reg
  PROVE  /\ Stepped(w, w, reg) /\ RemovesBoth(w, w)
         /\ Stepped(w, Refuse(w), reg) /\ RemovesBoth(w, Refuse(w))
<1>1. Refuse(w) \in Working /\ Refuse(w).rules = w.rules /\ Refuse(w).lists = w.lists
      /\ Refuse(w).fresh = w.fresh
  BY DEF Refuse, Working
<1> QED BY <1>1 DEF Stepped, RemovesBoth

\* Names
LEMMA NamesAreTyped ==
  ASSUME NEW i \in Ids
  PROVE  /\ RuleName(i) \in RuleNames
         /\ ListName(i) \in ListNames /\ BypassName(i) \in ListNames
BY DEF RuleName, ListName, BypassName, RuleNames, ListNames, ListKinds

\* The first IDs that are left
LEMMA FreshIs ==
  ASSUME NEW fresh \in Seq(Ids), NEW n \in 1 .. Len(fresh)
  PROVE  /\ fresh[n] \in Ids /\ fresh[n] \in Range(fresh)
         /\ SubSeq(fresh, n + 1, Len(fresh)) \in Seq(Ids)
         /\ Range(SubSeq(fresh, n + 1, Len(fresh))) \subseteq Range(fresh)
<1>1. Len(fresh) \in Nat /\ DOMAIN fresh = 1 .. Len(fresh) /\ n \in DOMAIN fresh
  BY LenProperties
<1>2. fresh[n] \in Ids /\ fresh[n] \in Range(fresh)
  BY <1>1, ElementOfSeq DEF Range
<1> DEFINE rest == SubSeq(fresh, n + 1, Len(fresh))
<1>3. rest \in Seq(Ids) /\ Len(rest) = Len(fresh) - n
      /\ \A k \in 1 .. Len(rest) : rest[k] = fresh[n + k]
  BY <1>1, SubSeqProperties
<1>4. Range(rest) \subseteq Range(fresh)
  <2> HIDE DEF rest
  <2> SUFFICES ASSUME NEW x \in Range(rest) PROVE x \in Range(fresh)
    OBVIOUS
  <2>1. PICK k \in 1 .. Len(rest) : x = rest[k]
    BY <1>3, LenProperties DEF Range
  <2>2. n + k \in 1 .. Len(fresh) /\ x = fresh[n + k]
    BY <1>1, <1>3, <2>1
  <2> QED BY <1>1, <2>2 DEF Range
<1> QED BY <1>2, <1>3, <1>4

\* _create_rule gives new IDs a rule and lists.
LEMMA CreateRuleSteps ==
  ASSUME NEW w \in Working, NEW reg, NEW entries \in SUBSET Entries,
         NEW notice \in Notices \cup {None}, NEW bypass \in SUBSET Entries,
         NEW enabled \in BOOLEAN,
         NEW v, v = CreateRule(w, entries, notice, bypass, enabled)
  PROVE  Stepped(w, v, reg) /\ RemovesBoth(w, v)
<1> DEFINE needed == IF bypass = {} THEN 1 ELSE 2
<1> DEFINE id == w.fresh[1]
<1> DEFINE list == [name |-> ListName(id), entries |-> entries]
<1> DEFINE listed == [w.lists EXCEPT ![id] = list]
<1> DEFINE rule == [name |-> RuleName(id), lists |-> <<ListName(id)>>,
                    bypass |-> IF bypass = {} THEN <<>> ELSE <<BypassName(w.fresh[2])>>,
                    notice |-> notice, enabled |-> enabled]
<1> DEFINE lists == IF bypass = {} THEN listed
                    ELSE [listed EXCEPT ![w.fresh[2]] = NewBypassList(w.fresh[2], bypass)]
<1> DEFINE fresh == SubSeq(w.fresh, needed + 1, Len(w.fresh))
<1>1. CASE Len(w.fresh) < needed \/ w.rules[id] # None \/ w.lists[id] # None
  BY <1>1, Unchanged DEF CreateRule
<1>2. CASE ~(Len(w.fresh) < needed \/ w.rules[id] # None \/ w.lists[id] # None)
  <2>1. /\ w.rules \in Rules /\ w.lists \in Lists /\ w.fresh \in Seq(Ids)
        /\ w.ok \in BOOLEAN /\ Len(w.fresh) \in Nat
    BY LenProperties DEF Working
  <2>2. needed \in 1 .. Len(w.fresh) /\ 1 \in 1 .. Len(w.fresh)
    BY <1>2, <2>1
  <2>3. /\ id \in Ids /\ id \in Range(w.fresh)
        /\ fresh \in Seq(Ids) /\ Range(fresh) \subseteq Range(w.fresh)
    BY <2>1, <2>2, FreshIs
  <2>4. bypass # {} => w.fresh[2] \in Ids /\ w.fresh[2] \in Range(w.fresh)
    BY <2>1, <2>2, FreshIs
  <2>5. list \in ManagedAddressList /\ list # None
    BY <2>3, NamesAreTyped, LedgerAssumption DEF ManagedAddressList, LedgerAssumption
  <2>6. bypass # {} => /\ NewBypassList(w.fresh[2], bypass) \in ManagedAddressList
                       /\ NewBypassList(w.fresh[2], bypass) # None
    BY <2>4, NamesAreTyped, LedgerAssumption
       DEF ManagedAddressList, NewBypassList, LedgerAssumption
  <2>7. rule \in ManagedBlockedSenderRule /\ rule # None
    <3>1. <<ListName(id)>> \in Seq(ListNames) \ {<<>>}
      BY <2>3, NamesAreTyped
    <3>2. (IF bypass = {} THEN <<>> ELSE <<BypassName(w.fresh[2])>>) \in Seq(ListNames)
      BY <2>4, NamesAreTyped
    <3>3. rule \in ManagedBlockedSenderRule
      BY <2>3, <3>1, <3>2, NamesAreTyped DEF ManagedBlockedSenderRule
    <3> HIDE DEF rule
    <3> QED BY <3>3, LedgerAssumption DEF LedgerAssumption
  <2>8. v = [w EXCEPT !.rules[id] = rule, !.lists = lists, !.fresh = fresh]
    BY <1>2 DEF CreateRule
  <2> HIDE DEF id, list, rule, fresh, needed
  <2>9. lists \in Lists /\ lists[id] # None
        /\ \A i \in Ids : lists[i] = w.lists[i] \/ (i \in Range(w.fresh) /\ lists[i] # None)
    BY <2>1, <2>3, <2>4, <2>5, <2>6 DEF Lists
  <2> HIDE DEF lists
  <2>10. /\ v.rules = [w.rules EXCEPT ![id] = rule] /\ v.lists = lists
         /\ v.fresh = fresh /\ v.ok = w.ok
         /\ v = [rules |-> v.rules, lists |-> v.lists, fresh |-> v.fresh, ok |-> v.ok]
    BY <2>8 DEF Working
  <2>11. v \in Working
    BY <2>1, <2>3, <2>7, <2>9, <2>10 DEF Working, Rules
  <2> QED BY <2>1, <2>3, <2>7, <2>9, <2>10, <2>11 DEF Stepped, RemovesBoth, Rules
<1> QED BY <1>1, <1>2

\* A rule that is owned and has its list has an owned list of the same ID.
LEMMA OwnedPair ==
  ASSUME NEW w \in Working, NEW reg, NEW i \in Ids, HasRule(w, reg, i)
  PROVE  /\ w.rules[i] \in ManagedBlockedSenderRule /\ w.rules[i] # None
         /\ OwnsRule(reg, i, w.rules[i])
         /\ HasRuleList(w, reg, i) =>
              /\ w.lists[i] \in ManagedAddressList /\ w.lists[i] # None
              /\ OwnsList(reg, i, w.lists[i])
<1>1. w.rules[i] \in ManagedBlockedSenderRule \cup {None}
      /\ w.lists[i] \in ManagedAddressList \cup {None}
  BY DEF Working, Rules, Lists
<1>2. HasRuleList(w, reg, i) => w.lists[i] # None /\ OwnsList(reg, i, w.lists[i])
  <2> HAVE HasRuleList(w, reg, i)
  <2>1. i \in Named(w, w.rules[i].lists[1]) /\ OwnsList(reg, i, w.lists[i])
    BY DEF HasRuleList
  <2> QED BY <2>1 DEF Named
<1> QED BY <1>1, <1>2 DEF HasRule

\* Every bypass list of a rule is owned.
LEMMA OwnedBypassLists ==
  ASSUME NEW w, NEW reg, NEW rule, HasBypassLists(w, reg, rule),
         NEW j \in BypassLists(w, rule)
  PROVE  j \in Ids /\ w.lists[j] # None /\ OwnsList(reg, j, w.lists[j])
<1>1. j \in Ids /\ w.lists[j] # None /\ w.lists[j].name \in Range(rule.bypass)
  BY DEF BypassLists
<1>2. PICK k \in Ids : Named(w, w.lists[j].name) = {k} /\ OwnsList(reg, k, w.lists[k])
  BY <1>1 DEF HasBypassLists
<1>3. j \in Named(w, w.lists[j].name)
  BY <1>1 DEF Named
<1> QED BY <1>1, <1>2, <1>3

\* The entries of a list
LEMMA WithEntries ==
  ASSUME NEW list \in ManagedAddressList, NEW entries \in SUBSET Entries
  PROVE  /\ [list EXCEPT !.entries = entries] \in ManagedAddressList
         /\ [list EXCEPT !.entries = entries] # None
         /\ [list EXCEPT !.entries = entries].name = list.name
<1>1. /\ [list EXCEPT !.entries = entries] \in ManagedAddressList
      /\ [list EXCEPT !.entries = entries].name = list.name
  BY DEF ManagedAddressList
<1> QED BY <1>1, LedgerAssumption DEF LedgerAssumption

\* A change of one owned list
LEMMA ListSteps ==
  ASSUME NEW w \in Working, NEW reg, NEW i \in Ids,
         HasRule(w, reg, i), HasRuleList(w, reg, i),
         NEW entries \in SUBSET Entries,
         NEW v, v = [w EXCEPT !.lists[i].entries = entries]
  PROVE  Stepped(w, v, reg) /\ RemovesBoth(w, v)
<1>1. /\ w.lists[i] \in ManagedAddressList /\ w.lists[i] # None
      /\ OwnsList(reg, i, w.lists[i])
  BY OwnedPair
<1> DEFINE list == [w.lists[i] EXCEPT !.entries = entries]
<1>2. list \in ManagedAddressList /\ list # None /\ list.name = w.lists[i].name
  BY <1>1, WithEntries
<1>3. v = [w EXCEPT !.lists[i] = list]
  OBVIOUS
<1> HIDE DEF list
<1>4. /\ v.rules = w.rules /\ v.lists = [w.lists EXCEPT ![i] = list]
      /\ v.fresh = w.fresh /\ v.ok = w.ok
      /\ v = [rules |-> v.rules, lists |-> v.lists, fresh |-> v.fresh, ok |-> v.ok]
  BY <1>3 DEF Working
<1>5. /\ w.rules \in Rules /\ w.lists \in Lists /\ w.fresh \in Seq(Ids) /\ w.ok \in BOOLEAN
  BY DEF Working
<1>6. /\ v.lists \in Lists /\ v.lists[i] = list
      /\ \A j \in Ids : j # i => v.lists[j] = w.lists[j]
  BY <1>2, <1>4, <1>5 DEF Lists
<1>7. v \in Working
  BY <1>4, <1>5, <1>6 DEF Working
<1> QED BY <1>1, <1>2, <1>4, <1>6, <1>7 DEF Stepped, RemovesBoth

\* A change of one owned rule that keeps its name
LEMMA RuleSteps ==
  ASSUME NEW w \in Working, NEW reg, NEW i \in Ids, HasRule(w, reg, i),
         NEW rule \in ManagedBlockedSenderRule, rule.name = w.rules[i].name,
         NEW v, v = [w EXCEPT !.rules[i] = rule]
  PROVE  Stepped(w, v, reg) /\ RemovesBoth(w, v)
<1>1. OwnsRule(reg, i, w.rules[i]) /\ w.rules[i] # None /\ rule # None
  BY OwnedPair, LedgerAssumption DEF LedgerAssumption
<1>2. /\ v.rules = [w.rules EXCEPT ![i] = rule] /\ v.lists = w.lists
      /\ v.fresh = w.fresh /\ v.ok = w.ok
      /\ v = [rules |-> v.rules, lists |-> v.lists, fresh |-> v.fresh, ok |-> v.ok]
  BY DEF Working
<1>3. /\ w.rules \in Rules /\ w.lists \in Lists /\ w.fresh \in Seq(Ids) /\ w.ok \in BOOLEAN
  BY DEF Working
<1>4. /\ v.rules \in Rules /\ v.rules[i] = rule
      /\ \A j \in Ids : j # i => v.rules[j] = w.rules[j]
  BY <1>2, <1>3 DEF Rules
<1>5. v \in Working
  BY <1>2, <1>3, <1>4 DEF Working
<1> QED BY <1>1, <1>2, <1>4, <1>5 DEF Stepped, RemovesBoth

LEMMA AddEntriesSteps ==
  ASSUME NEW w \in Working, NEW reg, NEW a \in PlanAction,
         NEW v, v = AddEntries(w, reg, a)
  PROVE  Stepped(w, v, reg) /\ RemovesBoth(w, v)
<1> DEFINE targets == AddTargets(w, a)
<1> DEFINE id == CHOOSE i \in targets : TRUE
<1> DEFINE grown == [w EXCEPT !.lists[id].entries = @ \cup a.entries]
<1>1. /\ a.target \in Ids \cup {None} /\ a.entries \in SUBSET Entries
      /\ a.notice \in Notices \cup {None}
  BY DEF PlanAction
<1>2. \/ v = Refuse(w) \/ v = CreateRule(w, a.entries, a.notice, {}, TRUE)
      \/ /\ v = grown /\ targets # {}
         /\ \A i \in targets : HasRule(w, reg, i) /\ HasRuleList(w, reg, i)
  BY DEF AddEntries
<1>3. targets \subseteq Ids
  BY <1>1 DEF AddTargets
<1>4. targets # {} => id \in targets
  OBVIOUS
<1> HIDE DEF targets, id
<1>5. CASE v = Refuse(w) \/ v = CreateRule(w, a.entries, a.notice, {}, TRUE)
  BY <1>1, <1>5, Unchanged, CreateRuleSteps
<1>6. CASE /\ v = grown /\ targets # {}
           /\ \A i \in targets : HasRule(w, reg, i) /\ HasRuleList(w, reg, i)
  <2>1. id \in Ids /\ HasRule(w, reg, id) /\ HasRuleList(w, reg, id)
    BY <1>3, <1>4, <1>6
  <2>2. w.lists[id] \in ManagedAddressList
    BY <2>1, OwnedPair
  <2>3. w.lists[id].entries \cup a.entries \in SUBSET Entries
    BY <1>1, <2>2 DEF ManagedAddressList
  <2>4. v = [w EXCEPT !.lists[id].entries = w.lists[id].entries \cup a.entries]
    BY <1>6
  <2> QED BY <2>1, <2>3, <2>4, ListSteps
<1> QED BY <1>2, <1>5, <1>6

\* A function without some of its values
LEMMA WithoutIs ==
  ASSUME NEW lists \in Lists, NEW ids
  PROVE  /\ Without(lists, ids) \in Lists
         /\ \A i \in Ids : Without(lists, ids)[i] = IF i \in ids THEN None ELSE lists[i]
BY DEF Without, Lists

\* An owned rule keeps its name, owned lists are changed or removed.
LEMMA UpdateSteps ==
  ASSUME NEW w \in Working, NEW reg, NEW i \in Ids, HasRule(w, reg, i),
         NEW v \in Working, Range(v.fresh) \subseteq Range(w.fresh),
         v.rules[i] # None, v.rules[i].name = w.rules[i].name,
         \A j \in Ids : j # i => v.rules[j] = w.rules[j],
         \A j \in Ids : \/ v.lists[j] = w.lists[j]
                        \/ j \in Range(w.fresh) /\ v.lists[j] # None
                        \/ /\ w.lists[j] # None /\ OwnsList(reg, j, w.lists[j])
                           /\ v.lists[j] # None => v.lists[j].name = w.lists[j].name
  PROVE  Stepped(w, v, reg) /\ RemovesBoth(w, v)
<1>1. OwnsRule(reg, i, w.rules[i]) /\ w.rules[i] # None
  BY OwnedPair
<1> QED BY <1>1 DEF Stepped, RemovesBoth

LEMMA UpdateRuleSteps ==
  ASSUME NEW w \in Working, NEW reg, NEW a \in PlanAction, NEW i \in Ids, a.target = i,
         NEW v, v = UpdateRule(w, reg, a)
  PROVE  Stepped(w, v, reg) /\ RemovesBoth(w, v)
<1> DEFINE rule == w.rules[i]
<1> DEFINE written == [w.lists EXCEPT ![i].entries = a.entries]
<1> DEFINE revised(bypass) == [rule EXCEPT !.bypass = bypass, !.notice = a.notice,
                                           !.enabled = a.enabled]
<1> DEFINE first == CHOOSE j \in Ids : Named(w, rule.bypass[1]) = {j}
<1> DEFINE reuse == [written EXCEPT ![first].entries = a.bypass]
<1> DEFINE dropped == [w EXCEPT !.rules[i] = revised(<<>>),
                                !.lists = Without(written, BypassLists(w, rule))]
<1> DEFINE reused == [w EXCEPT !.rules[i] = revised(<<rule.bypass[1]>>),
                               !.lists = Without(reuse, BypassLists(w, rule) \ {first})]
<1> DEFINE new == NewBypassList(w.fresh[1], a.bypass)
<1> DEFINE added == [w EXCEPT !.rules[i] = revised(<<BypassName(w.fresh[1])>>),
                              !.lists = [written EXCEPT ![w.fresh[1]] = new],
                              !.fresh = Tail(w.fresh)]
<1>1. \/ v = Refuse(w)
      \/ /\ HasRule(w, reg, i) /\ HasRuleList(w, reg, i) /\ HasBypassLists(w, reg, rule)
         /\ \/ v = dropped
            \/ v = reused /\ rule.bypass # <<>>
            \/ v = added /\ w.fresh # <<>>
  BY DEF UpdateRule
<1>2. CASE v = Refuse(w)
  BY <1>2, Unchanged
<1>3. ASSUME HasRule(w, reg, i), HasRuleList(w, reg, i), HasBypassLists(w, reg, rule),
             \/ v = dropped
             \/ v = reused /\ rule.bypass # <<>>
             \/ v = added /\ w.fresh # <<>>
      PROVE  Stepped(w, v, reg) /\ RemovesBoth(w, v)
  <2>1. /\ a.entries \in SUBSET Entries /\ a.bypass \in SUBSET Entries
        /\ a.notice \in Notices \cup {None} /\ a.enabled \in BOOLEAN
    BY DEF PlanAction
  <2>2. /\ w.rules \in Rules /\ w.lists \in Lists /\ w.fresh \in Seq(Ids) /\ w.ok \in BOOLEAN
    BY DEF Working
  <2>3. /\ rule \in ManagedBlockedSenderRule
        /\ w.lists[i] \in ManagedAddressList /\ w.lists[i] # None
        /\ OwnsList(reg, i, w.lists[i])
    BY <1>3, OwnedPair
  <2> DEFINE list == [w.lists[i] EXCEPT !.entries = a.entries]
  <2>4. list \in ManagedAddressList /\ list # None /\ list.name = w.lists[i].name
    BY <2>1, <2>3, WithEntries
  <2>5. written = [w.lists EXCEPT ![i] = list]
    OBVIOUS
  <2>6. /\ written \in Lists /\ written[i] = list
        /\ \A j \in Ids : j # i => written[j] = w.lists[j]
    <3> HIDE DEF list, written
    <3> QED BY <2>2, <2>4, <2>5 DEF Lists
  <2>7. ASSUME NEW bypass \in Seq(ListNames)
        PROVE  revised(bypass) \in ManagedBlockedSenderRule /\ revised(bypass).name = rule.name
    BY <2>1, <2>3 DEF ManagedBlockedSenderRule
  <2>8. \A j \in BypassLists(w, rule) :
          j \in Ids /\ w.lists[j] # None /\ OwnsList(reg, j, w.lists[j])
    BY <1>3, OwnedBypassLists
  <2> HIDE DEF list, written
  <2>9. CASE v = dropped
    <3> DEFINE lists == Without(written, BypassLists(w, rule))
    <3>1. /\ lists \in Lists
          /\ \A j \in Ids : lists[j] = IF j \in BypassLists(w, rule) THEN None ELSE written[j]
      BY <2>6, WithoutIs
    <3>2. <<>> \in Seq(ListNames)
      BY EmptySeq
    <3> HIDE DEF lists
    <3>3. \A j \in Ids : \/ lists[j] = w.lists[j]
                         \/ /\ w.lists[j] # None /\ OwnsList(reg, j, w.lists[j])
                            /\ lists[j] # None => lists[j].name = w.lists[j].name
      BY <2>3, <2>4, <2>6, <2>8, <3>1
    <3>4. revised(<<>>) \in ManagedBlockedSenderRule /\ revised(<<>>).name = w.rules[i].name
      BY <2>7, <3>2
    <3>5. v = [w EXCEPT !.rules[i] = revised(<<>>), !.lists = lists, !.fresh = w.fresh]
      BY <2>9 DEF lists, Working
    <3> HIDE DEF revised
    <3> DEFINE r == revised(<<>>)
    <3>6. v = [w EXCEPT !.rules[i] = r, !.lists = lists, !.fresh = w.fresh]
           /\ r \in ManagedBlockedSenderRule /\ r.name = w.rules[i].name
      BY <2>2, <3>1, <3>4, <3>5
    <3> HIDE DEF r
    <3>7. /\ v.rules = [w.rules EXCEPT ![i] = r] /\ v.lists = lists /\ v.fresh = w.fresh
           /\ v.ok = w.ok
           /\ v = [rules |-> v.rules, lists |-> v.lists, fresh |-> v.fresh, ok |-> v.ok]
      BY <3>6 DEF Working
    <3>8. v \in Working
      BY <2>2, <3>1, <3>6, <3>7 DEF Working, Rules
    <3>9. /\ v.rules[i] = r /\ r # None /\ \A j \in Ids : j # i => v.rules[j] = w.rules[j]
      BY <2>2, <3>6, <3>7, LedgerAssumption DEF Rules, LedgerAssumption
    <3>10. /\ v.rules[i] # None /\ v.rules[i].name = w.rules[i].name
           /\ Range(v.fresh) \subseteq Range(w.fresh)
           /\ \A j \in Ids : \/ v.lists[j] = w.lists[j]
                             \/ j \in Range(w.fresh) /\ v.lists[j] # None
                             \/ /\ w.lists[j] # None /\ OwnsList(reg, j, w.lists[j])
                                /\ v.lists[j] # None => v.lists[j].name = w.lists[j].name
      BY <3>3, <3>4, <3>6, <3>7, <3>9
    <3> QED BY <1>3, <3>8, <3>9, <3>10, UpdateSteps
  <2>10. CASE v = reused /\ rule.bypass # <<>>
    <3>1. rule.bypass \in Seq(ListNames) /\ rule.bypass[1] \in ListNames
          /\ rule.bypass[1] \in Range(rule.bypass)
      BY <2>3, <2>10, LenProperties, EmptySeq DEF ManagedBlockedSenderRule, Range
    <3>2. first \in Ids /\ Named(w, rule.bypass[1]) = {first}
      BY <1>3, <3>1 DEF HasBypassLists
    <3> HIDE DEF first
    <3>3. w.lists[first] # None /\ first \in BypassLists(w, rule)
      BY <3>1, <3>2 DEF Named, BypassLists
    <3>4. written[first] \in ManagedAddressList /\ written[first].name = w.lists[first].name
      BY <2>2, <2>3, <2>4, <2>6, <3>2, <3>3 DEF Lists
    <3> DEFINE kept == [written[first] EXCEPT !.entries = a.bypass]
    <3>5. kept \in ManagedAddressList /\ kept # None /\ kept.name = w.lists[first].name
      BY <2>1, <3>4, WithEntries
    <3>6. reuse = [written EXCEPT ![first] = kept]
      OBVIOUS
    <3> HIDE DEF kept, reuse
    <3>7. /\ reuse \in Lists /\ reuse[first] = kept
          /\ \A j \in Ids : j # first => reuse[j] = written[j]
      BY <2>6, <3>2, <3>5, <3>6 DEF Lists
    <3> DEFINE rest == BypassLists(w, rule) \ {first}
    <3> DEFINE lists == Without(reuse, rest)
    <3>8. /\ lists \in Lists
          /\ \A j \in Ids : lists[j] = IF j \in rest THEN None ELSE reuse[j]
      BY <3>7, WithoutIs
    <3> HIDE DEF lists
    <3>9. \A j \in Ids : \/ lists[j] = w.lists[j]
                         \/ /\ w.lists[j] # None /\ OwnsList(reg, j, w.lists[j])
                            /\ lists[j] # None => lists[j].name = w.lists[j].name
      BY <2>3, <2>4, <2>6, <2>8, <3>3, <3>5, <3>7, <3>8
    <3> DEFINE bypass == <<rule.bypass[1]>>
    <3>10. bypass \in Seq(ListNames)
      BY <3>1
    <3>11. revised(bypass) \in ManagedBlockedSenderRule /\ revised(bypass).name = w.rules[i].name
      BY <2>7, <3>10
    <3>12. v = [w EXCEPT !.rules[i] = revised(bypass), !.lists = lists, !.fresh = w.fresh]
      BY <2>10 DEF lists, Working
    <3> HIDE DEF revised, bypass
    <3> DEFINE r == revised(bypass)
    <3>13. v = [w EXCEPT !.rules[i] = r, !.lists = lists, !.fresh = w.fresh]
           /\ r \in ManagedBlockedSenderRule /\ r.name = w.rules[i].name
      BY <2>2, <3>8, <3>11, <3>12
    <3> HIDE DEF r
    <3>14. /\ v.rules = [w.rules EXCEPT ![i] = r] /\ v.lists = lists /\ v.fresh = w.fresh
           /\ v.ok = w.ok
           /\ v = [rules |-> v.rules, lists |-> v.lists, fresh |-> v.fresh, ok |-> v.ok]
      BY <3>13 DEF Working
    <3>15. v \in Working
      BY <2>2, <3>8, <3>13, <3>14 DEF Working, Rules
    <3>16. /\ v.rules[i] = r /\ r # None /\ \A j \in Ids : j # i => v.rules[j] = w.rules[j]
      BY <2>2, <3>13, <3>14, LedgerAssumption DEF Rules, LedgerAssumption
    <3>17. /\ v.rules[i] # None /\ v.rules[i].name = w.rules[i].name
           /\ Range(v.fresh) \subseteq Range(w.fresh)
           /\ \A j \in Ids : \/ v.lists[j] = w.lists[j]
                             \/ j \in Range(w.fresh) /\ v.lists[j] # None
                             \/ /\ w.lists[j] # None /\ OwnsList(reg, j, w.lists[j])
                                /\ v.lists[j] # None => v.lists[j].name = w.lists[j].name
      BY <3>9, <3>11, <3>13, <3>14, <3>16
    <3> QED BY <1>3, <3>15, <3>16, <3>17, UpdateSteps
  <2>11. CASE v = added /\ w.fresh # <<>>
    <3> DEFINE id == w.fresh[1]
    <3>1. 1 \in 1 .. Len(w.fresh) /\ Tail(w.fresh) = SubSeq(w.fresh, 1 + 1, Len(w.fresh))
      BY <2>2, <2>11, LenProperties, EmptySeq DEF Tail
    <3>2. /\ id \in Ids /\ id \in Range(w.fresh)
          /\ Tail(w.fresh) \in Seq(Ids) /\ Range(Tail(w.fresh)) \subseteq Range(w.fresh)
      BY <2>2, <3>1, FreshIs
    <3>3. new \in ManagedAddressList /\ new # None
      BY <2>1, <3>2, NamesAreTyped, LedgerAssumption
         DEF ManagedAddressList, NewBypassList, LedgerAssumption
    <3> DEFINE lists == [written EXCEPT ![id] = new]
    <3> DEFINE bypass == <<BypassName(id)>>
    <3>4. bypass \in Seq(ListNames)
      BY <3>2, NamesAreTyped
    <3>5. revised(bypass) \in ManagedBlockedSenderRule /\ revised(bypass).name = w.rules[i].name
      BY <2>7, <3>4
    <3>6. v = [w EXCEPT !.rules[i] = revised(bypass), !.lists = lists, !.fresh = Tail(w.fresh)]
      BY <2>11
    <3> HIDE DEF new, id, revised, bypass
    <3>7. lists \in Lists /\ lists[id] = new /\ \A j \in Ids : j # id => lists[j] = written[j]
      BY <2>6, <3>2, <3>3 DEF Lists
    <3> HIDE DEF lists
    <3>8. \A j \in Ids : \/ lists[j] = w.lists[j]
                         \/ j \in Range(w.fresh) /\ lists[j] # None
                         \/ /\ w.lists[j] # None /\ OwnsList(reg, j, w.lists[j])
                            /\ lists[j] # None => lists[j].name = w.lists[j].name
      BY <2>3, <2>4, <2>6, <3>2, <3>3, <3>7
    <3> DEFINE r == revised(bypass)
    <3>9. v = [w EXCEPT !.rules[i] = r, !.lists = lists, !.fresh = Tail(w.fresh)]
           /\ r \in ManagedBlockedSenderRule /\ r.name = w.rules[i].name
      BY <3>2, <3>5, <3>6, <3>7
    <3> HIDE DEF r
    <3>10. /\ v.rules = [w.rules EXCEPT ![i] = r] /\ v.lists = lists /\ v.fresh = Tail(w.fresh)
           /\ v.ok = w.ok
           /\ v = [rules |-> v.rules, lists |-> v.lists, fresh |-> v.fresh, ok |-> v.ok]
      BY <3>9 DEF Working
    <3>11. v \in Working
      <4>1. v.rules \in Rules /\ v.lists \in Lists /\ v.ok \in BOOLEAN
        BY <2>2, <3>7, <3>9, <3>10 DEF Rules
      <4>2. v.fresh \in Seq(Ids)
        BY <3>2, <3>10
      <4> QED BY <3>10, <4>1, <4>2 DEF Working
    <3>12. /\ v.rules[i] = r /\ r # None /\ \A j \in Ids : j # i => v.rules[j] = w.rules[j]
      BY <2>2, <3>9, <3>10, LedgerAssumption DEF Rules, LedgerAssumption
    <3>13. /\ v.rules[i] # None /\ v.rules[i].name = w.rules[i].name
           /\ Range(v.fresh) \subseteq Range(w.fresh)
           /\ \A j \in Ids : \/ v.lists[j] = w.lists[j]
                             \/ j \in Range(w.fresh) /\ v.lists[j] # None
                             \/ /\ w.lists[j] # None /\ OwnsList(reg, j, w.lists[j])
                                /\ v.lists[j] # None => v.lists[j].name = w.lists[j].name
      BY <3>2, <3>5, <3>8, <3>9, <3>10, <3>12
    <3> QED BY <1>3, <3>11, <3>12, <3>13, UpdateSteps
  <2> QED BY <1>3, <2>9, <2>10, <2>11
<1> QED BY <1>1, <1>2, <1>3

LEMMA RemoveEntriesSteps ==
  ASSUME NEW w \in Working, NEW reg, NEW a \in PlanAction, NEW i \in Ids, a.target = i,
         NEW v, v = RemoveEntries(w, reg, a)
  PROVE  Stepped(w, v, reg) /\ RemovesBoth(w, v)
<1>1. CASE HasRule(w, reg, i) /\ HasRuleList(w, reg, i)
  <2> DEFINE entries == w.lists[i].entries \ a.entries
  <2>1. w.lists[i] \in ManagedAddressList
    BY <1>1, OwnedPair
  <2>2. entries \in SUBSET Entries
    BY <2>1 DEF ManagedAddressList
  <2>3. v = [w EXCEPT !.lists[i].entries = entries]
    BY <1>1 DEF RemoveEntries
  <2> HIDE DEF entries
  <2> QED BY <1>1, <2>2, <2>3, ListSteps
<1>2. CASE ~(HasRule(w, reg, i) /\ HasRuleList(w, reg, i))
  BY <1>2, Unchanged DEF RemoveEntries
<1> QED BY <1>1, <1>2

LEMMA SetNoticeSteps ==
  ASSUME NEW w \in Working, NEW reg, NEW a \in PlanAction, NEW i \in Ids, a.target = i,
         NEW v, v = SetNotice(w, reg, a)
  PROVE  Stepped(w, v, reg) /\ RemovesBoth(w, v)
<1>1. CASE HasRule(w, reg, i) /\ HasRuleList(w, reg, i)
  <2> DEFINE rule == [w.rules[i] EXCEPT !.notice = a.notice]
  <2>1. w.rules[i] \in ManagedBlockedSenderRule /\ a.notice \in Notices \cup {None}
    BY <1>1, OwnedPair DEF PlanAction
  <2>2. rule \in ManagedBlockedSenderRule /\ rule.name = w.rules[i].name
    BY <2>1 DEF ManagedBlockedSenderRule
  <2>3. v = [w EXCEPT !.rules[i] = rule]
    BY <1>1 DEF SetNotice
  <2> HIDE DEF rule
  <2> QED BY <1>1, <2>2, <2>3, RuleSteps
<1>2. CASE ~(HasRule(w, reg, i) /\ HasRuleList(w, reg, i))
  BY <1>2, Unchanged DEF SetNotice
<1> QED BY <1>1, <1>2

LEMMA SetEnabledSteps ==
  ASSUME NEW w \in Working, NEW reg, NEW a \in PlanAction, NEW i \in Ids, a.target = i,
         NEW v, v = SetEnabled(w, reg, a)
  PROVE  Stepped(w, v, reg) /\ RemovesBoth(w, v)
<1>1. CASE HasRule(w, reg, i)
  <2> DEFINE rule == [w.rules[i] EXCEPT !.enabled = a.enabled]
  <2>1. w.rules[i] \in ManagedBlockedSenderRule /\ a.enabled \in BOOLEAN
    BY <1>1, OwnedPair DEF PlanAction
  <2>2. rule \in ManagedBlockedSenderRule /\ rule.name = w.rules[i].name
    BY <2>1 DEF ManagedBlockedSenderRule
  <2>3. v = [w EXCEPT !.rules[i] = rule]
    BY <1>1 DEF SetEnabled
  <2> HIDE DEF rule
  <2> QED BY <1>1, <2>2, <2>3, RuleSteps
<1>2. CASE ~HasRule(w, reg, i)
  BY <1>2, Unchanged DEF SetEnabled
<1> QED BY <1>1, <1>2

\* _remove_rule takes away an owned rule and owned lists.
LEMMA RemoveRuleSteps ==
  ASSUME NEW w \in Working, NEW reg, NEW a \in PlanAction, NEW i \in Ids, a.target = i,
         NEW v, v = RemoveRule(w, reg, a)
  PROVE  Stepped(w, v, reg) /\ (a.remove_list => RemovesBoth(w, v))
<1> DEFINE rule == w.rules[i]
<1> DEFINE listed == [w EXCEPT !.rules[i] = None, !.lists[i] = None]
<1> DEFINE cleared == [listed EXCEPT !.lists = Without(@, BypassLists(listed, rule))]
<1>1. \/ v = Refuse(w)
      \/ /\ HasRule(w, reg, i) /\ HasRuleList(w, reg, i)
         /\ \/ v = [w EXCEPT !.rules[i] = None] /\ ~a.remove_list
            \/ v = cleared /\ HasBypassLists(listed, reg, rule)
  BY DEF RemoveRule
<1>2. CASE v = Refuse(w)
  BY <1>2, Unchanged
<1>3. ASSUME HasRule(w, reg, i), HasRuleList(w, reg, i)
      PROVE  /\ OwnsRule(reg, i, w.rules[i]) /\ w.rules[i] # None
             /\ OwnsList(reg, i, w.lists[i]) /\ w.lists[i] # None
  BY <1>3, OwnedPair
<1>4. w.rules \in Rules /\ w.lists \in Lists /\ w.fresh \in Seq(Ids) /\ w.ok \in BOOLEAN
  BY DEF Working
<1>5. ASSUME HasRule(w, reg, i), HasRuleList(w, reg, i),
             v = [w EXCEPT !.rules[i] = None], ~a.remove_list
      PROVE  Stepped(w, v, reg)
  <2>1. /\ v.rules = [w.rules EXCEPT ![i] = None] /\ v.lists = w.lists
        /\ v.fresh = w.fresh /\ v \in Working
    BY <1>4, <1>5 DEF Working, Rules
  <2> QED BY <1>3, <1>4, <1>5, <2>1 DEF Stepped, Rules
<1>6. ASSUME HasRule(w, reg, i), HasRuleList(w, reg, i),
             v = cleared, HasBypassLists(listed, reg, rule)
      PROVE  Stepped(w, v, reg) /\ RemovesBoth(w, v)
  <2>1. /\ listed.rules = [w.rules EXCEPT ![i] = None]
        /\ listed.lists = [w.lists EXCEPT ![i] = None]
        /\ listed.fresh = w.fresh /\ listed \in Working
    BY <1>4 DEF Working, Rules, Lists
  <2> DEFINE gone == BypassLists(listed, rule)
  <2>2. \A j \in gone : j \in Ids /\ listed.lists[j] # None /\ OwnsList(reg, j, listed.lists[j])
    BY <1>6, OwnedBypassLists
  <2> DEFINE lists == Without(listed.lists, gone)
  <2>3. /\ v.rules = listed.rules /\ v.lists = lists /\ v.fresh = listed.fresh /\ v.ok = listed.ok
        /\ v = [rules |-> v.rules, lists |-> v.lists, fresh |-> v.fresh, ok |-> v.ok]
    BY <1>6, <2>1 DEF Working
  <2> HIDE DEF listed, gone
  <2>4. listed.lists \in Lists /\ listed.rules \in Rules
        /\ listed.fresh \in Seq(Ids) /\ listed.ok \in BOOLEAN
    BY <2>1 DEF Working
  <2>5. lists \in Lists /\ \A j \in Ids : lists[j] = IF j \in gone THEN None ELSE listed.lists[j]
    BY <2>4, WithoutIs
  <2> HIDE DEF lists
  <2>6. v \in Working
    BY <2>3, <2>4, <2>5 DEF Working
  <2>7. \A j \in Ids : \/ lists[j] = w.lists[j]
                       \/ w.lists[j] # None /\ OwnsList(reg, j, w.lists[j]) /\ lists[j] = None
    BY <1>3, <1>4, <1>6, <2>1, <2>2, <2>5 DEF Lists
  <2>8. lists[i] = None /\ v.rules[i] = None /\ \A j \in Ids : j # i => v.rules[j] = w.rules[j]
    BY <1>4, <2>1, <2>3, <2>5 DEF Lists, Rules
  <2>9. Range(v.fresh) \subseteq Range(w.fresh) /\ v.lists = lists
    BY <2>1, <2>3
  <2> QED BY <1>3, <1>6, <2>6, <2>7, <2>8, <2>9 DEF Stepped, RemovesBoth
<1> QED BY <1>1, <1>2, <1>5, <1>6

\* One action of a plan
LEMMA ApplySteps ==
  ASSUME NEW w \in Working, NEW reg, NEW a \in PlanAction, NEW v, v = Apply(w, reg, a)
  PROVE  /\ Stepped(w, v, reg)
         /\ (a.type = "remove" => a.remove_list) => RemovesBoth(w, v)
<1>1. /\ a.type \in {"create", "add", "update", "remove_entries", "notice", "enable",
                     "remove", "list"}
      /\ a.type \notin {"create", "add", "list"} => a.target \in Ids
      /\ a.entries \in SUBSET Entries /\ a.bypass \in SUBSET Entries
      /\ a.notice \in Notices \cup {None} /\ a.enabled \in BOOLEAN
  BY DEF PlanAction
<1>2. CASE ~w.ok \/ a.type = "list"
  BY <1>2, Unchanged DEF Apply
<1>3. CASE w.ok /\ a.type = "create"
  BY <1>1, <1>3, CreateRuleSteps DEF Apply
<1>4. CASE w.ok /\ a.type = "add"
  BY <1>4, AddEntriesSteps DEF Apply
<1>5. CASE w.ok /\ a.type = "update"
  BY <1>1, <1>5, UpdateRuleSteps DEF Apply
<1>6. CASE w.ok /\ a.type = "remove_entries"
  BY <1>1, <1>6, RemoveEntriesSteps DEF Apply
<1>7. CASE w.ok /\ a.type = "notice"
  BY <1>1, <1>7, SetNoticeSteps DEF Apply
<1>8. CASE w.ok /\ a.type = "enable"
  BY <1>1, <1>8, SetEnabledSteps DEF Apply
<1>9. CASE w.ok /\ a.type = "remove"
  BY <1>1, <1>9, RemoveRuleSteps DEF Apply
<1> QED BY <1>1, <1>2, <1>3, <1>4, <1>5, <1>6, <1>7, <1>8, <1>9

-----------------------------------------------------------------------------
(* A whole plan.                                                           *)

\* The state t a plan leads to from s with the new IDs: what was there keeps its
\* name and is changed only when it is owned, and a new rule has its list.
Leads(s, t, reg, new) ==
  /\ \A i \in Ids \ new :
       /\ t.rules[i] # None => s.rules[i] # None /\ t.rules[i].name = s.rules[i].name
       /\ t.rules[i] # s.rules[i] => OwnsRule(reg, i, s.rules[i]) /\ s.rules[i] # None
       /\ t.lists[i] # None => s.lists[i] # None /\ t.lists[i].name = s.lists[i].name
       /\ t.lists[i] # s.lists[i] => OwnsList(reg, i, s.lists[i]) /\ s.lists[i] # None
  /\ \A i \in new : t.rules[i] # None => t.lists[i] # None

\* An action leads from where the actions before it have led.
LEMMA LeadsFurther ==
  ASSUME NEW s, NEW w, NEW v, NEW reg, NEW new \in SUBSET Ids,
         \A i \in new : ~Recorded(reg, i) /\ ~Present(s, i),
         Leads(s, w, reg, new), Range(w.fresh) \subseteq new, Stepped(w, v, reg)
  PROVE  /\ Leads(s, v, reg, new)
         /\ RemovesBoth(w, v) /\ RemovesBoth(s, w) => RemovesBoth(s, v)
<1>1. ASSUME NEW i \in Ids \ new
      PROVE  /\ v.rules[i] # None => s.rules[i] # None /\ v.rules[i].name = s.rules[i].name
             /\ v.rules[i] # s.rules[i] => OwnsRule(reg, i, s.rules[i]) /\ s.rules[i] # None
  BY <1>1 DEF Leads, Stepped, OwnsRule
<1>2. ASSUME NEW i \in Ids \ new
      PROVE  /\ v.lists[i] # None => s.lists[i] # None /\ v.lists[i].name = s.lists[i].name
             /\ v.lists[i] # s.lists[i] => OwnsList(reg, i, s.lists[i]) /\ s.lists[i] # None
  BY <1>2 DEF Leads, Stepped, OwnsList
<1>3. ASSUME NEW i \in new PROVE v.rules[i] # None => v.lists[i] # None
  BY <1>3 DEF Leads, Stepped, OwnsRule, OwnsList, Recorded
<1>4. ASSUME NEW i \in Ids, RemovesBoth(w, v), RemovesBoth(s, w),
             s.rules[i] # None, v.rules[i] = None
      PROVE  v.lists[i] = None
  <2>1. i \notin new
    BY <1>4 DEF Present
  <2>2. CASE w.rules[i] # None
    BY <1>4, <2>2 DEF RemovesBoth
  <2>3. CASE w.rules[i] = None
    BY <1>4, <2>1, <2>3 DEF RemovesBoth, Stepped
  <2> QED BY <2>2, <2>3
<1> QED BY <1>1, <1>2, <1>3, <1>4 DEF Leads, RemovesBoth

\* calculate_desired_state
LEMMA DesiredLeads ==
  ASSUME NEW s \in BlockedSenderState, NEW unmanaged, NEW plan \in Seq(PlanAction), NEW reg,
         NEW fresh \in Seq(Ids),
         \A i \in Range(fresh) : ~Recorded(reg, i) /\ ~Present(s, i),
         NEW t, t = Desired(s, unmanaged, plan, reg, fresh).state
  PROVE  /\ t \in BlockedSenderState /\ Leads(s, t, reg, Range(fresh))
         /\ (\A n \in DOMAIN plan : plan[n].type = "remove" => plan[n].remove_list)
              => RemovesBoth(s, t)
<1> DEFINE new == Range(fresh)
<1> DEFINE calc == Calculation(s, plan, reg, fresh)
<1> DEFINE both == \A n \in DOMAIN plan : plan[n].type = "remove" => plan[n].remove_list
<1> DEFINE T == {n \in 0 .. Len(plan) :
                   /\ calc[n] \in Working /\ Range(calc[n].fresh) \subseteq new
                   /\ Leads(s, calc[n], reg, new) /\ (both => RemovesBoth(s, calc[n]))}
<1>1. Len(plan) \in Nat /\ DOMAIN plan = 1 .. Len(plan)
      /\ \A n \in 1 .. Len(plan) : plan[n] \in PlanAction
  BY LenProperties, ElementOfSeq
<1>2. new \in SUBSET Ids
  BY ElementOfSeq, LenProperties DEF Range
<1>3. calc = [n \in 0 .. Len(plan) |-> IF n = 0 THEN Start(s, fresh)
                                       ELSE Apply(calc[n - 1], reg, plan[n])]
  BY <1>1, CalculationIs
<1> HIDE DEF new, calc, both
<1>4. 0 \in T
  <2>1. calc[0] = Start(s, fresh)
    BY <1>1, <1>3
  <2> DEFINE w == Start(s, fresh)
  <2>2. /\ w.rules = s.rules /\ w.lists = s.lists /\ w.fresh = fresh /\ w \in Working
    BY DEF Start, Working, Rules, Lists, BlockedSenderState
  <2> HIDE DEF w
  <2>3. Leads(s, w, reg, new) /\ RemovesBoth(s, w)
    BY <2>2 DEF Leads, RemovesBoth, Present, new
  <2> QED BY <1>1, <2>1, <2>2, <2>3 DEF w, new
<1>5. ASSUME NEW n \in 0 .. Len(plan) - 1, n \in T
      PROVE  n + 1 \in T
  <2>1. n + 1 \in 1 .. Len(plan) /\ n + 1 \in 0 .. Len(plan) /\ n + 1 # 0 /\ (n + 1) - 1 = n
    BY <1>1
  <2>2. calc[n + 1] = Apply(calc[n], reg, plan[n + 1])
    BY <1>3, <2>1
  <2> DEFINE w == calc[n]
  <2> DEFINE v == calc[n + 1]
  <2>3. /\ w \in Working /\ Range(w.fresh) \subseteq new
        /\ Leads(s, w, reg, new) /\ (both => RemovesBoth(s, w))
    BY <1>5
  <2>4. v = Apply(w, reg, plan[n + 1]) /\ plan[n + 1] \in PlanAction
    BY <1>1, <2>1, <2>2
  <2> HIDE DEF w, v
  <2>5. /\ Stepped(w, v, reg)
        /\ (plan[n + 1].type = "remove" => plan[n + 1].remove_list) => RemovesBoth(w, v)
    BY <2>3, <2>4, ApplySteps
  <2>6. both => RemovesBoth(w, v)
    BY <1>1, <2>1, <2>5 DEF both
  <2>7. \A i \in new : ~Recorded(reg, i) /\ ~Present(s, i)
    BY DEF new
  <2>8. Leads(s, v, reg, new) /\ (RemovesBoth(w, v) /\ RemovesBoth(s, w) => RemovesBoth(s, v))
    BY <1>2, <2>3, <2>5, <2>7, LeadsFurther
  <2>9. v \in Working /\ Range(v.fresh) \subseteq new
    BY <2>3, <2>5 DEF Stepped
  <2> QED BY <2>1, <2>3, <2>6, <2>8, <2>9 DEF v
<1>6. Len(plan) \in T
  <2>1. 0 .. Len(plan) \subseteq T
    <3> HIDE DEF T
    <3> QED BY <1>1, <1>4, <1>5, InductionUpTo
  <2> QED BY <1>1, <2>1
<1> DEFINE w == calc[Len(plan)]
<1>7. w \in Working /\ Leads(s, w, reg, new) /\ (both => RemovesBoth(s, w))
  BY <1>6
<1>8. t = [rules |-> w.rules, lists |-> w.lists]
  BY DEF Desired, calc
<1> HIDE DEF w
<1>9. t.rules = w.rules /\ t.lists = w.lists /\ t \in BlockedSenderState
  BY <1>7, <1>8 DEF Working, Rules, Lists, BlockedSenderState
<1> QED BY <1>7, <1>9 DEF Leads, RemovesBoth, new, both

\* The number of IDs a plan may need
LEMMA ProposedIdsType ==
  ASSUME NEW plan \in Seq(PlanAction)
  PROVE  ProposedIds(plan) \in Nat
<1>1. Len(plan) \in Nat /\ DOMAIN plan = 1 .. Len(plan)
  BY LenProperties
<1>2. IsFiniteSet(DOMAIN plan) /\ IsFiniteSet({1, 2})
  <2>1. IsFiniteSet(1 .. Len(plan))
    BY <1>1, 1 \in Int, Len(plan) \in Int, FS_Interval
  <2>2. IsFiniteSet(1 .. 2)
    BY 1 \in Int, 2 \in Int, FS_Interval
  <2>3. {1, 2} = 1 .. 2
    OBVIOUS
  <2> QED BY <1>1, <2>1, <2>2, <2>3
<1>3. IsFiniteSet((DOMAIN plan) \X {1, 2})
  BY <1>2, FS_Product
<1>4. ASSUME NEW S \in SUBSET ((DOMAIN plan) \X {1, 2})
      PROVE  Cardinality(S) \in Nat
  BY <1>3, FS_Subset, FS_CardinalityType
<1> QED BY <1>4 DEF ProposedIds

\* New IDs are of no use yet.
LEMMA FreshIdsAreNew ==
  ASSUME NEW n \in Nat, NEW fresh \in FreshIds(n), minted \subseteq Ids
  PROVE  fresh \in Seq(Ids) /\ Range(fresh) \subseteq Ids \ minted
<1>1. fresh \in [1 .. n -> Ids \ minted]
  BY DEF FreshIds
<1>2. fresh \in Seq(Ids)
  BY <1>1, SeqDef
<1> QED BY <1>1, <1>2 DEF Range

-----------------------------------------------------------------------------
(* The states in which a run, the registry and Google are.                 *)

\* A run that writes rules and lists, and one that writes an advanced rule
LEMMA KindsOfRun ==
  ASSUME TypeOK
  PROVE  /\ run.kind = "none" => run = NoRun
         /\ run.kind \in {"workflow", "attended"} => run \in PolicyRun
         /\ run.kind = "compliance" => run \in ComplianceRun
         /\ run = NoRun => run.kind = "none"
         /\ run.kind \in {"none", "workflow", "attended", "compliance"}
BY DEF TypeOK, NoRun, PolicyRun, ComplianceRun

\* What a policy run is about
LEMMA PolicyRunIs ==
  ASSUME TypeOK, run.kind \in {"workflow", "attended"}
  PROVE  /\ run.change \in Change /\ run.loaded \in Registry /\ run.written \in BOOLEAN
         /\ run.change.before.rules \in Rules /\ run.change.before.lists \in Lists
         /\ run.change.after.rules \in Rules /\ run.change.after.lists \in Lists
<1>1. run.change \in Change /\ run.loaded \in Registry /\ run.written \in BOOLEAN
  BY KindsOfRun DEF PolicyRun
<1>2. run.change.before \in BlockedSenderState /\ run.change.after \in BlockedSenderState
  BY <1>1 DEF Change
<1> QED BY <1>1, <1>2 DEF BlockedSenderState, Rules, Lists

LEMMA InitInv == Init => IInv
<1> SUFFICES ASSUME Init PROVE IInv
  OBVIOUS
<1>1. google \in BlockedSenderState /\ \A i \in Ids : ~Present(google, i)
  BY DEF Init, BlockedSenderState, Present
<1>2. registry \in Registry /\ \A i \in Ids : ~Recorded(registry, i)
  BY DEF Init, Registry, Recorded
<1>3. TypeOK
  <2>1. compliance \in [CIds -> CValues \cup {None}]
    BY DEF Init
  <2>2. 0 \in 0 .. MaxRuns /\ 0 \in 0 .. MaxEdits
    BY LedgerAssumption DEF LedgerAssumption
  <2>3. audits \subseteq Change /\ minted \subseteq Ids
    BY DEF Init
  <2> QED BY <1>1, <1>2, <2>1, <2>2, <2>3 DEF Init, TypeOK
<1>4. Minted
  BY <1>1, <1>2 DEF Init, Minted, NoRun
<1>5. Calculated /\ Unique
  BY <1>2 DEF Init, Calculated, Unique, NoRun, UniqueIds, Recorded
<1> QED BY <1>3, <1>4, <1>5 DEF IInv

\* A run begins with a change that its plan calculated.
LEMMA BeginInv ==
  ASSUME IInv, NEW kind \in {"workflow", "attended"}, NEW plan \in Seq(PlanAction),
         NEW fresh \in FreshIds(ProposedIds(plan)), NEW before \in BlockedSenderState,
         \A i \in Ids : /\ before.rules[i] \in {None, google.rules[i]}
                        /\ before.lists[i] \in {None, google.lists[i]},
         NEW unmanaged \in SUBSET RuleNames,
         kind = "attended" =>
           /\ \A i \in Ids : /\ before.rules[i] # None <=> registry.resources[i] # None
                             /\ before.lists[i] # None => Recorded(registry, i)
           /\ \A n \in DOMAIN plan : plan[n].type = "remove" => plan[n].remove_list,
         kind = "workflow" => before = google,
         Begin(kind, plan, fresh, before, unmanaged)
  PROVE  IInv'
<1> PICK after : after = Desired(before, unmanaged, plan, registry, fresh).state
  OBVIOUS
<1> DEFINE c == [before |-> before, after |-> after, unmanaged |-> unmanaged]
<1> DEFINE new == Range(fresh)
<1>1. /\ TypeOK /\ minted \subseteq Ids /\ Minted /\ Calculated /\ Unique
  BY DEF IInv, TypeOK
<1>2. fresh \in Seq(Ids) /\ new \subseteq Ids \ minted
  BY <1>1, ProposedIdsType, FreshIdsAreNew
<1>3. \A i \in Ids \ minted : ~Recorded(registry, i) /\ ~Present(before, i)
                              /\ ~Present(google, i) /\ \A d \in audits : ~Present(d.after, i)
  BY <1>1 DEF Minted, Present
<1>4. /\ after \in BlockedSenderState /\ Leads(before, after, registry, new)
      /\ kind = "attended" => RemovesBoth(before, after)
  <2>1. \A i \in Range(fresh) : ~Recorded(registry, i) /\ ~Present(before, i)
    BY <1>2, <1>3
  <2> QED BY <1>2, <2>1, DesiredLeads
<1>5. /\ run = NoRun /\ runs < MaxRuns /\ runs' = runs + 1
      /\ run' = [kind |-> kind, change |-> c, loaded |-> registry, written |-> FALSE]
      /\ minted' = minted \cup new
      /\ UNCHANGED <<google, compliance, registry, audits, edits, recovered>>
  BY DEF Begin
<1> HIDE DEF new
<1>6. c \in Change /\ c.before = before /\ c.after = after
  BY <1>4 DEF Change
<1> HIDE DEF c
<1>7. run' \in PolicyRun /\ run'.kind = kind /\ run'.change = c /\ run'.loaded = registry
      /\ run'.written = FALSE
  BY <1>1, <1>5, <1>6 DEF PolicyRun, TypeOK
<1>8. TypeOK'
  BY <1>1, <1>2, <1>5, <1>7, LedgerAssumption DEF TypeOK, LedgerAssumption
<1>9. \A i \in Ids : i \notin new =>
        /\ after.rules[i] # None => before.rules[i] # None
        /\ after.lists[i] # None => before.lists[i] # None
        /\ after.rules[i] # before.rules[i] =>
             OwnsRule(registry, i, before.rules[i]) /\ before.rules[i] # None
        /\ after.lists[i] # before.lists[i] =>
             OwnsList(registry, i, before.lists[i]) /\ before.lists[i] # None
  BY <1>4 DEF Leads
<1>10. \A i \in new : /\ i \in Ids \ minted /\ before.rules[i] = None /\ before.lists[i] = None
                      /\ google.rules[i] = None /\ google.lists[i] = None
                      /\ after.rules[i] # None => after.lists[i] # None
  BY <1>2, <1>3, <1>4 DEF Leads, Present
<1>11. Minted'
  <2> SUFFICES ASSUME NEW i \in Ids \ minted'
               PROVE  /\ ~Present(google, i) /\ ~Recorded(registry, i)
                      /\ \A d \in audits : ~Present(d.after, i)
                      /\ ~Present(after, i)
    BY <1>5, <1>6, <1>7 DEF Minted
  <2>1. i \in Ids \ minted /\ i \notin new
    BY <1>5
  <2> QED BY <1>3, <1>9, <2>1 DEF Present
<1>12. Owned(c, registry)
  BY <1>6, <1>9, <1>10 DEF Owned
<1>13. Unwritten(c)
  BY <1>6, <1>9, <1>10 DEF Unwritten
<1>14. \A i \in CreatedRules(c) \cup CreatedLists(c) : i \in new
  BY <1>6, <1>9 DEF CreatedRules, CreatedLists, Created
<1>15. CreatedRules(c) \subseteq CreatedLists(c)
  BY <1>6, <1>9, <1>10 DEF CreatedRules, CreatedLists, Created
<1>16. kind = "attended" => Attended(c, registry)
  BY <1>4, <1>6 DEF Attended, RemovedRules, Removed, RemovesBoth
<1>17. \A i \in CreatedRules(c) \cup CreatedLists(c) :
         ~Recorded(registry, i) /\ \A d \in audits : ~Present(d.after, i)
  BY <1>3, <1>10, <1>14
<1>18. Calculated'
  <2>1. Owned(c, registry)' /\ Unwritten(c)' /\ (kind = "attended" => Attended(c, registry)')
    BY <1>5, <1>12, <1>13, <1>16 DEF Owned, Unwritten, Attended
  <2>2. New(c)'
    BY <1>5, <1>7, <1>15, <1>17 DEF New
  <2> QED BY <1>5, <1>7, <2>1, <2>2 DEF Calculated
<1>19. Unique'
  BY <1>1, <1>5, <1>7 DEF Unique, UniqueIds
<1> QED BY <1>8, <1>11, <1>18, <1>19 DEF IInv

LEMMA BeginWorkflowInv ==
  ASSUME IInv, NEW plan \in WorkflowPlans, NEW fresh \in FreshIds(ProposedIds(plan)),
         BeginWorkflow(plan, fresh)
  PROVE  IInv'
<1>1. PICK before : before = google
  OBVIOUS
<1>2. before \in BlockedSenderState /\ plan \in Seq(PlanAction) /\ {} \in SUBSET RuleNames
  BY <1>1, LedgerAssumption DEF IInv, TypeOK, LedgerAssumption
<1>3. Begin("workflow", plan, fresh, before, {})
  BY <1>1 DEF BeginWorkflow
<1> QED BY <1>1, <1>2, <1>3, BeginInv

\* An attended run reads the rules that have a record, and lists that have one.
LEMMA AttendedReadIs ==
  ASSUME TypeOK, SnapshotAvailable(registry), AttendedReadable(Snapshot(registry)),
         NEW before, before = AttendedRead(Snapshot(registry))
  PROVE  /\ before \in BlockedSenderState
         /\ \A i \in Ids :
              /\ before.rules[i] \in {None, google.rules[i]}
              /\ before.lists[i] \in {None, google.lists[i]}
              /\ before.rules[i] # None <=> registry.resources[i] # None
              /\ before.lists[i] # None => Recorded(registry, i)
<1> DEFINE expected == Snapshot(registry)
<1>1. /\ google.rules \in Rules /\ google.lists \in Lists
  BY DEF TypeOK, BlockedSenderState, Rules, Lists
<1>2. /\ expected.rules = SnapshotRules(registry) /\ expected.lists = SnapshotLists(registry)
  BY DEF Snapshot
<1>3. \A i \in Ids : /\ expected.rules[i] # None <=> registry.resources[i] # None
                     /\ expected.lists[i] # None => Recorded(registry, i)
  BY <1>2 DEF SnapshotRules, SnapshotLists, SnapshotAvailable, HasSnapshots, Recorded
<1> HIDE DEF expected
<1>4. \A i \in Ids : expected.rules[i] # None => google.rules[i] # None
  BY DEF AttendedReadable, expected
<1> DEFINE rules == [i \in Ids |-> IF expected.rules[i] = None THEN None ELSE google.rules[i]]
<1> DEFINE lists == [j \in Ids |-> IF /\ expected.lists[j] # None
                                      /\ expected.lists[j].name \in Referred(rules)
                                     THEN google.lists[j] ELSE None]
<1>5. before.rules = rules /\ before.lists = lists /\ before = [rules |-> rules, lists |-> lists]
  BY DEF AttendedRead, expected
<1>6. rules \in Rules /\ lists \in Lists
  BY <1>1 DEF Rules, Lists
<1>7. before \in BlockedSenderState
  <2> HIDE DEF rules, lists
  <2> QED BY <1>5, <1>6 DEF BlockedSenderState, Rules, Lists
<1>8. \A i \in Ids : /\ rules[i] = IF expected.rules[i] = None THEN None ELSE google.rules[i]
                     /\ lists[i] \in {None, google.lists[i]}
                     /\ lists[i] # None => expected.lists[i] # None
  OBVIOUS
<1> HIDE DEF rules, lists
<1> QED BY <1>3, <1>4, <1>5, <1>7, <1>8

LEMMA BeginAttendedInv ==
  ASSUME IInv, NEW plan \in AttendedPlans, NEW fresh \in FreshIds(ProposedIds(plan)),
         BeginAttended(plan, fresh)
  PROVE  IInv'
<1>1. PICK before : before = AttendedRead(Snapshot(registry))
  OBVIOUS
<1>2. PICK unmanaged : unmanaged = UnmanagedNames(Snapshot(registry))
  OBVIOUS
<1>3. /\ plan \in Seq(PlanAction)
      /\ \A n \in DOMAIN plan : plan[n].type = "remove" => plan[n].remove_list
  BY LedgerAssumption DEF LedgerAssumption
<1>4. /\ SnapshotAvailable(registry) /\ AttendedReadable(Snapshot(registry))
      /\ Begin("attended", plan, fresh, before, unmanaged)
  BY <1>1, <1>2 DEF BeginAttended
<1>5. TypeOK /\ google.rules \in Rules
  BY DEF IInv, TypeOK, BlockedSenderState, Rules
<1>6. unmanaged \in SUBSET RuleNames
  BY <1>2, <1>5 DEF UnmanagedNames, Rules, ManagedBlockedSenderRule
<1>7. /\ before \in BlockedSenderState
      /\ \A i \in Ids :
           /\ before.rules[i] \in {None, google.rules[i]}
           /\ before.lists[i] \in {None, google.lists[i]}
           /\ before.rules[i] # None <=> registry.resources[i] # None
           /\ before.lists[i] # None => Recorded(registry, i)
  BY <1>1, <1>4, <1>5, AttendedReadIs
<1> QED BY <1>3, <1>4, <1>6, <1>7, BeginInv

LEMMA BeginComplianceInv ==
  ASSUME IInv, NEW x \in CIds, NEW v \in CValues \cup {None}, BeginCompliance(x, v)
  PROVE  IInv'
<1>1. /\ run' = [kind |-> "compliance", id |-> x, value |-> v, loaded |-> registry,
                 written |-> FALSE]
      /\ runs < MaxRuns /\ runs' = runs + 1
      /\ UNCHANGED <<google, compliance, registry, audits, minted, edits, recovered>>
  BY DEF BeginCompliance
<1>2. run' \in ComplianceRun /\ run'.kind = "compliance" /\ run'.loaded = registry
  BY <1>1 DEF ComplianceRun, IInv, TypeOK
<1>3. TypeOK'
  BY <1>1, <1>2, LedgerAssumption DEF IInv, TypeOK, LedgerAssumption
<1>4. Minted'
  BY <1>1, <1>2 DEF IInv, Minted
<1>5. Calculated' /\ Unique'
  BY <1>1, <1>2 DEF IInv, Calculated, Unique, UniqueIds
<1> QED BY <1>3, <1>4, <1>5 DEF IInv

\* What the browser writes of a change
LEMMA WrittenIs ==
  ASSUME TypeOK, Write, run.kind \in {"workflow", "attended"}
  PROVE  /\ google' \in BlockedSenderState
         /\ \A i \in Ids :
              /\ google'.rules[i] = IF run.change.after.rules[i] # run.change.before.rules[i]
                                      THEN run.change.after.rules[i] ELSE google.rules[i]
              /\ google'.lists[i] = IF run.change.after.lists[i] # run.change.before.lists[i]
                                      THEN run.change.after.lists[i] ELSE google.lists[i]
<1> DEFINE c == run.change
<1> DEFINE rules == [i \in Ids |-> IF i \in Changed(c.before.rules, c.after.rules)
                                     THEN c.after.rules[i] ELSE google.rules[i]]
<1> DEFINE lists == [i \in Ids |-> IF i \in Changed(c.before.lists, c.after.lists)
                                     THEN c.after.lists[i] ELSE google.lists[i]]
<1>1. /\ c.after.rules \in Rules /\ c.after.lists \in Lists
      /\ google.rules \in Rules /\ google.lists \in Lists
  BY PolicyRunIs DEF TypeOK, BlockedSenderState, Rules, Lists
<1>2. google' = [rules |-> rules, lists |-> lists]
  BY DEF Write
<1>3. rules \in Rules /\ lists \in Lists
  BY <1>1 DEF Rules, Lists
<1>4. \A i \in Ids :
        /\ rules[i] = IF c.after.rules[i] # c.before.rules[i]
                        THEN c.after.rules[i] ELSE google.rules[i]
        /\ lists[i] = IF c.after.lists[i] # c.before.lists[i]
                        THEN c.after.lists[i] ELSE google.lists[i]
  BY DEF Changed
<1> HIDE DEF rules, lists
<1> QED BY <1>2, <1>3, <1>4 DEF BlockedSenderState, Rules, Lists

LEMMA WriteInv ==
  ASSUME IInv, Write
  PROVE  IInv'
<1>1. TypeOK /\ Minted /\ Calculated /\ Unique
  BY DEF IInv
<1>2. /\ run # NoRun /\ ~run.written /\ run' = [run EXCEPT !.written = TRUE]
      /\ UNCHANGED <<registry, audits, minted, runs, edits, recovered>>
  BY DEF Write
<1>3. CASE run.kind \in {"workflow", "attended"}
  <2>1. /\ google' \in BlockedSenderState
        /\ \A i \in Ids :
             /\ google'.rules[i] = IF run.change.after.rules[i] # run.change.before.rules[i]
                                     THEN run.change.after.rules[i] ELSE google.rules[i]
             /\ google'.lists[i] = IF run.change.after.lists[i] # run.change.before.lists[i]
                                     THEN run.change.after.lists[i] ELSE google.lists[i]
    BY <1>1, <1>3, WrittenIs
  <2>2. compliance' = compliance
    BY <1>3 DEF Write
  <2>3. /\ run' \in PolicyRun /\ run'.kind = run.kind /\ run'.change = run.change
        /\ run'.loaded = run.loaded /\ run'.written = TRUE
    BY <1>1, <1>2, <1>3, KindsOfRun DEF PolicyRun
  <2>4. TypeOK'
    BY <1>1, <1>2, <2>1, <2>2, <2>3 DEF TypeOK
  <2>5. Minted'
    BY <1>1, <1>2, <1>3, <2>1, <2>3 DEF Minted, Present
  <2>6. Owned(run.change, run.loaded)' /\ New(run.change)'
        /\ (run.kind = "attended" => Attended(run.change, run.loaded)')
    BY <1>1, <1>2, <1>3, <2>3 DEF Calculated, Owned, New, Attended
  <2>7. Gone(run.change)'
    BY <1>1, <2>1, <2>3 DEF Gone, RemovedRules, RemovedLists, Removed
  <2>8. Calculated'
    BY <2>3, <2>6, <2>7 DEF Calculated
  <2>9. Unique'
    BY <1>1, <1>2, <1>3, <2>3 DEF Unique, UniqueIds
  <2> QED BY <2>4, <2>5, <2>8, <2>9 DEF IInv
<1>4. CASE run.kind = "compliance"
  <2>1. run \in ComplianceRun /\ run.id \in CIds /\ run.value \in CValues \cup {None}
    BY <1>1, <1>4, KindsOfRun DEF ComplianceRun
  <2>2. google' = google /\ compliance' = [compliance EXCEPT ![run.id] = run.value]
    BY <1>4 DEF Write
  <2>3. /\ run' \in ComplianceRun /\ run'.kind = run.kind /\ run'.loaded = run.loaded
    BY <1>2, <2>1 DEF ComplianceRun
  <2>4. compliance' \in [CIds -> CValues \cup {None}]
    BY <1>1, <2>1, <2>2 DEF TypeOK
  <2>5. TypeOK'
    BY <1>1, <1>2, <2>2, <2>3, <2>4 DEF TypeOK
  <2>6. Minted'
    BY <1>1, <1>2, <1>4, <2>2, <2>3 DEF Minted
  <2>7. Calculated' /\ Unique'
    BY <1>1, <1>2, <1>4, <2>3 DEF Calculated, Unique, UniqueIds
  <2> QED BY <2>5, <2>6, <2>7 DEF IInv
<1> QED BY <1>1, <1>2, <1>3, <1>4, KindsOfRun

-----------------------------------------------------------------------------
(* Commits.                                                                *)

\* Records
LEMMA RecordTypes ==
  ASSUME NEW rule \in ManagedBlockedSenderRule, NEW list \in ManagedAddressList \cup {None}
  PROVE  /\ SnapshotRecord(rule, list) \in CreatedRecord /\ SnapshotRecord(rule, list) # None
         /\ list # None => /\ Unverified(rule, list) \in CreatedRecord
                           /\ Unverified(rule, list) # None
<1>1. ListOf(rule, list) \in ListNames
  <2>1. rule.lists \in Seq(ListNames) /\ rule.lists # <<>>
    BY DEF ManagedBlockedSenderRule
  <2>2. rule.lists[1] \in ListNames
    BY <2>1, ElementOfSeq, LenProperties, EmptySeq
  <2> QED BY <2>2 DEF ListOf, ManagedAddressList
<1>2. rule.name \in RuleNames
  BY DEF ManagedBlockedSenderRule
<1>3. SnapshotRecord(rule, list) \in CreatedRecord
  BY <1>1, <1>2 DEF SnapshotRecord, CreatedRecord
<1>4. list # None => Unverified(rule, list) \in CreatedRecord
  BY <1>2 DEF Unverified, CreatedRecord, ManagedAddressList
<1> QED BY <1>3, <1>4, LedgerAssumption DEF LedgerAssumption

LEMMA ListRecordTypes ==
  ASSUME NEW list \in ManagedAddressList, NEW snapshot \in ManagedAddressList \cup {None}
  PROVE  /\ [name |-> list.name, snapshot |-> snapshot] \in ListRecord
         /\ [name |-> list.name, snapshot |-> snapshot] # None
<1>1. [name |-> list.name, snapshot |-> snapshot] \in ListRecord
  BY DEF ListRecord, ManagedAddressList
<1> QED BY <1>1, LedgerAssumption DEF LedgerAssumption

\* What commit_verified makes of the record of an ID
VerifiedRecords(c, reg, commit) ==
  \A i \in Ids :
     /\ IF i \in CreatedRules(c) /\ reg.resources[i] = None
          THEN commit.resources[i] = Unverified(c.after.rules[i], c.after.lists[i])
        ELSE IF i \in RemovedRules(c) /\ i \in RemovedLists(c)
          THEN commit.resources[i] = None
        ELSE commit.resources[i] = reg.resources[i]
     /\ IF i \in CreatedLists(c) /\ i \notin CreatedRules(c) /\ reg.address_lists[i] = None
          THEN commit.address_lists[i]
                 = [name |-> c.after.lists[i].name, snapshot |-> None]
        ELSE IF i \in RemovedLists(c)
          THEN commit.address_lists[i] = None
        ELSE commit.address_lists[i] = reg.address_lists[i]

LEMMA CommitVerifiedIs ==
  ASSUME NEW c, NEW reg \in Registry, NEW commit, commit = CommitVerified(c, reg),
         c.before.rules \in Rules, c.before.lists \in Lists,
         c.after.rules \in Rules, c.after.lists \in Lists,
         CreatedRules(c) \subseteq CreatedLists(c)
  PROVE  commit \in Registry /\ VerifiedRecords(c, reg, commit)
<1> DEFINE list(i) == CASE i \in CreatedLists(c) \ CreatedRules(c) /\ reg.address_lists[i] = None ->
                             [name |-> c.after.lists[i].name, snapshot |-> None]
                        [] i \in RemovedLists(c) -> None
                        [] OTHER -> reg.address_lists[i]
<1>1. \A i \in Ids : /\ ~(i \in CreatedRules(c) /\ i \in RemovedRules(c))
                     /\ ~(i \in CreatedLists(c) /\ i \in RemovedLists(c))
  BY DEF CreatedRules, RemovedRules, CreatedLists, RemovedLists, Created, Removed
<1>2. /\ reg.resources \in [Ids -> CreatedRecord \cup {None}]
      /\ reg.address_lists \in [Ids -> ListRecord \cup {None}]
      /\ reg.compliance \in [CIds -> CValues \cup {None}]
  BY DEF Registry
<1>3. ASSUME NEW i \in Ids, i \in CreatedRules(c)
      PROVE  Unverified(c.after.rules[i], c.after.lists[i]) \in CreatedRecord
  <2>1. /\ c.after.rules[i] \in ManagedBlockedSenderRule /\ c.after.lists[i] # None
        /\ c.after.lists[i] \in ManagedAddressList \cup {None}
    BY <1>3 DEF CreatedRules, CreatedLists, Created, Rules, Lists
  <2> QED BY <2>1, RecordTypes
<1>4. ASSUME NEW i \in Ids, i \in CreatedLists(c)
      PROVE  [name |-> c.after.lists[i].name, snapshot |-> None] \in ListRecord
  <2>1. c.after.lists[i] \in ManagedAddressList
    BY <1>4 DEF CreatedLists, Created, Lists
  <2> QED BY <2>1, ListRecordTypes
<1>5. ASSUME NEW i \in Ids
      PROVE  /\ VerifiedResource(c, reg, i) \in CreatedRecord \cup {None}
             /\ VerifiedResource(c, reg, i)
                  = IF i \in CreatedRules(c) /\ reg.resources[i] = None
                      THEN Unverified(c.after.rules[i], c.after.lists[i])
                    ELSE IF i \in RemovedRules(c) /\ i \in RemovedLists(c) THEN None
                    ELSE reg.resources[i]
  BY <1>1, <1>2, <1>3 DEF VerifiedResource
<1>6. ASSUME NEW i \in Ids
      PROVE  /\ list(i) \in ListRecord \cup {None}
             /\ list(i) = IF i \in CreatedLists(c) /\ i \notin CreatedRules(c) /\ reg.address_lists[i] = None
                            THEN [name |-> c.after.lists[i].name, snapshot |-> None]
                          ELSE IF i \in RemovedLists(c) THEN None
                          ELSE reg.address_lists[i]
  BY <1>1, <1>2, <1>4
<1>7. commit = [resources |-> [i \in Ids |-> VerifiedResource(c, reg, i)],
                address_lists |-> [i \in Ids |-> list(i)], compliance |-> reg.compliance]
  BY DEF CommitVerified
<1> HIDE DEF list
<1>8. commit \in Registry
  BY <1>2, <1>5, <1>6, <1>7 DEF Registry
<1>9. \A i \in Ids : /\ commit.resources[i] = VerifiedResource(c, reg, i)
                     /\ commit.address_lists[i] = list(i)
  BY <1>7
<1> QED BY <1>5, <1>6, <1>8, <1>9 DEF VerifiedRecords

\* What _commit_ownership makes of the record of an ID
OwnershipRecords(c, reg, commit) ==
  \A i \in Ids :
     /\ IF c.after.rules[i] # None
          THEN /\ commit.resources[i] = SnapshotRecord(c.after.rules[i], c.after.lists[i])
               /\ commit.resources[i] # None
        ELSE IF i \in RemovedRules(c) THEN commit.resources[i] = None
        ELSE commit.resources[i] = reg.resources[i]
     /\ IF c.after.lists[i] # None /\ commit.resources[i] = None
          THEN commit.address_lists[i]
                 = [name |-> c.after.lists[i].name, snapshot |-> c.after.lists[i]]
        ELSE IF i \in RemovedLists(c) THEN commit.address_lists[i] = None
        ELSE commit.address_lists[i] = reg.address_lists[i]

LEMMA CommitOwnershipIs ==
  ASSUME NEW c, NEW reg \in Registry, NEW commit, commit = CommitOwnership(c, reg),
         c.before.rules \in Rules, c.before.lists \in Lists,
         c.after.rules \in Rules, c.after.lists \in Lists
  PROVE  commit \in Registry /\ OwnershipRecords(c, reg, commit)
<1> DEFINE resource(i) ==
      CASE c.after.rules[i] # None -> SnapshotRecord(c.after.rules[i], c.after.lists[i])
        [] i \in RemovedRules(c) -> None
        [] OTHER -> reg.resources[i]
<1> DEFINE resources == [i \in Ids |-> resource(i)]
<1> DEFINE list(i) ==
      CASE IndependentList(c, resources, i) ->
             [name |-> c.after.lists[i].name, snapshot |-> c.after.lists[i]]
        [] i \in RemovedLists(c) -> None
        [] OTHER -> reg.address_lists[i]
<1>1. /\ reg.resources \in [Ids -> CreatedRecord \cup {None}]
      /\ reg.address_lists \in [Ids -> ListRecord \cup {None}]
      /\ reg.compliance \in [CIds -> CValues \cup {None}]
  BY DEF Registry
<1>2. \A i \in Ids : /\ i \in RemovedRules(c) => c.after.rules[i] = None
                     /\ i \in RemovedLists(c) => c.after.lists[i] = None
  BY DEF RemovedRules, RemovedLists, Removed
<1>3. ASSUME NEW i \in Ids, c.after.rules[i] # None
      PROVE  /\ SnapshotRecord(c.after.rules[i], c.after.lists[i]) \in CreatedRecord
             /\ SnapshotRecord(c.after.rules[i], c.after.lists[i]) # None
  <2>1. /\ c.after.rules[i] \in ManagedBlockedSenderRule
        /\ c.after.lists[i] \in ManagedAddressList \cup {None}
    BY <1>3 DEF Rules, Lists
  <2> QED BY <2>1, RecordTypes
<1>4. ASSUME NEW i \in Ids, c.after.lists[i] # None
      PROVE  [name |-> c.after.lists[i].name, snapshot |-> c.after.lists[i]] \in ListRecord
  <2>1. c.after.lists[i] \in ManagedAddressList
    BY <1>4 DEF Lists
  <2> QED BY <2>1, ListRecordTypes
<1>5. ASSUME NEW i \in Ids
      PROVE  /\ resource(i) \in CreatedRecord \cup {None}
             /\ IF c.after.rules[i] # None
                  THEN /\ resource(i) = SnapshotRecord(c.after.rules[i], c.after.lists[i])
                       /\ resource(i) # None
                ELSE IF i \in RemovedRules(c) THEN resource(i) = None
                ELSE resource(i) = reg.resources[i]
  BY <1>1, <1>2, <1>3
<1> HIDE DEF resource
<1>6. resources \in [Ids -> CreatedRecord \cup {None}] /\ \A i \in Ids : resources[i] = resource(i)
  BY <1>5
<1> HIDE DEF resources
<1>7. ASSUME NEW i \in Ids
      PROVE  /\ list(i) \in ListRecord \cup {None}
             /\ IF c.after.lists[i] # None /\ resources[i] = None
                  THEN list(i) = [name |-> c.after.lists[i].name, snapshot |-> c.after.lists[i]]
                ELSE IF i \in RemovedLists(c) THEN list(i) = None
                ELSE list(i) = reg.address_lists[i]
  BY <1>1, <1>2, <1>4 DEF IndependentList
<1>8. commit = [resources |-> resources, address_lists |-> [i \in Ids |-> list(i)],
                compliance |-> reg.compliance]
  BY DEF CommitOwnership, resources, resource
<1> HIDE DEF list
<1>9. commit \in Registry
  BY <1>1, <1>6, <1>7, <1>8 DEF Registry
<1>10. \A i \in Ids : commit.resources[i] = resource(i) /\ commit.address_lists[i] = list(i)
                      /\ commit.resources[i] = resources[i]
  BY <1>6, <1>8
<1> QED BY <1>5, <1>7, <1>9, <1>10 DEF OwnershipRecords

\* A run ends.
LEMMA EndInv ==
  ASSUME IInv, run' = NoRun, UNCHANGED <<google, compliance, minted, runs, edits, recovered>>,
         registry' \in Registry, \A i \in Ids \ minted : ~Recorded(registry', i),
         UniqueIds(registry'), audits' \subseteq Change,
         \A d \in audits' : \A i \in Ids \ minted : ~Present(d.after, i)
  PROVE  IInv'
<1>1. run'.kind = "none"
  BY DEF NoRun
<1>2. TypeOK'
  BY DEF IInv, TypeOK
<1>3. Minted'
  BY <1>1 DEF IInv, Minted
<1>4. Calculated' /\ Unique'
  BY <1>1 DEF Calculated, Unique
<1> QED BY <1>2, <1>3, <1>4 DEF IInv

\* The registry and the audits as they are fit.
LEMMA AsTheyAre ==
  ASSUME IInv
  PROVE  /\ registry \in Registry /\ UniqueIds(registry) /\ audits \subseteq Change
         /\ \A i \in Ids \ minted : ~Recorded(registry, i)
         /\ \A d \in audits : \A i \in Ids \ minted : ~Present(d.after, i)
BY DEF IInv, TypeOK, Unique, Minted

LEMMA FinishWorkflowInv ==
  ASSUME IInv, NEW saved \in BOOLEAN, FinishWorkflow(saved)
  PROVE  IInv'
<1>1. /\ run.kind = "workflow" /\ run' = NoRun
      /\ UNCHANGED <<google, compliance, minted, runs, edits, recovered>>
      /\ TypeOK /\ Minted /\ Calculated
  BY DEF FinishWorkflow, IInv
<1>2. PICK c : c = run.change
  OBVIOUS
<1>3. /\ c \in Change /\ c.before.rules \in Rules /\ c.before.lists \in Lists
      /\ c.after.rules \in Rules /\ c.after.lists \in Lists
      /\ CreatedRules(c) \subseteq CreatedLists(c)
      /\ \A i \in Ids \ minted : ~Present(c.after, i)
  BY <1>1, <1>2, PolicyRunIs DEF Calculated, New, Minted
<1>4. /\ audits' \in {audits, audits \cup {c}}
      /\ registry' = registry \/ (/\ registry' = CommitVerified(c, registry)
                                  /\ UniqueIds(CommitVerified(c, registry)))
  BY <1>2 DEF FinishWorkflow
<1>5. audits' \subseteq Change /\ \A d \in audits' : \A i \in Ids \ minted : ~Present(d.after, i)
  BY <1>3, <1>4, AsTheyAre
<1>6. CASE registry' = registry
  BY <1>1, <1>5, <1>6, AsTheyAre, EndInv
<1>7. CASE registry' = CommitVerified(c, registry) /\ UniqueIds(CommitVerified(c, registry))
  <2>1. PICK commit : commit = CommitVerified(c, registry)
    OBVIOUS
  <2>2. registry \in Registry /\ \A i \in Ids \ minted : ~Recorded(registry, i)
    BY AsTheyAre
  <2>3. commit \in Registry /\ VerifiedRecords(c, registry, commit)
    BY <1>3, <2>1, <2>2, CommitVerifiedIs
  <2>4. \A i \in Ids : /\ i \in CreatedRules(c) => c.after.rules[i] # None
                       /\ i \in CreatedLists(c) => c.after.lists[i] # None
    BY DEF CreatedRules, CreatedLists, Created
  <2>5. ASSUME NEW i \in Ids, i \notin minted PROVE ~Recorded(commit, i)
    <3>1. i \notin CreatedRules(c) /\ i \notin CreatedLists(c)
      BY <1>3, <2>4, <2>5 DEF Present
    <3>2. /\ commit.resources[i] \in {None, registry.resources[i]}
          /\ commit.address_lists[i] \in {None, registry.address_lists[i]}
      BY <2>3, <3>1 DEF VerifiedRecords
    <3> QED BY <2>2, <2>5, <3>2 DEF Recorded
  <2>6. registry' = commit /\ UniqueIds(registry')
    BY <1>7, <2>1
  <2> QED BY <1>1, <1>5, <2>3, <2>5, <2>6, EndInv
<1> QED BY <1>4, <1>6, <1>7

LEMMA FinishAttendedInv ==
  ASSUME IInv, NEW saved \in BOOLEAN, FinishAttended(saved)
  PROVE  IInv'
<1>1. /\ run.kind = "attended" /\ run' = NoRun /\ audits' = audits
      /\ UNCHANGED <<google, compliance, minted, runs, edits, recovered>>
      /\ TypeOK /\ Minted /\ Calculated
  BY DEF FinishAttended, IInv
<1>2. PICK c, loaded : c = run.change /\ loaded = run.loaded
  OBVIOUS
<1>3. /\ c.before.rules \in Rules /\ c.before.lists \in Lists
      /\ c.after.rules \in Rules /\ c.after.lists \in Lists /\ loaded \in Registry
      /\ \A i \in Ids \ minted : ~Present(c.after, i) /\ ~Recorded(loaded, i)
  BY <1>1, <1>2, PolicyRunIs DEF Minted
<1>4. registry' = registry \/ (/\ registry' = CommitOwnership(c, loaded)
                               /\ UniqueIds(CommitOwnership(c, loaded)))
  BY <1>2 DEF FinishAttended
<1>5. CASE registry' = registry
  BY <1>1, <1>5, AsTheyAre, EndInv
<1>6. CASE registry' = CommitOwnership(c, loaded) /\ UniqueIds(CommitOwnership(c, loaded))
  <2>1. PICK commit : commit = CommitOwnership(c, loaded)
    OBVIOUS
  <2>2. commit \in Registry /\ OwnershipRecords(c, loaded, commit)
    BY <1>3, <2>1, CommitOwnershipIs
  <2>3. ASSUME NEW i \in Ids, i \notin minted PROVE ~Recorded(commit, i)
    <3>1. c.after.rules[i] = None /\ c.after.lists[i] = None
      BY <1>3, <2>3 DEF Present
    <3>2. /\ commit.resources[i] \in {None, loaded.resources[i]}
          /\ commit.address_lists[i] \in {None, loaded.address_lists[i]}
      BY <2>2, <3>1 DEF OwnershipRecords
    <3> QED BY <1>3, <2>3, <3>2 DEF Recorded
  <2>4. registry' = commit /\ UniqueIds(registry')
    BY <1>6, <2>1
  <2> QED BY <1>1, <2>2, <2>3, <2>4, AsTheyAre, EndInv
<1> QED BY <1>4, <1>5, <1>6

LEMMA FinishComplianceInv ==
  ASSUME IInv, NEW saved \in BOOLEAN, FinishCompliance(saved)
  PROVE  IInv'
<1>1. /\ run.kind = "compliance" /\ run' = NoRun /\ audits' = audits
      /\ UNCHANGED <<google, compliance, minted, runs, edits, recovered>>
      /\ TypeOK /\ Minted /\ Unique
  BY DEF FinishCompliance, IInv
<1>2. /\ run.loaded \in Registry /\ UniqueIds(run.loaded)
      /\ \A i \in Ids \ minted : ~Recorded(run.loaded, i)
  BY <1>1, KindsOfRun DEF ComplianceRun, Minted, Unique
<1>3. CASE registry' = registry
  BY <1>1, <1>3, AsTheyAre, EndInv
<1>4. CASE registry' # registry
  <2> DEFINE kept == [x \in CIds |-> IF x = run.id \/ run.loaded.compliance[x] # None
                                       THEN compliance[x] ELSE None]
  <2>1. registry' = [run.loaded EXCEPT !.compliance = kept]
    BY <1>4 DEF FinishCompliance
  <2>2. kept \in [CIds -> CValues \cup {None}]
    BY <1>1 DEF TypeOK
  <2> HIDE DEF kept
  <2>3. /\ registry' \in Registry /\ registry'.resources = run.loaded.resources
        /\ registry'.address_lists = run.loaded.address_lists
    BY <1>2, <2>1, <2>2 DEF Registry
  <2>4. UniqueIds(registry') /\ \A i \in Ids \ minted : ~Recorded(registry', i)
    BY <1>2, <2>3 DEF UniqueIds, Recorded
  <2> QED BY <1>1, <2>3, <2>4, AsTheyAre, EndInv
<1> QED BY <1>3, <1>4

LEMMA AbandonInv ==
  ASSUME IInv, Abandon
  PROVE  IInv'
<1>1. /\ run' = NoRun
      /\ UNCHANGED <<google, compliance, registry, audits, minted, runs, edits, recovered>>
  BY DEF Abandon
<1> QED BY <1>1, AsTheyAre, EndInv

\* Recovery records what an audit shows, and nothing a run is about to create.
LEMMA RecoverInv ==
  ASSUME IInv, NEW i \in Ids, NEW c \in audits, Recover(i, c)
  PROVE  IInv'
<1>1. TypeOK /\ Minted /\ Calculated /\ Unique
  BY DEF IInv
<1> DEFINE record == Unverified(c.after.rules[i], c.after.lists[i])
<1>2. c.after.rules[i] # None /\ c.after.lists[i] # None
  BY DEF Recover, VerifiedCreation, ExactPair
<1>3. record \in CreatedRecord
  <2>1. c.after \in BlockedSenderState
    BY <1>1 DEF TypeOK, Change
  <2>2. c.after.rules[i] \in ManagedBlockedSenderRule
        /\ c.after.lists[i] \in ManagedAddressList \cup {None}
    BY <1>2, <2>1 DEF BlockedSenderState
  <2> QED BY <1>2, <2>2, RecordTypes
<1> DEFINE resources == [registry.resources EXCEPT ![i] = record]
<1>4. /\ registry' = [resources |-> resources, address_lists |-> [j \in Ids |-> None],
                      compliance |-> [d \in CIds |-> None]]
      /\ recovered' = TRUE
      /\ UNCHANGED <<google, compliance, run, audits, minted, runs, edits>>
  BY DEF Recover
<1> HIDE DEF record
<1>5. resources \in [Ids -> CreatedRecord \cup {None}]
      /\ \A j \in Ids : j # i => resources[j] = registry.resources[j]
  BY <1>1, <1>3 DEF TypeOK, Registry
<1> HIDE DEF resources
<1>6. /\ registry' \in Registry /\ registry'.resources = resources
      /\ \A j \in Ids : registry'.address_lists[j] = None
  BY <1>4, <1>5 DEF Registry
<1>7. \A j \in Ids : Recorded(registry', j) => Recorded(registry, j) \/ j = i
  BY <1>5, <1>6 DEF Recorded
<1>8. TypeOK'
  BY <1>1, <1>4, <1>6 DEF TypeOK
<1>9. Minted'
  BY <1>1, <1>2, <1>4, <1>7 DEF Minted, Present
<1>10. Calculated'
  <2> SUFFICES ASSUME run.kind \in {"workflow", "attended"}
               PROVE  New(run.change)'
    BY <1>1, <1>4 DEF Calculated, Owned, Gone, Unwritten, Attended
  <2>1. New(run.change)
    BY <1>1 DEF Calculated
  <2>2. i \notin CreatedRules(run.change) \cup CreatedLists(run.change)
    BY <1>2, <2>1 DEF New, Present
  <2>3. \A j \in CreatedRules(run.change) \cup CreatedLists(run.change) : j \in Ids
    BY DEF CreatedRules, CreatedLists, Created
  <2> QED BY <1>4, <1>7, <2>1, <2>2, <2>3 DEF New
<1>11. Unique'
  BY <1>1, <1>4, <1>6 DEF Unique, UniqueIds
<1> QED BY <1>8, <1>9, <1>10, <1>11 DEF IInv

\* Other administrators create nothing and rename nothing.
LEMMA EditsKeepNames ==
  ASSUME TypeOK, NEW g \in Edits
  PROVE  /\ g \in BlockedSenderState
         /\ \A i \in Ids :
              /\ g.rules[i] # None => google.rules[i] # None /\ g.rules[i].name = google.rules[i].name
              /\ g.lists[i] # None => google.lists[i] # None /\ g.lists[i].name = google.lists[i].name
<1>1. /\ google = [rules |-> google.rules, lists |-> google.lists]
      /\ google.rules \in Rules /\ google.lists \in Lists
  BY DEF TypeOK, BlockedSenderState, Rules, Lists
<1>2. \/ \E i \in Ids : google.rules[i] # None /\ g = [google EXCEPT !.rules[i] = None]
      \/ \E i \in Ids : /\ google.rules[i] # None
                        /\ g = [google EXCEPT !.rules[i].enabled = ~google.rules[i].enabled]
      \/ \E i \in Ids : google.lists[i] # None /\ g = [google EXCEPT !.lists[i] = None]
      \/ \E i, j \in Ids : /\ google.rules[i] # None /\ google.lists[j] # None
                           /\ g = [google EXCEPT !.rules[i].lists = <<google.lists[j].name>>]
      \/ \E i, j \in Ids : /\ google.rules[i] # None /\ google.lists[j] # None
                           /\ g = [google EXCEPT !.rules[i].bypass = <<google.lists[j].name>>]
  BY DEF Edits
<1>3. ASSUME NEW i \in Ids, google.lists[i] # None, g = [google EXCEPT !.lists[i] = None]
      PROVE  g.rules = google.rules /\ g.lists = [google.lists EXCEPT ![i] = None]
             /\ g = [rules |-> g.rules, lists |-> g.lists]
  BY <1>1, <1>3
<1>4. ASSUME NEW i \in Ids, NEW rule \in ManagedBlockedSenderRule \cup {None},
             google.rules[i] # None, rule # None => rule.name = google.rules[i].name,
             g = [google EXCEPT !.rules[i] = rule]
      PROVE  /\ g \in BlockedSenderState
             /\ \A k \in Ids :
                  /\ g.rules[k] # None => google.rules[k] # None /\ g.rules[k].name = google.rules[k].name
                  /\ g.lists[k] # None => google.lists[k] # None /\ g.lists[k].name = google.lists[k].name
  <2>1. /\ g.rules = [google.rules EXCEPT ![i] = rule] /\ g.lists = google.lists
        /\ g = [rules |-> g.rules, lists |-> g.lists]
    BY <1>1, <1>4
  <2> QED BY <1>1, <1>4, <2>1 DEF BlockedSenderState, Rules, Lists
<1>5. CASE \E i \in Ids : google.rules[i] # None /\ g = [google EXCEPT !.rules[i] = None]
  BY <1>4, <1>5
<1>6. CASE \E i \in Ids : /\ google.rules[i] # None
                          /\ g = [google EXCEPT !.rules[i].enabled = ~google.rules[i].enabled]
  <2> PICK i \in Ids : /\ google.rules[i] # None
                       /\ g = [google EXCEPT !.rules[i].enabled = ~google.rules[i].enabled]
    BY <1>6
  <2> DEFINE rule == [google.rules[i] EXCEPT !.enabled = ~google.rules[i].enabled]
  <2>1. google.rules[i] \in ManagedBlockedSenderRule
    BY <1>1 DEF Rules
  <2>2. rule \in ManagedBlockedSenderRule /\ rule.name = google.rules[i].name
    BY <2>1 DEF ManagedBlockedSenderRule
  <2>3. g = [google EXCEPT !.rules[i] = rule]
    OBVIOUS
  <2> HIDE DEF rule
  <2> QED BY <1>4, <2>2, <2>3
<1>7. CASE \E i \in Ids : google.lists[i] # None /\ g = [google EXCEPT !.lists[i] = None]
  BY <1>1, <1>3, <1>7 DEF BlockedSenderState, Rules, Lists
<1>8. CASE \E i, j \in Ids : /\ google.rules[i] # None /\ google.lists[j] # None
                             /\ g = [google EXCEPT !.rules[i].lists = <<google.lists[j].name>>]
  <2> PICK i \in Ids, j \in Ids :
        /\ google.rules[i] # None /\ google.lists[j] # None
        /\ g = [google EXCEPT !.rules[i].lists = <<google.lists[j].name>>]
    BY <1>8
  <2> DEFINE rule == [google.rules[i] EXCEPT !.lists = <<google.lists[j].name>>]
  <2>1. google.rules[i] \in ManagedBlockedSenderRule /\ google.lists[j] \in ManagedAddressList
    BY <1>1 DEF Rules, Lists
  <2>2. <<google.lists[j].name>> \in Seq(ListNames) \ {<<>>}
    BY <2>1 DEF ManagedAddressList
  <2>3. rule \in ManagedBlockedSenderRule /\ rule.name = google.rules[i].name
    BY <2>1, <2>2 DEF ManagedBlockedSenderRule
  <2>4. g = [google EXCEPT !.rules[i] = rule]
    OBVIOUS
  <2> HIDE DEF rule
  <2> QED BY <1>4, <2>3, <2>4
<1>9. CASE \E i, j \in Ids : /\ google.rules[i] # None /\ google.lists[j] # None
                             /\ g = [google EXCEPT !.rules[i].bypass = <<google.lists[j].name>>]
  <2> PICK i \in Ids, j \in Ids :
        /\ google.rules[i] # None /\ google.lists[j] # None
        /\ g = [google EXCEPT !.rules[i].bypass = <<google.lists[j].name>>]
    BY <1>9
  <2> DEFINE rule == [google.rules[i] EXCEPT !.bypass = <<google.lists[j].name>>]
  <2>1. google.rules[i] \in ManagedBlockedSenderRule /\ google.lists[j] \in ManagedAddressList
    BY <1>1 DEF Rules, Lists
  <2>2. <<google.lists[j].name>> \in Seq(ListNames)
    BY <2>1 DEF ManagedAddressList
  <2>3. rule \in ManagedBlockedSenderRule /\ rule.name = google.rules[i].name
    BY <2>1, <2>2 DEF ManagedBlockedSenderRule
  <2>4. g = [google EXCEPT !.rules[i] = rule]
    OBVIOUS
  <2> HIDE DEF rule
  <2> QED BY <1>4, <2>3, <2>4
<1> QED BY <1>2, <1>5, <1>6, <1>7, <1>8, <1>9

LEMMA ExternalEditInv ==
  ASSUME IInv, NEW g \in Edits, ExternalEdit(g)
  PROVE  IInv'
<1>1. TypeOK /\ Minted /\ Calculated /\ Unique
  BY DEF IInv
<1>2. /\ google' = g /\ edits < MaxEdits /\ edits' = edits + 1
      /\ UNCHANGED <<compliance, registry, run, audits, minted, runs, recovered>>
  BY DEF ExternalEdit
<1>3. /\ g \in BlockedSenderState
      /\ \A i \in Ids :
           /\ g.rules[i] # None => google.rules[i] # None /\ g.rules[i].name = google.rules[i].name
           /\ g.lists[i] # None => google.lists[i] # None /\ g.lists[i].name = google.lists[i].name
  BY <1>1, EditsKeepNames
<1>4. TypeOK'
  BY <1>1, <1>2, <1>3, LedgerAssumption DEF TypeOK, LedgerAssumption
<1>5. Minted'
  BY <1>1, <1>2, <1>3 DEF Minted, Present
<1>6. ASSUME run.kind \in {"workflow", "attended"}
      PROVE  IF run.written THEN Gone(run.change)' ELSE Unwritten(run.change)'
  <2>1. CASE run.written
    <3>1. Gone(run.change)
      BY <1>1, <1>6, <2>1 DEF Calculated
    <3> QED BY <1>2, <1>3, <2>1, <3>1 DEF Gone, RemovedRules, RemovedLists, Removed
  <2>2. CASE ~run.written
    <3>1. Unwritten(run.change)
      BY <1>1, <1>6, <2>2 DEF Calculated
    <3> QED BY <1>2, <1>3, <2>2, <3>1 DEF Unwritten
  <2> QED BY <2>1, <2>2
<1>7. Calculated'
  BY <1>1, <1>2, <1>6 DEF Calculated, Owned, New, Attended
<1>8. Unique'
  BY <1>1, <1>2 DEF Unique, UniqueIds
<1> QED BY <1>4, <1>5, <1>7, <1>8 DEF IInv

LEMMA NextInv == IInv /\ [Next]_vars => IInv'
<1> SUFFICES ASSUME IInv, [Next]_vars PROVE IInv'
  OBVIOUS
<1>1. CASE UNCHANGED vars
  <2>1. UNCHANGED <<google, compliance, registry, run, audits, minted, runs, edits, recovered>>
    BY <1>1 DEF vars
  <2>2. TypeOK' /\ Minted' /\ Unique'
    BY <2>1 DEF IInv, TypeOK, Minted, Unique, UniqueIds
  <2>3. Calculated'
    BY <2>1 DEF IInv, Calculated, Owned, Unwritten, Gone, New, Attended
  <2> QED BY <2>2, <2>3 DEF IInv
<1>2. CASE Next
  BY <1>2, BeginWorkflowInv, BeginAttendedInv, BeginComplianceInv, WriteInv, FinishWorkflowInv,
     FinishAttendedInv, FinishComplianceInv, AbandonInv, RecoverInv, ExternalEditInv DEF Next
<1> QED BY <1>1, <1>2

-----------------------------------------------------------------------------
(* Theorems.                                                               *)

\* The invariant behind the others: IDs are minted before anything has them,
\* the change of a run is about owned and about new resources, and no ID has
\* two records.
THEOREM InvariantHolds == Spec => []IInv
BY InitInv, NextInv, PTL DEF Spec

\* Every variable has its type, whichever commits, recoveries and edits follow
\* each other.
THEOREM TypeCorrect == Spec => []TypeOK
<1>1. IInv => TypeOK
  BY DEF IInv
<1> QED BY <1>1, InvariantHolds, PTL

\* No verified change is lost to reject_duplicate_ownership_ids: the registry
\* and what either commit would write of the change of a run have one record
\* per ID.
THEOREM CommitsPassTheValidator == Spec => []CommitsAreValid
<1>1. IInv => CommitsAreValid
  <2> SUFFICES ASSUME IInv PROVE CommitsAreValid
    OBVIOUS
  <2>1. TypeOK /\ Calculated /\ Unique
    BY DEF IInv
  <2>2. ASSUME run.kind = "workflow"
        PROVE  UniqueIds(CommitVerified(run.change, registry))
    <3>1. PICK c, commit : c = run.change /\ commit = CommitVerified(c, registry)
      OBVIOUS
    <3>2. /\ registry \in Registry /\ UniqueIds(registry) /\ New(c)
          /\ c.before.rules \in Rules /\ c.before.lists \in Lists
          /\ c.after.rules \in Rules /\ c.after.lists \in Lists
      BY <2>1, <2>2, <3>1, PolicyRunIs DEF TypeOK, Unique, Calculated
    <3>3. VerifiedRecords(c, registry, commit)
      BY <3>1, <3>2, CommitVerifiedIs DEF New
    <3>4. ASSUME NEW i \in Ids, commit.resources[i] # None
          PROVE  commit.address_lists[i] = None
      <4>1. CASE i \in CreatedRules(c)
        BY <3>2, <3>3, <4>1 DEF VerifiedRecords, New, Recorded
      <4>2. CASE i \notin CreatedRules(c)
        <5>1. registry.resources[i] # None
          BY <3>3, <3>4, <4>2 DEF VerifiedRecords
        <5>2. i \notin CreatedLists(c) /\ registry.address_lists[i] = None
          BY <3>2, <5>1 DEF New, Recorded, UniqueIds
        <5> QED BY <3>3, <5>2 DEF VerifiedRecords
      <4> QED BY <4>1, <4>2
    <3> QED BY <3>1, <3>4 DEF UniqueIds
  <2>3. ASSUME run.kind = "attended"
        PROVE  UniqueIds(CommitOwnership(run.change, run.loaded))
    <3>1. PICK c, loaded, commit : /\ c = run.change /\ loaded = run.loaded
                                   /\ commit = CommitOwnership(c, loaded)
      OBVIOUS
    <3>2. /\ loaded \in Registry /\ UniqueIds(loaded) /\ Attended(c, loaded)
          /\ \A i \in CreatedRules(c) : ~Recorded(loaded, i)
          /\ c.before.rules \in Rules /\ c.before.lists \in Lists
          /\ c.after.rules \in Rules /\ c.after.lists \in Lists
      BY <2>1, <2>3, <3>1, PolicyRunIs DEF Unique, Calculated, New
    <3>3. OwnershipRecords(c, loaded, commit)
      BY <3>1, <3>2, CommitOwnershipIs
    <3>4. ASSUME NEW i \in Ids, commit.resources[i] # None
          PROVE  commit.address_lists[i] = None
      <4>1. commit.address_lists[i] \in {None, loaded.address_lists[i]}
        BY <3>3, <3>4 DEF OwnershipRecords
      <4>2. \/ loaded.resources[i] # None \/ i \in CreatedRules(c)
        BY <3>2, <3>3, <3>4 DEF OwnershipRecords, Attended, CreatedRules, Created
      <4> QED BY <3>2, <4>1, <4>2 DEF UniqueIds, Recorded
    <3> QED BY <3>1, <3>4 DEF UniqueIds
  <2> QED BY <2>1, <2>2, <2>3 DEF CommitsAreValid, Unique
<1> QED BY <1>1, InvariantHolds, PTL

\* assess_ownership_health and calculate_desired_state agree on every pair
\* whose list name is shown once.
THEOREM HealthAgreesWithThePlanner == Spec => []HealthyIsManageable
<1>1. TypeOK => HealthyIsManageable
  <2> SUFFICES ASSUME TypeOK, NEW i \in Ids
               PROVE  HasRule(google, registry, i) /\ HasRuleList(google, registry, i)
                        <=> /\ Health(google, registry, i) = "healthy"
                            /\ Named(google, google.lists[i].name) = {i}
    BY DEF HealthyIsManageable
  <2> DEFINE rule == google.rules[i]
  <2> DEFINE list == google.lists[i]
  <2> DEFINE record == registry.resources[i]
  <2>1. /\ rule \in ManagedBlockedSenderRule \cup {None}
        /\ list \in ManagedAddressList \cup {None}
    BY DEF TypeOK, BlockedSenderState
  <2>2. Health(google, registry, i) = "healthy"
          <=> /\ record # None /\ rule # None /\ list # None
              /\ rule.name = record.rule /\ list.name = record.list
              /\ rule.lists = <<list.name>>
    BY DEF Health, ExactPair
  <2>3. ASSUME rule # None
        PROVE  Len(rule.lists) = 1 <=> rule.lists = <<rule.lists[1]>>
    <3>1. rule.lists \in Seq(ListNames)
      BY <2>1, <2>3 DEF ManagedBlockedSenderRule
    <3> DEFINE names == rule.lists
    <3> HIDE DEF names
    <3>2. ASSUME Len(names) = 1 PROVE names = <<names[1]>>
      <4>1. names \in Seq(ListNames) /\ names[1] \in ListNames
        BY <3>1, <3>2, ElementOfSeq DEF names
      <4>2. <<names[1]>> \in Seq(ListNames) /\ Len(<<names[1]>>) = 1 /\ <<names[1]>>[1] = names[1]
        BY <4>1
      <4> QED BY <3>2, <4>1, <4>2, SeqEqual
    <3>3. Len(<<names[1]>>) = 1
      OBVIOUS
    <3> QED BY <3>2, <3>3 DEF names
  <2>4. \A name : i \in Named(google, name) <=> list # None /\ list.name = name
    BY DEF Named
  <2>5. ASSUME HasRule(google, registry, i), HasRuleList(google, registry, i)
        PROVE  /\ Health(google, registry, i) = "healthy"
               /\ Named(google, list.name) = {i}
    <3>1. /\ rule # None /\ record # None /\ record.rule = rule.name
          /\ Len(rule.lists) = 1 /\ Named(google, rule.lists[1]) = {i}
          /\ record.list = list.name
      BY <2>5 DEF HasRule, HasRuleList, OwnsRule, OwnsList
    <3>2. list # None /\ list.name = rule.lists[1]
      BY <2>4, <3>1
    <3> QED BY <2>2, <2>3, <3>1, <3>2
  <2>6. ASSUME Health(google, registry, i) = "healthy", Named(google, list.name) = {i}
        PROVE  HasRule(google, registry, i) /\ HasRuleList(google, registry, i)
    <3>1. /\ record # None /\ rule # None /\ list # None
          /\ rule.name = record.rule /\ list.name = record.list
          /\ rule.lists = <<list.name>>
      BY <2>2, <2>6
    <3>2. Len(rule.lists) = 1 /\ rule.lists[1] = list.name
      BY <3>1
    <3> QED BY <2>6, <3>1, <3>2 DEF HasRule, HasRuleList, OwnsRule, OwnsList
  <2> QED BY <2>5, <2>6
<1> QED BY <1>1, TypeCorrect, PTL

\* Only the browser's write of a run changes Google together with the run.
LEMMA OnlyWriteWrites ==
  ASSUME IInv, Next, run' # run, google' # google
  PROVE  Write /\ run.kind \in {"workflow", "attended"}
<1>1. Write
  BY DEF Next, BeginWorkflow, BeginAttended, Begin, BeginCompliance, FinishWorkflow,
         FinishAttended, FinishCompliance, Abandon, Recover, ExternalEdit
<1>2. run # NoRun /\ (run.kind = "compliance" => google' = google)
  BY <1>1 DEF Write
<1> QED BY <1>1, <1>2, KindsOfRun DEF IInv

\* require_owned_rule and require_owned_address_list guard every way a plan of
\* any length reaches a resource: what a run changes or removes, the registry
\* it loaded says the application owns under the name it has in Google.
THEOREM WritesAreOwned == Spec => OnlyOwnedIsWritten
<1> DEFINE A == run' # run /\ google' # google =>
       \A i \in Ids :
         /\ google.rules[i] # None /\ google'.rules[i] # google.rules[i]
              => OwnsRule(run.loaded, i, google.rules[i])
         /\ google.lists[i] # None /\ google'.lists[i] # google.lists[i]
              => OwnsList(run.loaded, i, google.lists[i])
<1>1. IInv /\ [Next]_vars => [A]_vars
  <2> SUFFICES ASSUME IInv, Next, run' # run, google' # google, NEW i \in Ids
               PROVE  /\ google.rules[i] # None /\ google'.rules[i] # google.rules[i]
                           => OwnsRule(run.loaded, i, google.rules[i])
                      /\ google.lists[i] # None /\ google'.lists[i] # google.lists[i]
                           => OwnsList(run.loaded, i, google.lists[i])
    OBVIOUS
  <2>1. Write /\ run.kind \in {"workflow", "attended"}
    BY OnlyWriteWrites
  <2>2. ~run.written /\ TypeOK /\ Calculated
    BY <2>1 DEF Write, IInv
  <2>3. Owned(run.change, run.loaded) /\ Unwritten(run.change)
    BY <2>1, <2>2 DEF Calculated
  <2>4. /\ google'.rules[i] # google.rules[i] =>
             run.change.after.rules[i] # run.change.before.rules[i]
        /\ google'.lists[i] # google.lists[i] =>
             run.change.after.lists[i] # run.change.before.lists[i]
    BY <2>1, <2>2, WrittenIs
  <2>5. google.rules[i] # None /\ google'.rules[i] # google.rules[i]
          => OwnsRule(run.loaded, i, google.rules[i])
    BY <2>3, <2>4 DEF Owned, Unwritten, OwnsRule
  <2>6. google.lists[i] # None /\ google'.lists[i] # google.lists[i]
          => OwnsList(run.loaded, i, google.lists[i])
    BY <2>3, <2>4 DEF Owned, Unwritten, OwnsList
  <2> QED BY <2>5, <2>6
<1> QED BY <1>1, InvariantHolds, PTL DEF Spec, OnlyOwnedIsWritten

\* A policy run changes the registry only with its commit.
LEMMA CommitIs ==
  ASSUME IInv, Next, run.kind \in {"workflow", "attended"}, run' # run, registry' # registry
  PROVE  \/ /\ run.kind = "workflow" /\ google = run.change.after
            /\ registry' = CommitVerified(run.change, registry)
         \/ /\ run.kind = "attended" /\ run.written
            /\ AttendedReadable(run.change.after)
            /\ AttendedRead(run.change.after) = run.change.after
            /\ registry' = CommitOwnership(run.change, run.loaded)
<1>1. \E saved \in BOOLEAN : FinishWorkflow(saved) \/ FinishAttended(saved)
  BY DEF Next, BeginWorkflow, BeginAttended, Begin, BeginCompliance, Write, FinishCompliance,
         Abandon, Recover, ExternalEdit
<1> QED BY <1>1 DEF FinishWorkflow, FinishAttended

\* What the verification read of an attended run shows when it matches
LEMMA MatchedRead ==
  ASSUME NEW s, AttendedRead(s) = s, NEW i \in Ids
  PROVE  /\ s.rules[i] # None => google.rules[i] = s.rules[i]
         /\ s.lists[i] # None => google.lists[i] = s.lists[i]
<1> DEFINE rules == [j \in Ids |-> IF s.rules[j] = None THEN None ELSE google.rules[j]]
<1> DEFINE lists == [j \in Ids |-> IF /\ s.lists[j] # None
                                      /\ s.lists[j].name \in Referred(rules)
                                     THEN google.lists[j] ELSE None]
<1>1. s = [rules |-> rules, lists |-> lists]
  BY DEF AttendedRead
<1>2. /\ rules[i] = (IF s.rules[i] = None THEN None ELSE google.rules[i])
      /\ lists[i] \in {None, google.lists[i]}
  OBVIOUS
<1> HIDE DEF rules, lists
<1>3. s.rules = rules /\ s.lists = lists
  BY <1>1
<1> QED BY <1>2, <1>3

\* commit_verified and _commit_ownership record what the run created and Google
\* shows, drop what it removed, and lose nothing else of the registry they
\* start from.
THEOREM RecordsFollowTheChange == Spec => CommitFollowsTheChange
<1> DEFINE Follows(c, base) ==
      \A i \in Ids :
            /\ base.resources[i] = None /\ registry'.resources[i] # None =>
                 /\ i \in CreatedRules(c)
                 /\ google.rules[i].name = registry'.resources[i].rule
                 /\ google.lists[i].name = registry'.resources[i].list
            /\ base.resources[i] # None /\ registry'.resources[i] = None =>
                 i \in RemovedRules(c) /\ google.rules[i] = None
            /\ base.address_lists[i] = None /\ registry'.address_lists[i] # None =>
                 /\ i \in CreatedLists(c)
                 /\ google.lists[i].name = registry'.address_lists[i].name
            /\ base.address_lists[i] # None /\ registry'.address_lists[i] = None =>
                 i \in RemovedLists(c) /\ google.lists[i] = None
<1> DEFINE A == run.kind \in {"workflow", "attended"} /\ registry' # registry /\ run' # run =>
                  Follows(run.change, IF run.kind = "workflow" THEN registry ELSE run.loaded)
<1>1. IInv /\ [Next]_vars => [A]_vars
  <2> SUFFICES ASSUME IInv, Next, run.kind \in {"workflow", "attended"},
                      registry' # registry, run' # run
               PROVE  Follows(run.change, IF run.kind = "workflow" THEN registry ELSE run.loaded)
    OBVIOUS
  <2>1. PICK c, commit : c = run.change /\ commit = registry'
    OBVIOUS
  <2>2. /\ TypeOK /\ Calculated
        /\ c.before.rules \in Rules /\ c.before.lists \in Lists
        /\ c.after.rules \in Rules /\ c.after.lists \in Lists
        /\ CreatedRules(c) \subseteq CreatedLists(c)
    BY <2>1, PolicyRunIs DEF IInv, Calculated, New
  <2>3. ASSUME NEW i \in Ids
        PROVE  /\ i \in CreatedRules(c) <=> c.before.rules[i] = None /\ c.after.rules[i] # None
               /\ i \in CreatedLists(c) <=> c.before.lists[i] = None /\ c.after.lists[i] # None
               /\ i \in RemovedRules(c) <=> c.before.rules[i] # None /\ c.after.rules[i] = None
               /\ i \in RemovedLists(c) <=> c.before.lists[i] # None /\ c.after.lists[i] = None
    BY DEF CreatedRules, CreatedLists, RemovedRules, RemovedLists, Created, Removed
  <2>4. CASE run.kind = "workflow"
    <3>1. google = c.after /\ commit = CommitVerified(c, registry)
      BY <2>1, <2>4, CommitIs
    <3>2. VerifiedRecords(c, registry, commit)
      BY <2>2, <3>1, CommitVerifiedIs DEF TypeOK
    <3>3. ASSUME NEW i \in Ids
          PROVE  /\ registry.resources[i] = None /\ commit.resources[i] # None =>
                      /\ i \in CreatedRules(c)
                      /\ google.rules[i].name = commit.resources[i].rule
                      /\ google.lists[i].name = commit.resources[i].list
                 /\ registry.resources[i] # None /\ commit.resources[i] = None =>
                      i \in RemovedRules(c) /\ google.rules[i] = None
      <4>1. google.rules[i] = c.after.rules[i] /\ google.lists[i] = c.after.lists[i]
        BY <3>1
      <4>2. CASE i \in CreatedRules(c) /\ registry.resources[i] = None
        <5>1. commit.resources[i] = Unverified(c.after.rules[i], c.after.lists[i])
          BY <3>2, <4>2 DEF VerifiedRecords
        <5> QED BY <4>1, <4>2, <5>1 DEF Unverified
      <4>3. CASE ~(i \in CreatedRules(c) /\ registry.resources[i] = None)
        <5>1. \/ commit.resources[i] = None /\ i \in RemovedRules(c)
              \/ commit.resources[i] = registry.resources[i]
          BY <3>2, <4>3 DEF VerifiedRecords
        <5>2. i \in RemovedRules(c) => google.rules[i] = None
          BY <2>3, <4>1
        <5> QED BY <4>3, <5>1, <5>2
      <4> QED BY <4>2, <4>3
    <3>4. ASSUME NEW i \in Ids
          PROVE  /\ registry.address_lists[i] = None /\ commit.address_lists[i] # None =>
                      /\ i \in CreatedLists(c)
                      /\ google.lists[i].name = commit.address_lists[i].name
                 /\ registry.address_lists[i] # None /\ commit.address_lists[i] = None =>
                      i \in RemovedLists(c) /\ google.lists[i] = None
      <4>1. google.rules[i] = c.after.rules[i] /\ google.lists[i] = c.after.lists[i]
        BY <3>1
      <4>2. CASE i \in CreatedLists(c) /\ i \notin CreatedRules(c) /\ registry.address_lists[i] = None
        <5>1. commit.address_lists[i] = [name |-> c.after.lists[i].name, snapshot |-> None]
          BY <3>2, <4>2 DEF VerifiedRecords
        <5> QED BY <4>1, <4>2, <5>1
      <4>3. CASE ~(i \in CreatedLists(c) /\ i \notin CreatedRules(c) /\ registry.address_lists[i] = None)
        <5>1. \/ commit.address_lists[i] = None /\ i \in RemovedLists(c)
              \/ commit.address_lists[i] = registry.address_lists[i]
          BY <3>2, <4>3 DEF VerifiedRecords
        <5>2. i \in RemovedLists(c) => google.lists[i] = None
          BY <2>3, <4>1
        <5> QED BY <4>3, <5>1, <5>2
      <4> QED BY <4>2, <4>3
    <3> QED BY <2>1, <2>4, <3>3, <3>4
  <2>5. CASE run.kind = "attended"
    <3>1. PICK loaded : loaded = run.loaded
      OBVIOUS
    <3>2. /\ commit = CommitOwnership(c, loaded) /\ run.written /\ AttendedRead(c.after) = c.after
      BY <2>1, <2>5, <3>1, CommitIs
    <3>3. /\ loaded \in Registry /\ Attended(c, loaded) /\ Gone(c)
      BY <2>1, <2>2, <2>5, <3>1, <3>2, PolicyRunIs DEF Calculated
    <3>4. OwnershipRecords(c, loaded, commit)
      BY <2>2, <3>2, <3>3, CommitOwnershipIs
    <3>5. ASSUME NEW i \in Ids
          PROVE  /\ c.after.rules[i] # None => google.rules[i] = c.after.rules[i]
                 /\ c.after.lists[i] # None => google.lists[i] = c.after.lists[i]
      BY <3>2, MatchedRead
    <3>6. ASSUME NEW i \in Ids
          PROVE  /\ c.before.rules[i] # None <=> loaded.resources[i] # None
                 /\ c.before.lists[i] # None => loaded.resources[i] # None \/ loaded.address_lists[i] # None
                 /\ i \in RemovedRules(c) => c.after.lists[i] = None
                 /\ i \in RemovedRules(c) => google.rules[i] = None
                 /\ i \in RemovedLists(c) => google.lists[i] = None
      BY <3>3 DEF Attended, Gone, Recorded
    <3>7. ASSUME NEW i \in Ids
          PROVE  /\ loaded.resources[i] = None /\ commit.resources[i] # None =>
                      /\ i \in CreatedRules(c)
                      /\ google.rules[i].name = commit.resources[i].rule
                      /\ google.lists[i].name = commit.resources[i].list
                 /\ loaded.resources[i] # None /\ commit.resources[i] = None =>
                      i \in RemovedRules(c) /\ google.rules[i] = None
      <4>1. ASSUME loaded.resources[i] = None, commit.resources[i] # None
            PROVE  /\ i \in CreatedRules(c)
                   /\ google.rules[i].name = commit.resources[i].rule
                   /\ google.lists[i].name = commit.resources[i].list
        <5>1. /\ c.after.rules[i] # None
              /\ commit.resources[i] = SnapshotRecord(c.after.rules[i], c.after.lists[i])
          BY <3>4, <4>1 DEF OwnershipRecords
        <5>2. i \in CreatedRules(c)
          BY <2>3, <3>6, <4>1, <5>1
        <5>3. i \in CreatedLists(c) /\ c.after.lists[i] # None
          BY <2>2, <2>3, <5>2
        <5> QED BY <3>5, <5>1, <5>2, <5>3 DEF SnapshotRecord, ListOf
      <4>2. ASSUME loaded.resources[i] # None, commit.resources[i] = None
            PROVE  i \in RemovedRules(c) /\ google.rules[i] = None
        BY <3>4, <3>6, <4>2 DEF OwnershipRecords
      <4> QED BY <4>1, <4>2
    <3>8. ASSUME NEW i \in Ids
          PROVE  /\ loaded.address_lists[i] = None /\ commit.address_lists[i] # None =>
                      /\ i \in CreatedLists(c)
                      /\ google.lists[i].name = commit.address_lists[i].name
                 /\ loaded.address_lists[i] # None /\ commit.address_lists[i] = None =>
                      i \in RemovedLists(c) /\ google.lists[i] = None
      <4>1. ASSUME loaded.address_lists[i] = None, commit.address_lists[i] # None
            PROVE  /\ i \in CreatedLists(c)
                   /\ google.lists[i].name = commit.address_lists[i].name
        <5>1. /\ c.after.lists[i] # None /\ commit.resources[i] = None
              /\ commit.address_lists[i] = [name |-> c.after.lists[i].name,
                                            snapshot |-> c.after.lists[i]]
          BY <3>4, <4>1 DEF OwnershipRecords
        <5>2. c.before.lists[i] = None
          <6> SUFFICES ASSUME c.before.lists[i] # None PROVE FALSE
            OBVIOUS
          <6>1. c.before.rules[i] # None
            BY <3>6, <4>1
          <6>2. c.after.rules[i] = None
            BY <3>4, <5>1 DEF OwnershipRecords
          <6> QED BY <2>3, <3>6, <5>1, <6>1, <6>2
        <5> QED BY <2>3, <3>5, <5>1, <5>2
      <4>2. ASSUME loaded.address_lists[i] # None, commit.address_lists[i] = None
            PROVE  i \in RemovedLists(c) /\ google.lists[i] = None
        <5>1. c.after.lists[i] # None /\ commit.resources[i] = None => FALSE
          <6> HAVE c.after.lists[i] # None /\ commit.resources[i] = None
          <6>1. commit.address_lists[i] = [name |-> c.after.lists[i].name,
                                           snapshot |-> c.after.lists[i]]
            BY <3>4 DEF OwnershipRecords
          <6>2. c.after.lists[i] \in ManagedAddressList
            BY <2>2 DEF Lists
          <6> QED BY <4>2, <6>1, <6>2, ListRecordTypes
        <5> QED BY <3>4, <3>6, <4>2, <5>1 DEF OwnershipRecords
      <4> QED BY <4>1, <4>2
    <3> QED BY <2>1, <2>5, <3>1, <3>7, <3>8
  <2> QED BY <2>4, <2>5
<1> QED BY <1>1, InvariantHolds, PTL DEF Spec, CommitFollowsTheChange

\* The registry an attended run commits gives the next one complete snapshots,
\* whatever other administrators did to the rules before.
THEOREM AttendedRunsGoOn == Spec => SnapshotsStayComplete
<1> DEFINE A == run.kind = "attended" /\ run' # run /\ registry' # registry =>
                  SnapshotAvailable(registry')
<1>1. IInv /\ [Next]_vars => [A]_vars
  <2> SUFFICES ASSUME IInv, Next, run.kind = "attended", run' # run, registry' # registry
               PROVE  SnapshotAvailable(registry')
    OBVIOUS
  <2>1. PICK c, commit, loaded : c = run.change /\ commit = registry' /\ loaded = run.loaded
    OBVIOUS
  <2>2. /\ c.before.rules \in Rules /\ c.before.lists \in Lists
        /\ c.after.rules \in Rules /\ c.after.lists \in Lists
        /\ loaded \in Registry /\ Attended(c, loaded)
    BY <2>1, PolicyRunIs DEF IInv, Calculated
  <2>3. /\ AttendedReadable(c.after) /\ AttendedRead(c.after) = c.after
        /\ commit = CommitOwnership(c, loaded)
    BY <2>1, CommitIs
  <2>4. OwnershipRecords(c, loaded, commit)
    BY <2>2, <2>3, CommitOwnershipIs
  <2> DEFINE rules == c.after.rules
  <2> DEFINE lists == c.after.lists
  <2>5. ASSUME NEW i \in Ids
        PROVE  /\ commit.resources[i] # None <=> rules[i] # None
               /\ rules[i] # None => /\ commit.resources[i].rule_snapshot = rules[i]
                                     /\ commit.resources[i].list_snapshot = lists[i]
               /\ rules[i] = None /\ lists[i] # None =>
                    commit.address_lists[i] # None /\ commit.address_lists[i].snapshot = lists[i]
    <3>1. rules[i] = None /\ loaded.resources[i] # None => i \in RemovedRules(c)
      BY <2>2 DEF Attended, RemovedRules, Removed
    <3>2. commit.resources[i] # None <=> rules[i] # None
      BY <2>4, <3>1 DEF OwnershipRecords
    <3>3. rules[i] # None => /\ commit.resources[i].rule_snapshot = rules[i]
                             /\ commit.resources[i].list_snapshot = lists[i]
      <4> HAVE rules[i] # None
      <4>1. commit.resources[i] = SnapshotRecord(rules[i], lists[i])
        BY <2>4 DEF OwnershipRecords
      <4> QED BY <4>1 DEF SnapshotRecord
    <3>4. rules[i] = None /\ lists[i] # None =>
            commit.address_lists[i] # None /\ commit.address_lists[i].snapshot = lists[i]
      <4> HAVE rules[i] = None /\ lists[i] # None
      <4>1. commit.address_lists[i] = [name |-> lists[i].name, snapshot |-> lists[i]]
        BY <2>4, <3>2 DEF OwnershipRecords
      <4>2. lists[i] \in ManagedAddressList
        BY <2>2 DEF Lists
      <4> QED BY <4>1, <4>2, ListRecordTypes
    <3> QED BY <3>2, <3>3, <3>4
  <2>6. SnapshotRules(commit) = rules
    <3>1. SnapshotRules(commit) = [i \in Ids |-> IF commit.resources[i] = None THEN None
                                                 ELSE commit.resources[i].rule_snapshot]
      BY DEF SnapshotRules
    <3>2. rules = [i \in Ids |-> rules[i]]
      BY <2>2 DEF Rules
    <3> HIDE DEF rules, lists
    <3> QED BY <2>5, <3>1, <3>2
  <2>7. HasSnapshots(commit)
    BY <2>5 DEF HasSnapshots
  <2> DEFINE snap == SnapshotLists(commit)
  <2>8. ASSUME NEW i \in Ids
        PROVE  /\ snap[i] # None => snap[i].name \in Referred(rules)
               /\ lists[i] # None /\ lists[i].name \in Referred(rules) => snap[i] = lists[i]
    <3>1. snap[i] # None => snap[i].name \in Referred(SnapshotRules(commit))
      BY DEF SnapshotLists
    <3>2. lists[i] # None /\ lists[i].name \in Referred(SnapshotRules(commit)) => snap[i] = lists[i]
      BY <2>5 DEF SnapshotLists
    <3> QED BY <2>6, <3>1, <3>2
  <2>9. ASSUME NEW name \in Referred(rules)
        PROVE  \E j \in Ids : lists[j] # None /\ lists[j].name = name
    <3>1. PICK i \in Ids : rules[i] # None /\ name \in Range(rules[i].lists) \cup Range(rules[i].bypass)
      BY <2>9 DEF Referred
    <3>2. google.rules[i] = rules[i]
      BY <2>3, <3>1, MatchedRead
    <3> QED BY <2>3, <3>1, <3>2 DEF AttendedReadable
  <2> HIDE DEF rules, lists, snap
  <2>10. {snap[i].name : i \in {i \in Ids : snap[i] # None}} = Referred(rules)
    <3>1. ASSUME NEW name \in Referred(rules)
          PROVE  \E j \in Ids : snap[j] # None /\ snap[j].name = name
      <4>1. PICK j \in Ids : lists[j] # None /\ lists[j].name = name
        BY <2>9, <3>1
      <4> QED BY <2>8, <4>1
    <3> QED BY <2>8, <3>1
  <2> QED BY <2>1, <2>6, <2>7, <2>10 DEF SnapshotAvailable, snap
<1> QED BY <1>1, InvariantHolds, PTL DEF Spec, SnapshotsStayComplete

=============================================================================
