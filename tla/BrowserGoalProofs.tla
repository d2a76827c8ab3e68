------------------------- MODULE BrowserGoalProofs --------------------------
(***************************************************************************)
(* What the gates of the two goal loops guarantee for every set of         *)
(* resources, every change and every bound, whatever the model answers.    *)
(***************************************************************************)
EXTENDS BrowserGoal, FiniteSetTheorems, SequenceTheorems, TLAPS

\* While a goal that reads is under way, no field of the open page was changed.
ReadIsClean ==
  at \in {"looking", "choosing"} /\ ~mutation_allowed => form = "clean"

-----------------------------------------------------------------------------
(* The gates.                                                              *)

\* A step that gets through either loop's gates in a goal that reads changes
\* no field and may not save.
LEMMA ReadGate ==
  ASSUME NEW step \in BrowserStep, ~mutation_allowed, Gated(step)
  PROVE  /\ step.action \notin {"fill", "check", "uncheck", "select"}
         /\ ~MaySave(step)
<1>1. ~Mutates(step)
  BY DEF Gated, StandardGate, ComplianceGate, RefusedForRead
<1>2. step.control # None => ~IsCommit(step.control)
  BY DEF Gated, StandardGate, ComplianceGate, RefusedForRead
<1>3. step.action \notin {"fill", "check", "uncheck", "select"}
  BY <1>1 DEF Mutates
<1>4. step.action = "click" => step.control # None
  BY BrowserAssumption DEF BrowserStep, Actions
<1>5. ~MaySave(step)
  BY <1>1, <1>2, <1>4 DEF MaySave
<1> QED BY <1>3, <1>5

\* A step that may save gets through the gates only if the snapshot shows the
\* goal's resource and, for a rule, the approved unit.
LEMMA SaveGate ==
  ASSUME NEW step \in BrowserStep, Gated(step), MaySave(step)
  PROVE  /\ seen.editor = goal.resource
         /\ goal.resource \in Rules \cup Advanced => seen.ou
<1>1. mutation_allowed
  BY ReadGate
<1>2. step.control # None
  BY BrowserAssumption DEF MaySave, BrowserStep, Actions
<1>3. CASE OnCompliancePage
  <2>1. RuleVisible
    BY <1>2, <1>3 DEF Gated, ComplianceGate, MaySave
  <2> QED BY <2>1 DEF RuleVisible
<1>4. CASE ~OnCompliancePage
  <2>1. RequiresTargetGate(step)
    BY <1>2 DEF RequiresTargetGate, MaySave
  <2>2. TargetVisible
    BY <1>1, <1>4, <2>1 DEF Gated, StandardGate
  <2>3. goal.resource \in Rules \cup Advanced => commit_requires_ou
    BY BrowserAssumption DEF commit_requires_ou
  <2> QED BY <2>2, <2>3 DEF TargetVisible
<1> QED BY <1>3, <1>4

\* In a goal that reads, a step that is executed saves nothing and leaves the
\* page's fields as they were, or leads to a page with unchanged fields.
LEMMA ReadStep ==
  ASSUME NEW step \in BrowserStep, ~mutation_allowed, Act(step)
  PROVE  google' = google /\ form' = "clean"
<1>1. Gated(step) /\ Execute(step)
  BY DEF Act
<1>2. step.action \notin {"fill", "check", "uncheck", "select"} /\ ~MaySave(step)
  BY <1>1, ReadGate
<1> QED BY <1>1, <1>2 DEF Execute, Navigates

-----------------------------------------------------------------------------
(* The invariant.                                                          *)

LEMMA InitClean == Init => ReadIsClean
  BY DEF Init, ReadIsClean

LEMMA NextClean == ReadIsClean /\ [Next]_vars => ReadIsClean'
<1> SUFFICES ASSUME ReadIsClean, [Next]_vars
             PROVE  ReadIsClean'
  OBVIOUS
<1>1. ASSUME Raises
      PROVE  ReadIsClean'
  BY <1>1 DEF Raises, ReadIsClean
<1>2. ASSUME NEW rest, NEW outcome, GoOnWith(rest, outcome)
      PROVE  ReadIsClean'
  BY <1>2 DEF GoOnWith, ReadIsClean
<1>3. CASE OpenAdminUrl
  BY <1>1, <1>3 DEF OpenAdminUrl, ReadIsClean
<1>4. CASE Observe
  BY <1>1, <1>4 DEF Observe, ReadIsClean, mutation_allowed, goal
<1>5. CASE OutOfSteps
  BY <1>1, <1>2, <1>5 DEF OutOfSteps, Exhausted
<1>6. CASE Complete
  BY <1>1, <1>2, <1>6 DEF Complete
<1>7. CASE StepFails
  BY <1>1, <1>7 DEF StepFails
<1>8. ASSUME NEW step \in ChooseStep, Act(step)
      PROVE  ReadIsClean'
  <2>1. mutation_allowed' = mutation_allowed
    BY <1>8 DEF Act, mutation_allowed, goal
  <2>2. ~mutation_allowed => form' = "clean"
    BY <1>8, ReadStep DEF ChooseStep
  <2> QED BY <2>1, <2>2 DEF ReadIsClean
<1>9. CASE PageShifts
  BY <1>9 DEF PageShifts, ReadIsClean
<1>10. CASE UNCHANGED vars
  BY <1>10 DEF vars, ReadIsClean, mutation_allowed, goal
<1> QED BY <1>3, <1>4, <1>5, <1>6, <1>7, <1>8, <1>9, <1>10 DEF Next, Driver

\* A goal that reads has no changed field, from its page on to its end.
THEOREM ReadsAreClean == Spec => []ReadIsClean
<1> QED BY InitClean, NextClean, PTL DEF Spec

-----------------------------------------------------------------------------
(* The theorems.                                                           *)

\* The fresh read and the verification read leave Google and every field alone,
\* whatever the navigation model answers and however the page changes under it.
THEOREM ReadsAreHarmless == Spec => ReadsChangeNothing
<1> DEFINE Harmless == at = "choosing" /\ ~mutation_allowed =>
                         google' = google /\ form' = "clean"
<1>1. ReadIsClean /\ [Next]_vars => [Harmless]_vars
  <2> SUFFICES ASSUME ReadIsClean, Next, at = "choosing", ~mutation_allowed
               PROVE  google' = google /\ form' = "clean"
    OBVIOUS
  <2>1. form = "clean"
    BY DEF ReadIsClean
  <2>2. ASSUME UNCHANGED <<google, form>>
        PROVE  google' = google /\ form' = "clean"
    BY <2>1, <2>2
  <2>3. CASE OpenAdminUrl \/ Observe \/ OutOfSteps
    BY <2>3 DEF OpenAdminUrl, Observe, OutOfSteps
  <2>4. CASE Complete \/ StepFails
    BY <2>2, <2>4 DEF Complete, StepFails, Raises
  <2>5. ASSUME NEW step \in ChooseStep, Act(step)
        PROVE  google' = google /\ form' = "clean"
    BY <2>5, ReadStep DEF ChooseStep
  <2>6. CASE PageShifts
    BY <2>6 DEF PageShifts
  <2> QED BY <2>3, <2>4, <2>5, <2>6 DEF Next, Driver
<1> QED BY <1>1, ReadsAreClean, PTL DEF Spec, ReadsChangeNothing

\* Google changes only through a step of the driver that may save; if the page is
\* still the one observed, its editor is that of the goal's resource and, for a
\* rule, the approved unit is in sight.
THEOREM SavesAreOfTheGoal == Spec => SavesAreIdentified
<1> DEFINE Identified ==
      google' # google /\ page = seen =>
        /\ page.editor = goal.resource
        /\ goal.resource \in Rules \cup Advanced => page.ou
<1>1. [Next]_vars => [Identified]_vars
  <2> SUFFICES ASSUME Next, google' # google, page = seen
               PROVE  /\ page.editor = goal.resource
                      /\ goal.resource \in Rules \cup Advanced => page.ou
    OBVIOUS
  <2>1. PICK step \in ChooseStep : Act(step)
    BY DEF Next, Driver, OpenAdminUrl, Observe, OutOfSteps, Exhausted, Complete,
           StepFails, Raises, PageShifts
  <2>2. Gated(step) /\ MaySave(step)
    BY <2>1 DEF Act, Execute
  <2> QED BY <2>2, SaveGate DEF ChooseStep
<1> QED BY <1>1, PTL DEF Spec, SavesAreIdentified

-----------------------------------------------------------------------------
(* What a run leaves at Google: the invariant.                             *)

\* The goals that change something, one for each resource of the change.
Mutations(c) ==
  {g \in Goal : \/ g.op = "create" /\ g.resource \in c.create
                \/ g.op = "update" /\ g.resource \in c.update
                \/ g.op = "remove" /\ g.resource \in c.remove}
Reads == {g \in Goal : g.op \in {"read", "readback"}}

Wanted(g) == IF g.op = "remove" THEN "absent" ELSE "new"

\* A rule may not be created before a list, nor a list removed before a rule.
OutOfOrder(g, h) ==
  \/ g.op = "create" /\ g.resource \in Rules /\ h.op = "create" /\ h.resource \in Lists
  \/ g.op = "remove" /\ g.resource \in Lists /\ h.op = "remove" /\ h.resource \in Rules
Ordered(s) == \A i, j \in 1 .. Len(s) : i < j => ~OutOfOrder(s[i], s[j])

\* The goals that are left are of the change, in an order that is safe, and the
\* result is that of the goals that are over.
Left ==
  /\ Range(goals) \subseteq Mutations(change) \cup Reads
  /\ Ordered(goals)
  /\ at # "done" => goals # <<>> /\ result \in {None, "incomplete"}
  /\ result = "completed" => goals = <<>>
  /\ result = "incomplete" => Range(goals) \subseteq Reads

\* What has no goal any more is as it should be.
Applied ==
  ~lied /\ ~strayed /\ result \in {None, "completed"} =>
    \A g \in Mutations(change) : g \notin Range(goals) => google[g.resource] = Wanted(g)

IInv == TypeOK /\ Left /\ Applied /\ NoDanglingReference

-----------------------------------------------------------------------------
(* The goals of an execution.                                              *)

\* s runs the goals of G, in an order that is safe.
Runs(s, G) == s \in Seq(Goal) /\ Range(s) = G /\ Ordered(s)

OfOp(op, S) == {[op |-> op, resource |-> x] : x \in S}

\* SetToSeq puts a finite set in a row, each element once.
LEMMA SetInARow ==
  ASSUME NEW S, IsFiniteSet(S)
  PROVE  SetToSeq(S) \in Seq(S) /\ Range(SetToSeq(S)) = S
<1> DEFINE n == Cardinality(S)
           f == SetToSeq(S)
<1>1. n \in Nat /\ ExistsBijection(1 .. n, S)
  BY FS_CardinalityType
<1>2. \E h \in [1 .. n -> S] : IsInjective(h)
  BY <1>1 DEF ExistsBijection, Bijection, Injection
<1>3. f \in [1 .. n -> S] /\ IsInjective(f)
  BY <1>2 DEF SetToSeq
<1>4. IsFiniteSet(1 .. n) /\ Cardinality(1 .. n) = n
  BY <1>1, FS_Interval
<1>5. f \in Surjection(1 .. n, S)
  <2>1. f \in Injection(1 .. n, S)
    BY <1>3 DEF Injection
  <2> QED BY <1>4, <2>1, FS_Injection
<1> HIDE DEF f, n
<1>6. f \in Seq(S)
  BY <1>1, <1>3
<1>7. Range(f) = S
  BY <1>3, <1>5 DEF Surjection, Range
<1> QED BY <1>6, <1>7 DEF f

\* One operation on some resources; on a rule and on a list at once only if it
\* reads.
LEMMA OpsRun ==
  ASSUME NEW op \in Operations, NEW S \in SUBSET Resources, IsFiniteSet(S),
         op \in {"read", "readback"} \/ S \cap Lists = {} \/ S \cap Rules = {}
  PROVE  Runs(Ops(op, S), OfOp(op, S))
<1> DEFINE G == OfOp(op, S)
           f == [x \in S |-> [op |-> op, resource |-> x]]
<1>1. f \in Surjection(S, G)
  BY DEF Surjection, OfOp
<1>2. IsFiniteSet(G)
  BY <1>1, FS_Surjection
<1>3. Ops(op, S) \in Seq(G) /\ Range(Ops(op, S)) = G
  BY <1>2, SetInARow DEF Ops, OfOp
<1>4. G \subseteq Goal
  BY DEF OfOp, Goal
<1>5. Ops(op, S) \in Seq(Goal)
  BY <1>3, <1>4, SeqMonotonic
<1>6. \A g, h \in G : ~OutOfOrder(g, h)
  BY DEF OfOp, OutOfOrder
<1>7. \A i \in 1 .. Len(Ops(op, S)) : Ops(op, S)[i] \in G
  BY <1>3, ElementOfSeq
<1>8. Ordered(Ops(op, S))
  BY <1>6, <1>7 DEF Ordered
<1> QED BY <1>3, <1>5, <1>8 DEF Runs

LEMMA ConcatRuns ==
  ASSUME NEW s, NEW t, NEW G, NEW H, Runs(s, G), Runs(t, H),
         \A g \in G, h \in H : ~OutOfOrder(g, h)
  PROVE  Runs(s \o t, G \cup H)
<1>1. s \in Seq(Goal) /\ t \in Seq(Goal) /\ Range(s) = G /\ Range(t) = H
  BY DEF Runs
<1>2. s \o t \in Seq(Goal) /\ Range(s \o t) = G \cup H
  BY <1>1, ConcatProperties, RangeConcatenation
<1>3. Ordered(s \o t)
  <2> SUFFICES ASSUME NEW i \in 1 .. Len(s \o t), NEW j \in 1 .. Len(s \o t), i < j
               PROVE  ~OutOfOrder((s \o t)[i], (s \o t)[j])
    BY DEF Ordered
  <2>1. Len(s) \in Nat /\ Len(t) \in Nat /\ Len(s \o t) = Len(s) + Len(t)
    BY <1>1, LenProperties, ConcatProperties
  <2>2. \A k \in 1 .. Len(s \o t) :
          (s \o t)[k] = IF k <= Len(s) THEN s[k] ELSE t[k - Len(s)]
    BY <1>1, <2>1, ConcatProperties
  <2>3. \A k \in 1 .. Len(s) : s[k] \in G
    BY <1>1, RangeEquality
  <2>4. \A k \in 1 .. Len(t) : t[k] \in H
    BY <1>1, RangeEquality
  <2>5. CASE j <= Len(s)
    <3>1. i \in 1 .. Len(s) /\ j \in 1 .. Len(s)
      BY <2>1, <2>5
    <3> QED BY <2>2, <2>5, <3>1 DEF Runs, Ordered
  <2>6. CASE i > Len(s)
    <3>1. i - Len(s) \in 1 .. Len(t) /\ j - Len(s) \in 1 .. Len(t) /\ i - Len(s) < j - Len(s)
      BY <2>1, <2>6
    <3>2. (s \o t)[i] = t[i - Len(s)] /\ (s \o t)[j] = t[j - Len(s)]
      BY <2>1, <2>2, <2>6
    <3> QED BY <3>1, <3>2 DEF Runs, Ordered
  <2>7. CASE i <= Len(s) /\ j > Len(s)
    <3>1. i \in 1 .. Len(s) /\ j - Len(s) \in 1 .. Len(t)
      BY <2>1, <2>7
    <3>2. (s \o t)[i] = s[i] /\ (s \o t)[j] = t[j - Len(s)]
      BY <2>1, <2>2, <2>7
    <3> QED BY <2>3, <2>4, <3>1, <3>2
  <2> QED BY <2>1, <2>5, <2>6, <2>7
<1> QED BY <1>2, <1>3 DEF Runs

\* A goal that ends leaves the others in their order.
LEMMA TailRuns ==
  ASSUME NEW s \in Seq(Goal), s # <<>>, Ordered(s)
  PROVE  /\ Head(s) \in Goal /\ Tail(s) \in Seq(Goal) /\ Ordered(Tail(s))
         /\ Range(s) = {Head(s)} \cup Range(Tail(s))
         /\ \A h \in Range(s) : ~OutOfOrder(Head(s), h)
<1>1. Len(s) \in Nat /\ Len(s) # 0 /\ Head(s) = s[1]
  BY EmptySeq
<1>2. /\ Head(s) \in Goal /\ Tail(s) \in Seq(Goal) /\ Len(Tail(s)) = Len(s) - 1
      /\ \A i \in 1 .. Len(Tail(s)) : Tail(s)[i] = s[i + 1]
  BY HeadTailProperties
<1>3. Range(s) = {s[i] : i \in 1 .. Len(s)}
  BY RangeEquality
<1>4. Range(Tail(s)) = {Tail(s)[i] : i \in 1 .. Len(Tail(s))}
  BY <1>2, RangeEquality
<1>5. Ordered(Tail(s))
  BY <1>1, <1>2 DEF Ordered
<1>6. Range(s) = {Head(s)} \cup Range(Tail(s))
  <2>1. \A i \in 1 .. Len(s) : s[i] = Head(s) \/ s[i] \in Range(Tail(s))
    <3> SUFFICES ASSUME NEW i \in 1 .. Len(s), i # 1 PROVE s[i] \in Range(Tail(s))
      BY <1>1
    <3>1. i - 1 \in 1 .. Len(Tail(s)) /\ Tail(s)[i - 1] = s[i]
      BY <1>1, <1>2
    <3> QED BY <1>4, <3>1
  <2>2. \A i \in 1 .. Len(Tail(s)) : Tail(s)[i] \in Range(s)
    BY <1>1, <1>2, <1>3
  <2>3. Head(s) \in Range(s)
    BY <1>1, <1>3
  <2> QED BY <1>3, <1>4, <2>1, <2>2, <2>3
<1>7. \A h \in Range(s) : ~OutOfOrder(Head(s), h)
  <2> SUFFICES ASSUME NEW i \in 1 .. Len(s) PROVE ~OutOfOrder(s[1], s[i])
    BY <1>1, <1>3
  <2>1. CASE i = 1
    BY <2>1, BrowserAssumption DEF OutOfOrder
  <2>2. CASE i # 1
    BY <1>1, <2>2 DEF Ordered
  <2> QED BY <2>1, <2>2
<1> QED BY <1>2, <1>5, <1>6, <1>7

LEMMA ReadGoalsRun ==
  ASSUME NEW S \in SUBSET Resources, IsFiniteSet(S)
  PROVE  Runs(ReadGoals(S), OfOp("read", S))
<1> DEFINE A == S \cap (Rules \cup Advanced)
           B == S \cap Lists
<1>1. A \in SUBSET Resources /\ B \in SUBSET Resources /\ IsFiniteSet(A) /\ IsFiniteSet(B)
  <2>1. A \in SUBSET S /\ B \in SUBSET S
    OBVIOUS
  <2> QED BY <2>1, FS_Subset
<1>2. "read" \in Operations
  BY DEF Operations
<1>3. Runs(Ops("read", A), OfOp("read", A)) /\ Runs(Ops("read", B), OfOp("read", B))
  BY <1>1, <1>2, OpsRun
<1>4. \A g \in OfOp("read", A), h \in OfOp("read", B) : ~OutOfOrder(g, h)
  BY DEF OfOp, OutOfOrder
<1>5. Runs(ReadGoals(S), OfOp("read", A) \cup OfOp("read", B))
  BY <1>3, <1>4, ConcatRuns DEF ReadGoals
<1>6. OfOp("read", A) \cup OfOp("read", B) = OfOp("read", S)
  BY DEF OfOp, Resources
<1> QED BY <1>5, <1>6

\* What an approved change may be, from BrowserAssumption.
LEMMA ChangeIs ==
  ASSUME NEW c \in Changes
  PROVE  /\ c.create \in SUBSET Resources /\ c.update \in SUBSET Resources
         /\ c.remove \in SUBSET Resources
         /\ \A S \in SUBSET Touched(c) : IsFiniteSet(S)
         /\ c.create \subseteq Touched(c) /\ c.update \subseteq Touched(c)
         /\ c.remove \subseteq Touched(c)
<1>1. c \in Change /\ IsFiniteSet(Touched(c))
  BY BrowserAssumption
<1> QED BY <1>1, FS_Subset DEF Change, Touched

\* The verification read only reads, as every goal of its does.
LEMMA VerificationReadRuns ==
  ASSUME NEW c \in Changes
  PROVE  /\ Runs(VerificationRead(c), OfOp("read", c.create \cup c.update))
         /\ OfOp("read", c.create \cup c.update) \subseteq Reads
<1>1. c.create \cup c.update \in SUBSET Resources /\ IsFiniteSet(c.create \cup c.update)
  BY ChangeIs
<1>2. OfOp("read", c.create \cup c.update) \subseteq Reads
  BY <1>1 DEF OfOp, Reads, Goal, Operations
<1> QED BY <1>1, <1>2, ReadGoalsRun DEF VerificationRead

\* The change itself: every mutation is there, lists before the rules that use
\* them, and the other way round when they are removed.
LEMMA PhasesRun ==
  ASSUME NEW c \in Changes, Touched(c) \cap Advanced = {}
  PROVE  Runs(Phases(c), Mutations(c))
<1> DEFINE cl == c.create \cap Lists
           ul == c.update \cap Lists
           cr == c.create \cap Rules
           ur == c.update \cap Rules
           rr == c.remove \cap Rules
           rl == c.remove \cap Lists
<1>1. \A S \in {cl, ul, cr, ur, rr, rl} : S \in SUBSET Resources /\ IsFiniteSet(S)
  BY ChangeIs
<1>2. \A S \in {cl, ul, cr, ur, rr, rl} : S \cap Lists = {} \/ S \cap Rules = {}
  BY BrowserAssumption
<1>3. "create" \in Operations /\ "update" \in Operations /\ "remove" \in Operations
  BY DEF Operations
<1>4. /\ Runs(Ops("create", cl), OfOp("create", cl)) /\ Runs(Ops("update", ul), OfOp("update", ul))
      /\ Runs(Ops("create", cr), OfOp("create", cr)) /\ Runs(Ops("update", ur), OfOp("update", ur))
      /\ Runs(Ops("remove", rr), OfOp("remove", rr)) /\ Runs(Ops("remove", rl), OfOp("remove", rl))
  <2> HIDE DEF cl, ul, cr, ur, rr, rl
  <2> QED BY <1>1, <1>2, <1>3, OpsRun
<1> DEFINE g1 == OfOp("create", cl)
           g2 == g1 \cup OfOp("update", ul)
           g3 == g2 \cup OfOp("create", cr)
           g4 == g3 \cup OfOp("update", ur)
           g5 == g4 \cup OfOp("remove", rr)
           g6 == g5 \cup OfOp("remove", rl)
           s2 == Ops("create", cl) \o Ops("update", ul)
           s3 == s2 \o Ops("create", cr)
           s4 == s3 \o Ops("update", ur)
           s5 == s4 \o Ops("remove", rr)
           s6 == s5 \o Ops("remove", rl)
<1>5. Runs(s2, g2)
  <2>1. \A g \in g1, h \in OfOp("update", ul) : ~OutOfOrder(g, h)
    BY DEF OfOp, OutOfOrder
  <2> QED BY <1>4, <2>1, ConcatRuns
<1>6. Runs(s3, g3)
  <2>1. \A g \in g2, h \in OfOp("create", cr) : ~OutOfOrder(g, h)
    BY BrowserAssumption DEF OfOp, OutOfOrder
  <2> HIDE DEF s2, g2
  <2> QED BY <1>4, <1>5, <2>1, ConcatRuns
<1>7. Runs(s4, g4)
  <2>1. \A g \in g3, h \in OfOp("update", ur) : ~OutOfOrder(g, h)
    BY DEF OfOp, OutOfOrder
  <2> HIDE DEF s3, g3
  <2> QED BY <1>4, <1>6, <2>1, ConcatRuns
<1>8. Runs(s5, g5)
  <2>1. \A g \in g4, h \in OfOp("remove", rr) : ~OutOfOrder(g, h)
    BY DEF OfOp, OutOfOrder
  <2> HIDE DEF s4, g4
  <2> QED BY <1>4, <1>7, <2>1, ConcatRuns
<1>9. Runs(s6, g6)
  <2>1. \A g \in g5, h \in OfOp("remove", rl) : ~OutOfOrder(g, h)
    BY BrowserAssumption DEF OfOp, OutOfOrder
  <2> HIDE DEF s5, g5
  <2> QED BY <1>4, <1>8, <2>1, ConcatRuns
<1>10. s6 = Phases(c)
  BY DEF Phases
<1>11. g6 = Mutations(c)
  <2>1. c.create = cl \cup cr /\ c.update = ul \cup ur /\ c.remove = rl \cup rr
    BY ChangeIs DEF Resources
  <2>2. /\ c.create \in SUBSET Resources /\ c.update \in SUBSET Resources
        /\ c.remove \in SUBSET Resources
    BY ChangeIs
  <2>3. g6 = OfOp("create", c.create) \cup OfOp("update", c.update) \cup OfOp("remove", c.remove)
    BY <2>1 DEF OfOp
  <2>4. Mutations(c) =
          OfOp("create", c.create) \cup OfOp("update", c.update) \cup OfOp("remove", c.remove)
    BY <2>2 DEF Mutations, OfOp, Goal, Operations
  <2> QED BY <2>3, <2>4
<1> QED BY <1>9, <1>10, <1>11

\* An advanced rule is changed alone, and looked at again.
LEMMA ComplianceGoalsRun ==
  ASSUME NEW c \in Changes, Touched(c) \subseteq Advanced
  PROVE  /\ Runs(ComplianceGoals(c), Mutations(c) \cup OfOp("readback", c.create \cup c.update))
         /\ OfOp("readback", c.create \cup c.update) \subseteq Reads
<1>1. \A S \in {c.create, c.update, c.remove, c.create \cup c.update} :
        S \in SUBSET Resources /\ IsFiniteSet(S) /\ S \cap Lists = {}
  BY ChangeIs, BrowserAssumption
<1>2. /\ "create" \in Operations /\ "update" \in Operations /\ "remove" \in Operations
      /\ "readback" \in Operations
  BY DEF Operations
<1>3. /\ Runs(Ops("create", c.create), OfOp("create", c.create))
      /\ Runs(Ops("update", c.update), OfOp("update", c.update))
      /\ Runs(Ops("remove", c.remove), OfOp("remove", c.remove))
      /\ Runs(Ops("readback", c.create \cup c.update), OfOp("readback", c.create \cup c.update))
  BY <1>1, <1>2, OpsRun
<1> DEFINE g2 == OfOp("create", c.create) \cup OfOp("update", c.update)
           g3 == g2 \cup OfOp("remove", c.remove)
           g4 == g3 \cup OfOp("readback", c.create \cup c.update)
           s2 == Ops("create", c.create) \o Ops("update", c.update)
           s3 == s2 \o Ops("remove", c.remove)
           s4 == s3 \o Ops("readback", c.create \cup c.update)
<1>4. \A g \in g4, h \in g4 : ~OutOfOrder(g, h)
  BY <1>1 DEF OfOp, OutOfOrder
<1>5. Runs(s2, g2)
  BY <1>3, <1>4, ConcatRuns
<1>6. Runs(s3, g3)
  <2> HIDE DEF s2
  <2> QED BY <1>3, <1>4, <1>5, ConcatRuns
<1>7. Runs(s4, g4)
  <2> HIDE DEF s3
  <2> QED BY <1>3, <1>4, <1>6, ConcatRuns
<1>8. g3 = Mutations(c)
  BY <1>1 DEF Mutations, OfOp, Goal, Operations
<1>9. OfOp("readback", c.create \cup c.update) \subseteq Reads
  BY <1>1 DEF OfOp, Reads, Goal, Operations
<1> QED BY <1>7, <1>8, <1>9 DEF ComplianceGoals

\* The whole execution: reads, every mutation of the change, reads.
LEMMA ProgramRuns ==
  ASSUME NEW c \in Changes
  PROVE  /\ Program(c) \in Seq(Goal) /\ Ordered(Program(c)) /\ Program(c) # <<>>
         /\ Mutations(c) \subseteq Range(Program(c))
         /\ Range(Program(c)) \subseteq Mutations(c) \cup Reads
<1> DEFINE first == ReadGoals(c.update \cup c.remove)
           middle == IF Touched(c) \cap Advanced # {} THEN ComplianceGoals(c) ELSE Phases(c)
           last == VerificationRead(c)
           f == OfOp("read", c.update \cup c.remove)
           l == OfOp("read", c.create \cup c.update)
<1>1. Runs(first, f) /\ f \subseteq Reads
  <2>1. c.update \cup c.remove \in SUBSET Resources /\ IsFiniteSet(c.update \cup c.remove)
    BY ChangeIs
  <2> QED BY <2>1, ReadGoalsRun DEF OfOp, Reads, Goal, Operations
<1>2. Runs(last, l) /\ l \subseteq Reads
  BY VerificationReadRuns
<1>3. PICK m : Runs(middle, m) /\ Mutations(c) \subseteq m /\ m \subseteq Mutations(c) \cup Reads
  <2>1. CASE Touched(c) \cap Advanced = {}
    BY <2>1, PhasesRun
  <2>2. CASE Touched(c) \cap Advanced # {}
    <3>1. Touched(c) \subseteq Advanced
      BY <2>2, BrowserAssumption
    <3> QED BY <2>2, <3>1, ComplianceGoalsRun
  <2> QED BY <2>1, <2>2
<1>4. Program(c) = (first \o middle) \o last
  BY DEF Program
<1> HIDE DEF first, middle, last, f, l
<1>5. \A g, h : g \in Reads \/ h \in Reads => ~OutOfOrder(g, h)
  BY DEF Reads, OutOfOrder
<1>6. Runs(first \o middle, f \cup m)
  <2>1. \A g \in f, h \in m : ~OutOfOrder(g, h)
    BY <1>1, <1>5
  <2> QED BY <1>1, <1>3, <2>1, ConcatRuns
<1>7. Runs((first \o middle) \o last, (f \cup m) \cup l)
  <2>1. \A g \in f \cup m, h \in l : ~OutOfOrder(g, h)
    BY <1>2, <1>5
  <2> QED BY <1>2, <1>6, <2>1, ConcatRuns
<1>8. Runs(Program(c), (f \cup m) \cup l)
  BY <1>4, <1>7
<1>9. \E g : g \in Mutations(c)
  <2>1. PICK x : x \in c.create \/ x \in c.update \/ x \in c.remove
    BY BrowserAssumption DEF Touched
  <2>2. x \in Resources
    BY <2>1, ChangeIs
  <2>3. \A op \in Operations : [op |-> op, resource |-> x] \in Goal
    BY <2>2 DEF Goal
  <2> QED BY <2>1, <2>3 DEF Mutations, Operations
<1>10. Range(<<>>) = {}
  BY DEF Range
<1> QED BY <1>1, <1>2, <1>3, <1>8, <1>9, <1>10 DEF Runs

\* A resource has one mutation (domain/diff.py).
LEMMA OneMutation ==
  ASSUME NEW c \in Changes, NEW g \in Mutations(c), NEW h \in Mutations(c),
         g.resource = h.resource
  PROVE  g = h
<1>1. g.op = h.op
  BY BrowserAssumption DEF Mutations
<1> QED BY <1>1 DEF Mutations, Goal

-----------------------------------------------------------------------------
(* The actions.                                                            *)

LEMMA InitInv == Init => IInv
<1> SUFFICES ASSUME Init PROVE IInv
  OBVIOUS
<1>1. change \in Changes /\ goals = Program(change)
  BY DEF Init
<1>2. google \in [Resources -> {"absent", "old", "new", "bad"}]
  BY DEF Init
<1>3. TypeOK
  <2>1. goals \in Seq(Goal)
    BY <1>1, ProgramRuns
  <2>2. steps \in 0 .. MaxSteps /\ shifts \in 0 .. MaxShifts /\ repeated \in 0 .. 3 - 1
    BY BrowserAssumption DEF Init
  <2>3. /\ page \in Pages /\ at = "opening" /\ seen = None /\ previous = None
        /\ form = "clean" /\ result = None /\ lied = FALSE /\ strayed = FALSE
    BY DEF Init
  <2> QED BY <1>1, <1>2, <2>1, <2>2, <2>3 DEF TypeOK, RepeatedStepLimit
<1>4. Left
  BY <1>1, ProgramRuns, BrowserAssumption DEF Init, Left, Results
<1>5. Applied
  BY <1>1, ProgramRuns DEF Applied
<1>6. NoDanglingReference
  BY <1>1, BrowserAssumption DEF Init, NoDanglingReference, Resources
<1> QED BY <1>3, <1>4, <1>5, <1>6 DEF IInv

\* What a goal under way is, and what it leaves.
LEMMA CurrentGoal ==
  ASSUME IInv, at # "done"
  PROVE  /\ goal \in Goal /\ goal \in Range(goals) /\ goal \in Mutations(change) \cup Reads
         /\ mutation_allowed <=> goal \in Mutations(change)
         /\ Tail(goals) \in Seq(Goal) /\ Ordered(Tail(goals))
         /\ Range(goals) = {goal} \cup Range(Tail(goals))
         /\ \A h \in Range(goals) : ~OutOfOrder(goal, h)
<1>1. goals \in Seq(Goal) /\ goals # <<>> /\ Ordered(goals)
  BY DEF IInv, TypeOK, Left
<1>2. /\ goal \in Goal /\ Tail(goals) \in Seq(Goal) /\ Ordered(Tail(goals))
      /\ Range(goals) = {goal} \cup Range(Tail(goals))
      /\ \A h \in Range(goals) : ~OutOfOrder(goal, h)
  BY <1>1, TailRuns DEF goal
<1>3. goal \in Mutations(change) \cup Reads
  BY <1>2 DEF IInv, Left
<1>4. mutation_allowed <=> goal \in Mutations(change)
  BY <1>3 DEF mutation_allowed, Mutations, Reads
<1> QED BY <1>2, <1>3, <1>4

\* An exception leaves everything where it is.
LEMMA RaisesInv ==
  ASSUME IInv, Raises, at # "done"
  PROVE  IInv'
<1>1. TypeOK'
  BY BrowserAssumption DEF IInv, TypeOK, Raises, Results
<1>2. Left'
  BY DEF IInv, Left, Raises, Ordered
<1>3. Applied'
  BY BrowserAssumption DEF Applied, Raises, Results
<1>4. NoDanglingReference'
  BY DEF IInv, NoDanglingReference, Raises
<1> QED BY <1>1, <1>2, <1>3, <1>4 DEF IInv

\* Steps that only move within a goal.
LEMMA MovesInv ==
  ASSUME IInv, UNCHANGED <<change, goals, google, result, lied>>,
         strayed' \in {strayed, TRUE}, at # "done", at' # "done"
  PROVE  Left' /\ Applied' /\ NoDanglingReference'
<1>1. Left'
  BY DEF IInv, Left, Ordered
<1>2. Applied'
  BY DEF IInv, Applied
<1>3. NoDanglingReference'
  BY DEF IInv, NoDanglingReference
<1> QED BY <1>1, <1>2, <1>3

\* A goal that is over with what it was for, or that only read.
LEMMA GoalEndsInv ==
  ASSUME IInv, at # "done", GoOnWith(Tail(goals), result),
         UNCHANGED <<change, google, strayed>>, lied => lied',
         ~lied' /\ mutation_allowed => google[goal.resource] = Wanted(goal)
  PROVE  Left' /\ Applied' /\ NoDanglingReference'
<1>1. result \in {None, "incomplete"} /\ Left /\ Applied /\ NoDanglingReference
  BY DEF IInv, Left
<1>2. goals' = Tail(goals) /\ result' \in {result, "completed"}
  BY DEF GoOnWith
<1>3. Left'
  <2>1. Range(goals') \subseteq Range(goals) /\ Ordered(goals')
    BY <1>2, CurrentGoal
  <2>2. /\ at' # "done" => goals' # <<>> /\ result' = result
        /\ result' = "completed" => goals' = <<>>
        /\ result' = "incomplete" => result = "incomplete"
    BY <1>1, <1>2, BrowserAssumption DEF GoOnWith, Results
  <2> QED BY <1>1, <2>1, <2>2 DEF Left
<1>4. Applied'
  <2> SUFFICES ASSUME ~lied', ~strayed', result' \in {None, "completed"},
                      NEW g \in Mutations(change), g \notin Range(Tail(goals))
               PROVE  google[g.resource] = Wanted(g)
    BY <1>2 DEF Applied, Wanted
  <2>1. result = None
    BY <1>1, BrowserAssumption DEF GoOnWith, Results
  <2>2. CASE g = goal
    BY <2>2, CurrentGoal
  <2>3. CASE g # goal
    BY <1>1, <2>1, <2>3, CurrentGoal DEF Applied
  <2> QED BY <2>2, <2>3
<1>5. NoDanglingReference'
  BY <1>1 DEF NoDanglingReference
<1> QED BY <1>3, <1>4, <1>5

LEMMA OpenAdminUrlInv == ASSUME IInv, OpenAdminUrl PROVE IInv'
<1>1. CASE Raises
  BY <1>1, RaisesInv DEF OpenAdminUrl
<1>2. CASE ~Raises
  <2>1. /\ at = "opening" /\ at' = "looking" /\ form' = "clean" /\ steps' = 0
        /\ previous' = None /\ repeated' = 0
        /\ UNCHANGED <<change, goals, seen, google, result, shifts, lied, strayed>>
        /\ page' \in IF goal.op = "readback" THEN Reloaded ELSE Start
    BY <1>2 DEF OpenAdminUrl
  <2>2. page' \in Pages
    BY <2>1 DEF Reloaded, Start, Pages, IInv, TypeOK
  <2>3. TypeOK'
    BY <2>1, <2>2, BrowserAssumption DEF IInv, TypeOK, RepeatedStepLimit
  <2>4. Left' /\ Applied' /\ NoDanglingReference'
    BY <2>1, MovesInv
  <2> QED BY <2>3, <2>4 DEF IInv
<1> QED BY <1>1, <1>2

LEMMA ObserveInv == ASSUME IInv, Observe PROVE IInv'
<1>1. CASE Raises
  BY <1>1, RaisesInv DEF Observe
<1>2. CASE ~Raises
  <2>1. /\ at = "looking" /\ at' = "choosing" /\ seen' = page /\ steps < MaxSteps
        /\ steps' = steps + 1
        /\ UNCHANGED <<change, goals, previous, repeated, page, form, google, result,
                       shifts, lied, strayed>>
    BY <1>2 DEF Observe, Counted, StepsLeft
  <2>2. steps' \in 0 .. MaxSteps
    BY <2>1, BrowserAssumption DEF IInv, TypeOK
  <2>3. seen' \in Pages /\ seen' # None
    BY <2>1, BrowserAssumption DEF IInv, TypeOK
  <2>4. TypeOK'
    BY <2>1, <2>2, <2>3 DEF IInv, TypeOK
  <2>5. Left' /\ Applied' /\ NoDanglingReference'
    BY <2>1, MovesInv
  <2> QED BY <2>4, <2>5 DEF IInv
<1> QED BY <1>1, <1>2

LEMMA PageShiftsInv == ASSUME IInv, PageShifts PROVE IInv'
<1>1. /\ at \in {"looking", "choosing"} /\ shifts < MaxShifts /\ shifts' = shifts + 1
      /\ page' \in Pages /\ form' = "clean"
      /\ UNCHANGED <<change, goals, at, steps, previous, repeated, seen, google, result,
                     lied, strayed>>
  BY DEF PageShifts
<1>2. shifts' \in 0 .. MaxShifts
  BY <1>1, BrowserAssumption DEF IInv, TypeOK
<1>3. TypeOK'
  BY <1>1, <1>2 DEF IInv, TypeOK
<1>4. Left' /\ Applied' /\ NoDanglingReference'
  BY <1>1, MovesInv
<1> QED BY <1>3, <1>4 DEF IInv

\* The rest of the change is given up: what follows only reads.
LEMMA GivesUpInv ==
  ASSUME IInv, at # "done", GoOnWith(VerificationRead(change), "incomplete"),
         UNCHANGED <<change, google, lied, strayed>>
  PROVE  goals' \in Seq(Goal) /\ Left' /\ Applied' /\ NoDanglingReference'
<1>1. change \in Changes /\ NoDanglingReference
  BY DEF IInv, TypeOK
<1>2. /\ goals' = VerificationRead(change) /\ result' = "incomplete"
      /\ at' # "done" => goals' # <<>>
  BY BrowserAssumption DEF GoOnWith, Results
<1>3. goals' \in Seq(Goal) /\ Range(goals') \subseteq Reads /\ Ordered(goals')
  BY <1>1, <1>2, VerificationReadRuns DEF Runs
<1>4. Left'
  BY <1>2, <1>3 DEF Left
<1>5. Applied'
  BY <1>2, BrowserAssumption DEF Applied, Results
<1>6. NoDanglingReference'
  BY <1>1 DEF NoDanglingReference
<1> QED BY <1>3, <1>4, <1>5, <1>6

LEMMA OutOfStepsInv == ASSUME IInv, OutOfSteps PROVE IInv'
<1>1. at = "looking"
  BY DEF OutOfSteps
<1>2. CASE Raises
  BY <1>1, <1>2, RaisesInv
<1>3. CASE ~Raises
  <2>1. /\ UNCHANGED <<change, page, form, google, shifts, lied, strayed, steps, previous,
                       repeated, seen>>
        /\ IF mutation_allowed THEN GoOnWith(VerificationRead(change), "incomplete")
           ELSE GoOnWith(Tail(goals), result)
    BY <1>3 DEF OutOfSteps, Exhausted
  <2>2. goals' \in Seq(Goal) /\ Left' /\ Applied' /\ NoDanglingReference'
    <3>1. CASE mutation_allowed
      BY <1>1, <2>1, <3>1, GivesUpInv
    <3>2. CASE ~mutation_allowed
      <4>1. Left' /\ Applied' /\ NoDanglingReference'
        BY <1>1, <2>1, <3>2, GoalEndsInv
      <4>2. goals' \in Seq(Goal)
        BY <1>1, <2>1, <3>2, CurrentGoal DEF GoOnWith
      <4> QED BY <4>1, <4>2
    <3> QED BY <3>1, <3>2
  <2>3. at' \in {"opening", "done"} /\ result' \in Results \cup {None}
    BY <2>1 DEF GoOnWith, IInv, TypeOK, Results
  <2>4. TypeOK'
    BY <1>1, <2>1, <2>2, <2>3 DEF IInv, TypeOK
  <2> QED BY <2>2, <2>4 DEF IInv
<1> QED BY <1>2, <1>3

LEMMA CompleteInv == ASSUME IInv, Complete PROVE IInv'
<1>1. at = "choosing"
  BY DEF Complete
<1>2. CASE Raises
  BY <1>1, <1>2, RaisesInv
<1>3. CASE ~Raises
  <2>1. /\ GoOnWith(Tail(goals), result)
        /\ lied' = (lied \/ google[goal.resource] # Target(goal))
        /\ seen' = None
        /\ UNCHANGED <<change, steps, previous, repeated, page, form, google, shifts,
                       strayed>>
    BY <1>3 DEF Complete
  <2>2. mutation_allowed => Target(goal) = Wanted(goal)
    BY <1>1, CurrentGoal DEF Target, Wanted, Mutations
  <2>3. Left' /\ Applied' /\ NoDanglingReference'
    BY <1>1, <2>1, <2>2, GoalEndsInv
  <2>4. goals' \in Seq(Goal)
    BY <1>1, <2>1, CurrentGoal DEF GoOnWith
  <2>5. at' \in {"opening", "done"} /\ result' \in Results \cup {None}
    BY <2>1 DEF GoOnWith, IInv, TypeOK, Results
  <2>6. lied' \in BOOLEAN
    BY <2>1
  <2>7. TypeOK'
    BY <2>1, <2>4, <2>5, <2>6 DEF IInv, TypeOK
  <2> QED BY <2>3, <2>7 DEF IInv
<1> QED BY <1>2, <1>3

\* A save on the page that was observed is a save of the goal's resource.
LEMMA SaveIs ==
  ASSUME IInv, NEW step \in BrowserStep, Act(step), ~strayed', google' # google
  PROVE  /\ goal \in Mutations(change) /\ ~strayed
         /\ \E v : /\ google' = [google EXCEPT ![goal.resource] = v]
                  /\ IF goal.op = "remove" THEN v = "absent" ELSE v \in {"new", "bad"}
<1>1. at = "choosing" /\ Gated(step) /\ Execute(step) /\ page = seen /\ ~strayed
  BY DEF Act
<1>2. MaySave(step) /\ google' \in Saved
  BY <1>1 DEF Execute
<1>3. page.editor = goal.resource /\ mutation_allowed
  BY <1>1, <1>2, SaveGate, ReadGate
<1>4. goal \in Mutations(change)
  BY <1>1, <1>3, CurrentGoal
<1>5. google' \in {[google EXCEPT ![goal.resource] = v] :
                    v \in IF goal.op = "remove" THEN {"absent"} ELSE {"new", "bad"}}
  BY <1>2, <1>3 DEF Saved
<1> QED BY <1>1, <1>4, <1>5

\* What a step of the model can do to Google's resources.
LEMMA ActType ==
  ASSUME IInv, NEW step \in BrowserStep, Act(step)
  PROVE  TypeOK'
<1>1. /\ at = "choosing" /\ at' = "looking" /\ previous' = step /\ seen' = None
      /\ strayed' = (strayed \/ page # seen) /\ Execute(step)
      /\ UNCHANGED <<change, goals, steps, result, shifts, lied>>
  BY DEF Act
<1>2. repeated' \in 0 .. RepeatedStepLimit - 1
  <2>1. repeated' = 1 \/ repeated' = repeated + 1
    BY DEF Act
  <2>2. repeated \in Nat /\ repeated' < RepeatedStepLimit
    BY DEF Act, IInv, TypeOK, RepeatedStepLimit
  <2> QED BY <2>1, <2>2 DEF RepeatedStepLimit
<1>3. page' \in Pages /\ form' \in {"clean", "changed"}
  BY <1>1 DEF Execute, Navigates, IInv, TypeOK
<1>4. google' \in [Resources -> {"absent", "old", "new", "bad"}]
  <2>1. google \in [Resources -> {"absent", "old", "new", "bad"}] /\ page \in Pages
    BY DEF IInv, TypeOK
  <2>2. CASE google' = google
    BY <2>1, <2>2
  <2>3. CASE google' # google
    <3>1. google' \in Saved /\ page.editor # None
      BY <1>1, <2>3 DEF Execute
    <3>2. page.editor \in Resources
      BY <2>1, <3>1 DEF Pages
    <3>3. \E x \in Resources, v \in {"absent", "new", "bad"} : google' = [google EXCEPT ![x] = v]
      BY <3>1, <3>2 DEF Saved
    <3> QED BY <2>1, <3>3
  <2> QED BY <2>2, <2>3
<1>5. strayed' \in BOOLEAN
  BY <1>1
<1> QED BY <1>1, <1>2, <1>3, <1>4, <1>5 DEF IInv, TypeOK

LEMMA ActInv ==
  ASSUME IInv, NEW step \in BrowserStep, Act(step)
  PROVE  IInv'
<1>1. /\ at = "choosing" /\ at' = "looking" /\ strayed' = (strayed \/ page # seen)
      /\ UNCHANGED <<change, goals, steps, result, shifts, lied>>
  BY DEF Act
<1>2. TypeOK'
  BY ActType
<1>3. CASE google' = google
  <2>1. strayed \in BOOLEAN
    BY DEF IInv, TypeOK
  <2>2. strayed' \in {strayed, TRUE}
    BY <1>1, <2>1
  <2>3. Left' /\ Applied' /\ NoDanglingReference'
    BY <1>1, <1>3, <2>2, MovesInv
  <2> QED BY <1>2, <2>3 DEF IInv
<1>4. CASE strayed'
  BY <1>1, <1>2, <1>4 DEF IInv, Left, Applied, NoDanglingReference, Ordered
<1>5. CASE google' # google /\ ~strayed'
  <2>1. PICK v : /\ google' = [google EXCEPT ![goal.resource] = v]
                 /\ IF goal.op = "remove" THEN v = "absent" ELSE v \in {"new", "bad"}
    BY <1>5, SaveIs
  <2>2. goal \in Mutations(change) /\ ~strayed /\ goal \in Range(goals)
    BY <1>1, <1>5, SaveIs, CurrentGoal
  <2>3. /\ change \in Changes /\ google \in [Resources -> {"absent", "old", "new", "bad"}]
        /\ Left /\ Applied /\ NoDanglingReference
    BY DEF IInv, TypeOK
  <2>4. result = None
    <3>1. goal \notin Reads
      BY <2>2 DEF Mutations, Reads
    <3> QED BY <1>1, <2>2, <2>3, <3>1 DEF Left
  <2>5. Left'
    BY <1>1, <2>3 DEF Left, Ordered
  <2>6. \A x \in Resources : google'[x] = IF x = goal.resource THEN v ELSE google[x]
    BY <2>1, <2>3
  <2>7. ASSUME ~lied PROVE \A g \in Mutations(change) :
          g \notin Range(goals) => google'[g.resource] = Wanted(g) /\ google[g.resource] = Wanted(g)
    <3> SUFFICES ASSUME NEW g \in Mutations(change), g \notin Range(goals)
                 PROVE  google'[g.resource] = Wanted(g) /\ google[g.resource] = Wanted(g)
      OBVIOUS
    <3>1. google[g.resource] = Wanted(g)
      BY <2>2, <2>3, <2>4, <2>7 DEF Applied
    <3>2. g.resource # goal.resource
      BY <2>2, <2>3, OneMutation
    <3>3. g.resource \in Resources
      BY DEF Mutations, Goal
    <3> QED BY <2>6, <3>1, <3>2, <3>3
  <2>8. Applied'
    BY <1>1, <2>7 DEF Applied, Wanted
  <2>9. NoDanglingReference'
    <3> SUFFICES ASSUME ~lied, NEW r \in Rules, NEW l \in Lists
                 PROVE  /\ {r, l} \subseteq change.create /\ google'[l] = "absent" =>
                             google'[r] = "absent"
                        /\ {r, l} \subseteq change.remove /\ google'[l] = "absent" =>
                             google'[r] = "absent"
      BY <1>1 DEF NoDanglingReference
    <3>1. r \in Resources /\ l \in Resources /\ r # l
      BY BrowserAssumption DEF Resources
    <3>2. \A op \in Operations :
            [op |-> op, resource |-> r] \in Goal /\ [op |-> op, resource |-> l] \in Goal
      BY <3>1 DEF Goal
    <3>3. ASSUME r \in change.create, l \in change.create, google'[l] = "absent"
          PROVE  google'[r] = "absent"
      <4> DEFINE cl == [op |-> "create", resource |-> l]
                 cr == [op |-> "create", resource |-> r]
      <4>1. cl \in Mutations(change) /\ cr \in Mutations(change)
        BY <3>2, <3>3 DEF Mutations, Operations
      <4>2. CASE goal = cl
        BY <2>1, <2>6, <3>1, <3>3, <4>2
      <4>3. CASE goal = cr
        <5>1. OutOfOrder(goal, cl)
          BY <4>3 DEF OutOfOrder
        <5>2. cl \notin Range(goals)
          BY <1>1, <5>1, CurrentGoal
        <5>3. google'[l] = "new"
          BY <2>7, <4>1, <5>2 DEF Wanted
        <5> QED BY <3>3, <5>3
      <4>4. CASE goal # cl /\ goal # cr
        <5>1. goal.resource # l /\ goal.resource # r
          BY <2>2, <2>3, <4>1, <4>4, OneMutation
        <5>2. google'[l] = google[l] /\ google'[r] = google[r]
          BY <2>6, <3>1, <5>1
        <5> QED BY <2>2, <2>3, <3>3, <5>2 DEF NoDanglingReference
      <4> QED BY <4>2, <4>3, <4>4
    <3>4. ASSUME r \in change.remove, l \in change.remove, google'[l] = "absent"
          PROVE  google'[r] = "absent"
      <4> DEFINE rl == [op |-> "remove", resource |-> l]
                 rr == [op |-> "remove", resource |-> r]
      <4>1. rl \in Mutations(change) /\ rr \in Mutations(change)
        BY <3>2, <3>4 DEF Mutations, Operations
      <4>2. CASE goal = rl
        <5>1. OutOfOrder(goal, rr)
          BY <4>2 DEF OutOfOrder
        <5>2. rr \notin Range(goals)
          BY <1>1, <5>1, CurrentGoal
        <5> QED BY <2>7, <4>1, <5>2 DEF Wanted
      <4>3. CASE goal = rr
        BY <2>1, <2>6, <3>1, <4>3
      <4>4. CASE goal # rl /\ goal # rr
        <5>1. goal.resource # l /\ goal.resource # r
          BY <2>2, <2>3, <4>1, <4>4, OneMutation
        <5>2. google'[l] = google[l] /\ google'[r] = google[r]
          BY <2>6, <3>1, <5>1
        <5> QED BY <2>2, <2>3, <3>4, <5>2 DEF NoDanglingReference
      <4> QED BY <4>2, <4>3, <4>4
    <3> QED BY <3>3, <3>4
  <2> QED BY <1>2, <2>5, <2>8, <2>9 DEF IInv
<1> QED BY <1>3, <1>4, <1>5

LEMMA NextInv == IInv /\ [Next]_vars => IInv'
<1> SUFFICES ASSUME IInv, [Next]_vars PROVE IInv'
  OBVIOUS
<1>1. CASE OpenAdminUrl
  BY <1>1, OpenAdminUrlInv
<1>2. CASE Observe
  BY <1>2, ObserveInv
<1>3. CASE OutOfSteps
  BY <1>3, OutOfStepsInv
<1>4. CASE Complete
  BY <1>4, CompleteInv
<1>5. CASE StepFails
  BY <1>5, RaisesInv DEF StepFails
<1>6. ASSUME NEW step \in ChooseStep, Act(step) PROVE IInv'
  BY <1>6, ActInv DEF ChooseStep
<1>7. CASE PageShifts
  BY <1>7, PageShiftsInv
<1>8. CASE UNCHANGED vars
  BY <1>8 DEF vars, IInv, TypeOK, Left, Applied, NoDanglingReference, Ordered
<1> QED BY <1>1, <1>2, <1>3, <1>4, <1>5, <1>6, <1>7, <1>8 DEF Next, Driver

-----------------------------------------------------------------------------
(* The theorems about what is left at Google.                              *)

\* The goals that are left are those of the change in a safe order, and what
\* has none any more is applied, as long as nobody lied and no page strayed.
THEOREM InvariantHolds == Spec => []IInv
BY InitInv, NextInv, PTL DEF Spec

\* The loop's counters, the page it observed and the goals keep their types:
\* steps stays within browser_agent_max_steps.
THEOREM TypeCorrect == Spec => []TypeOK
<1>1. IInv => TypeOK
  BY DEF IInv
<1> QED BY <1>1, InvariantHolds, PTL

\* apply_blocked_sender_change may stop anywhere: no rule refers to a list that
\* is not there, for every change with any number of rules and lists.
THEOREM StopsAreSafe == Spec => []NoDanglingReference
<1>1. IInv => NoDanglingReference
  BY DEF IInv
<1> QED BY <1>1, InvariantHolds, PTL

\* A run that reports completion applied every part of the change.
THEOREM CompletionIsTrue == Spec => []CompletedIsApplied
<1>1. IInv => CompletedIsApplied
  <2> SUFFICES ASSUME IInv, result = "completed", ~lied, ~strayed
               PROVE  /\ \A x \in change.create \cup change.update : google[x] = "new"
                      /\ \A x \in change.remove : google[x] = "absent"
    BY DEF CompletedIsApplied
  <2>1. Range(goals) = {} /\ change \in Changes
    BY DEF IInv, TypeOK, Left, Range
  <2>2. \A g \in Mutations(change) : google[g.resource] = Wanted(g)
    BY <2>1 DEF IInv, Applied
  <2>3. /\ \A x \in change.create : [op |-> "create", resource |-> x] \in Mutations(change)
        /\ \A x \in change.update : [op |-> "update", resource |-> x] \in Mutations(change)
        /\ \A x \in change.remove : [op |-> "remove", resource |-> x] \in Mutations(change)
    BY <2>1, ChangeIs DEF Mutations, Goal, Operations
  <2> QED BY <2>2, <2>3 DEF Wanted
<1> QED BY <1>1, InvariantHolds, PTL

=============================================================================
