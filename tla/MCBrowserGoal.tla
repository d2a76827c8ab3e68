--------------------------- MODULE MCBrowserGoal ----------------------------
(* One list, one rule and one content-compliance rule.                     *)
EXTENDS BrowserGoal

CONSTANTS l1, r1, c1

set(a, b, c) == [create |-> a, update |-> b, remove |-> c]

\* A rule with its list, or an advanced rule, is created, updated or removed.
MCChanges ==
  {set({l1, r1}, {}, {}), set({}, {l1, r1}, {}), set({}, {}, {l1, r1}),
   set({c1}, {}, {}), set({}, {c1}, {}), set({}, {}, {c1})}

=============================================================================
