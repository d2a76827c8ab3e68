------------------------ MODULE MCConsoleCoordinator ------------------------
(***************************************************************************)
(* Small instances of ConsoleCoordinator: two runs that compete for the     *)
(* browser, two Google states, a clock that outlives an approval.           *)
(***************************************************************************)
EXTENDS ConsoleCoordinator, TLC

\* Run identifiers and Google states are interchangeable.
Symmetry == Permutations(Runs) \cup Permutations(States)

=============================================================================
