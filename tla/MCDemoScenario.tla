--------------------------- MODULE MCDemoScenario ---------------------------
(* The automatic demo with interchangeable tabs and runs. *)
EXTENDS DemoScenario, TLC

SymTabsRuns == Permutations(Tab) \cup Permutations(Run)
=============================================================================
