------------------------------ MODULE MCDemoData -------------------------------
(* DemoData on a small instance. Ids of riders, demo calls and tasks are   *)
(* interchangeable; only safety is checked.                                *)
EXTENDS DemoData, TLC

Symmetry == Permutations(Rider) \cup Permutations(DemoCall) \cup Permutations(Task)
===============================================================================
