---------------------------- MODULE MCLimitSearch ----------------------------
(***************************************************************************)
(* Bounds for model checking LimitSearch: crossings at and below zero, on  *)
(* both sides of the first maximum and below the range around a hint.      *)
(***************************************************************************)
EXTENDS LimitSearch, TLC

MCCrossings == {-2, 0, 3, 6, 11}

Searches ==
  [rule : {"CLs", "Pmu"}, stat : {"LEP", "LHC"}, algo : {"bisection", "logSecant"},
   min : {0, -4}, max : {8}, hint : {None}, grid : {<<>>}, fullGrid : {FALSE}]
Hints ==
  [rule : {"CLs", "Pmu"}, stat : {"LEP", "LHC", "Profile"}, algo : {"bisection"},
   min : {0}, max : {20}, hint : {24}, grid : {<<>>}, fullGrid : {FALSE}]
Grids ==
  [rule : {"CLs", "Pmu"}, stat : {"LEP"}, algo : {"bisection"}, min : {0}, max : {8}, hint : {None},
   grid : {<<0, 2, 4, 8>>, <<-4, 0, 5, 6, 7, 13>>}, fullGrid : BOOLEAN]
MCSetups == Searches \cup Hints \cup Grids
=============================================================================
