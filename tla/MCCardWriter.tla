----------------------------- MODULE MCCardWriter -----------------------------
(* Bounds for model checking CardWriter.                                    *)
EXTENDS CardWriter

MCObjects == [BIN : {"b1"}, MASS : {"125", "130", "*", "any"}]
             \cup [BIN : {"b2"}, MASS : {"125", "*"}]

\* One root file per bin for all masses, and one per mass and tag for all bins.
MCPatterns ==
  {[text |-> {"BIN", "MASS"}, root |-> {"BIN"}],
   [text |-> {"TAG", "BIN", "MASS"}, root |-> {"TAG", "MASS"}]}
=============================================================================
