---------------------------- MODULE MCDiscreteFit ----------------------------
(***************************************************************************)
(* Bounds for model checking DiscreteFit: two categories, of the channels  *)
(* "A" and "D", and a channel "B" without one.  The nuisance n ties A to   *)
(* B; the second pdf of each category has a parameter of its own.          *)
(***************************************************************************)
EXTENDS DiscreteFit

MCNPdf == [c \in 1..NCats |-> 2]
MCPdfPars ==
  [c \in 1..NCats |-> [k \in 0..1 |-> IF k = 0 THEN {} ELSE IF c = 1 THEN {"a"} ELSE {"d"}]]
MCChanCats == [h \in {"A", "D", "B"} |-> IF h = "A" THEN {1} ELSE IF h = "D" THEN {2} ELSE {}]
MCChanPars == [h \in {"A", "D", "B"} |-> IF h = "D" THEN {"mu"} ELSE {"mu", "n"}]

MCStarts == {[p \in Pars |-> 0]}

\* Squared distances from what a channel would like to see; the penalty of the
\* second pdf of A is a part of the model.
Square(i) == i * i
MCModels == [wantA : {0, 2}, wantD : {2}, wantB : {0, 1, 2}, penalty : {1}]
MCTerm(m, h, y, k) ==
  CASE h = "A" -> 6 * Square(y["mu"] + y["n"] + (IF k[1] = 1 THEN y["a"] ELSE 0) - m.wantA)
                    + (IF k[1] = 1 THEN m.penalty ELSE 0)
    [] h = "D" -> 2 * Square(y["mu"] + (IF k[2] = 1 THEN y["d"] ELSE 0) - m.wantD)
    [] OTHER -> 3 * Square(y["mu"] + y["n"] - m.wantB)
MCPenalty(m, y) == y["n"]

\* The options of the documentation; channels and constraints are masked only
\* where the parameters they depend on are frozen.
Flags == [short : BOOLEAN, disassociate : BOOLEAN, hide : BOOLEAN, constraints : BOOLEAN,
          channels : 0..2, analytic : BOOLEAN, prefit : BOOLEAN]
Sensible ==
  {o \in Flags :
     /\ ~o.disassociate => ~o.hide /\ o.channels = 0
     /\ ~o.hide => ~o.constraints
     /\ ~o.short => ~o.constraints /\ o.channels = 0
     /\ ~o.analytic => o.channels = 0}
Scanning == {o \in Sensible : o.short /\ o.disassociate /\ ~o.hide /\ o.channels = 0 /\ ~o.prefit}
=============================================================================
