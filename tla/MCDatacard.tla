------------------------------ MODULE MCDatacard ------------------------------
(* Instances for model checking Datacard.                                   *)
EXTENDS Datacard

S == <<"S">>
SM == <<"S", "120">>
B == <<"B">>

Proc(b, process, signal, m, hist) ==
  [bin |-> b, process |-> process, signal |-> signal, mass |-> m, hist |-> hist]
Syst(q, n, type, hist) ==
  [bin |-> q.bin, process |-> q.process, signal |-> q.signal, mass |-> q.mass,
   name |-> n, type |-> type, hist |-> hist]
ParamEntry(n) ==
  [bin |-> "", process |-> <<>>, signal |-> FALSE, mass |-> "", name |-> n,
   type |-> "param", hist |-> FALSE]

\* Parameters as AddSyst and AddSystVar leave them, x in two groups.
Params(systs, frozen) ==
  [n \in {"x", "y", "r"} |->
     [err |-> \E s \in ToSet(systs) : s.name = n /\ s.type \in {"lnN", "shape", "shapeN", "param"}
              /\ \A s2 \in ToSet(systs) : s2.name = n => s2.type # "lnU" /\ s2.type # "rateParam",
      frozen |-> n = "r" /\ frozen,
      groups |-> IF n = "x" THEN {"g", "h"} ELSE {"h"}]]
Instance(obs, procs, systs, frozen) ==
  [obs |-> obs, procs |-> procs, systs |-> systs, params |-> Params(systs, frozen), auto |-> {"b1"}]

Obs(b, hist) == [bin |-> b, hist |-> hist]

\* Any two or three columns, with one nuisance on the first.
Columns ==
  {Proc("b1", S, TRUE, "120", TRUE), Proc("b1", S, TRUE, "125", TRUE),
   Proc("b1", S, TRUE, "*", TRUE), Proc("b1", S, FALSE, "*", TRUE),
   Proc("b1", SM, FALSE, "*", TRUE), Proc("b1", B, FALSE, "*", TRUE),
   Proc("b1", B, FALSE, "*", FALSE), Proc("b2", B, FALSE, "*", FALSE),
   Proc("b2", S, TRUE, "120", FALSE), Proc("b1", SM, TRUE, "*", TRUE)}
Structures ==
  {Instance(o, c, <<Syst(c[1], "x", "shape", c[1].hist)>>, FALSE) :
     o \in {<<>>, <<Obs("b1", TRUE)>>, <<Obs("b1", FALSE), Obs("b2", FALSE)>>},
     c \in [1..2 -> Columns]}
  \cup {Instance(<<Obs("b1", TRUE)>>, c, <<>>, FALSE) : c \in [1..3 -> Columns]}

\* A signal at two masses and a background in two bins, with any nuisances on
\* three of the columns and any rateParam.
Four == <<Proc("b1", S, TRUE, "120", TRUE), Proc("b1", S, TRUE, "125", TRUE),
          Proc("b1", B, FALSE, "*", TRUE), Proc("b2", B, FALSE, "*", TRUE)>>
Two == SubSeq(Four, 3, 4)
On(q, n, type) ==
  IF type = "-" THEN <<>> ELSE <<Syst(q, n, type, type \in {"shape", "shapeN"})>>
Types == {"-", "lnN", "lnU", "shape", "shapeN"}
RateParams ==
  {<<>>, <<Syst(Four[3], "r", "rateParam", FALSE)>>,
   <<Syst(Four[3], "r", "rateParam", FALSE), Syst(Four[4], "r", "rateParam", FALSE)>>,
   <<Syst(Four[1], "r", "rateParam", FALSE), ParamEntry("r")>>}
XS(t) == On(Four[1], "x", t[1]) \o On(Four[3], "x", t[2]) \o On(Four[4], "x", t[3])
YS == {<<>>, <<ParamEntry("y")>>, <<Syst(Four[2], "y", "lnN", FALSE)>>}
Both == <<Obs("b1", TRUE), Obs("b2", TRUE)>>
Systematics ==
  {Instance(Both, c, XS(t) \o y, FALSE) : c \in {Four, Two}, t \in [1..3 -> Types], y \in YS}
  \cup {Instance(Both, c, XS(<<"shape", "lnN", "-">>) \o y \o r, f) :
           c \in {Four, Two}, y \in YS, r \in RateParams, f \in BOOLEAN}
  \cup {Instance(Both, SubSeq(Four, 1, 1), <<Syst(Four[3], "r", "rateParam", FALSE)>>, FALSE)}

\* What no card can express: a number and a shape of one nuisance on one
\* process, a number with templates, templates at the path of a number.  And a
\* card without processes.
BWithMass == <<Proc("b1", B, FALSE, "120", FALSE), Proc("b1", B, FALSE, "*", TRUE),
               Proc("b1", S, FALSE, "*", TRUE)>>
Odd ==
  {Instance(Both, <<>>, <<ParamEntry("y")>>, FALSE),
   Instance(Both, Four, On(Four[3], "x", "lnN") \o On(Four[3], "x", "shape"), FALSE),
   Instance(Both, Four, On(Four[3], "x", "shape") \o On(Four[3], "x", "lnN"), FALSE),
   Instance(Both, Four, <<Syst(Four[3], "x", "lnN", TRUE)>>, FALSE),
   Instance(SubSeq(Both, 1, 1), BWithMass,
            <<Syst(BWithMass[1], "x", "shape", TRUE), Syst(BWithMass[2], "x", "lnN", FALSE),
              Syst(BWithMass[3], "x", "shape", TRUE)>>, FALSE)}

MCInputs == Structures \cup Systematics \cup Odd
=============================================================================
