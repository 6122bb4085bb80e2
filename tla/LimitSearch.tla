----------------------------- MODULE LimitSearch -----------------------------
(***************************************************************************)
(* HybridNew::runLimit: the search for the value of r at which the p-value *)
(* (CLs or Pmu), which falls with r, crosses its target.  Each p-value is  *)
(* estimated with toys, or read from a grid of toys.  Positions are whole  *)
(* steps of r, the crossing lies between the steps c and c + 1, and errors *)
(* on r count half steps.  Of a p-value the search uses the side of the    *)
(* target it is on when it is two of its errors off, and whether it is off *)
(* by three; one that is two errors off is taken to be on the right side.  *)
(***************************************************************************)
EXTENDS Integers, Sequences

CONSTANTS
  Setups,      \* options, the range of r, the hint and the grid
  Crossings,   \* where the p-value may cross the target
  Blur,        \* p-values closer to the crossing than this are near the target
  Haze,        \* p-values up to this far from it can be near the target, and
               \* need not be three errors off or have an error
  AbsAcc,      \* --rAbsAcc, in steps
  RelAcc,      \* the inverse of --rRelAcc
  MaxFailures, \* bound on p-values that fail
  None         \* no hint

ASSUME ZonesAssumption == Blur \in Nat /\ Haze \in Nat /\ Blur <= Haze /\ MaxFailures \in Nat
ASSUME AccuracyAssumption == AbsAcc \in Nat \ {0} /\ RelAcc \in Nat \ {0}

\* The points of a grid, at least two, are the keys of a map.
SetupType ==
  [rule : {"CLs", "Pmu"}, stat : {"LEP", "TEV", "LHC", "Profile"}, algo : {"bisection", "logSecant"},
   min : Int, max : Int, hint : Int \cup {None}, grid : Seq(Int), fullGrid : BOOLEAN]
ASSUME SetupsAssumption ==
  /\ Setups \subseteq SetupType /\ None \notin Int
  /\ \A s \in Setups :
       /\ s.min < s.max /\ s.max > 0
       /\ s.hint # None => s.hint > 0 /\ (3 * s.hint) \div 10 < s.max
       /\ s.grid # <<>> => Len(s.grid) > 1
       /\ \A i, j \in 1..Len(s.grid) : i < j => s.grid[i] < s.grid[j]
ASSUME CrossingsAssumption == Crossings \subseteq Int

VARIABLES
  setup, c,
  pc,
  rlo,             \* the minimum of the parameter of interest
  rMin, rMax,      \* the interval
  clsMin, clsMax,  \* the p-values at its ends
  limit, limitErr, \* the position, and twice the error
  done,            \* the accuracy was reached by the search
  low, high,       \* rMinBound and rMaxBound, the range of the fit
  tries,           \* passes of the present loop
  failures,        \* p-values that failed (history)
  clipped          \* a p-value was asked for below the minimum of r

ends == <<rMin, rMax, clsMin, clsMax>>
vars == <<setup, c, pc, rlo, ends, limit, limitErr, done, low, high, tries, failures, clipped>>

Larger(a, b) == IF a > b THEN a ELSE b
Smaller(a, b) == IF a < b THEN a ELSE b
Middle(a, b) == (a + b) \div 2
Distance(a, b) == Larger(a - b, b - a)

-----------------------------------------------------------------------------
(* P-values.                                                               *)

\* One and zero have no error, a failure is -1 with the error -1, and one that
\* is less than two errors off is near the target.
AboveTarget == {"one", "above"}
BelowTarget == {"zero", "below"}
NoError(e) == e \in {"one", "zero"}
Results == AboveTarget \cup BelowTarget \cup {"near", "failed"}

\* Steps from the nearer of c and c + 1.
Off(x) == IF x <= c THEN c - x ELSE x - c - 1

\* RooRealVar::setVal: a value below the minimum becomes the minimum; the
\* maximum is raised first.
At(x) == Larger(x, rlo)

\* eval, with toys until the error is small or the target is far away.
Estimates(x) ==
  (IF failures < MaxFailures THEN {"failed"} ELSE {})
  \cup (IF Off(At(x)) <= Haze THEN {"near"} ELSE {})
  \cup (IF Off(At(x)) < Blur THEN {}
        ELSE {e \in IF At(x) <= c THEN AboveTarget ELSE BelowTarget :
                NoError(e) => Off(At(x)) > Haze})

\* Three errors off for sure.
WellOff(e, x) == NoError(e) \/ Off(At(x)) > Haze

\* create: the test statistic LHC wants r not to be negative.
Evaluated(x, e) ==
  /\ failures' = IF e = "failed" THEN failures + 1 ELSE failures
  /\ clipped' = (clipped \/ x < rlo)
  /\ rlo' = IF setup.stat = "LHC" THEN 0 ELSE rlo

\* Mutant: only the relative error counts.
AccuracyRelative(x, err) == err * RelAcc < 2 * x

\* The error is below --rAbsAcc or, relative to the limit, below --rRelAcc.
Accuracy(x, err) == err < 2 * AbsAcc \/ err * RelAcc < 2 * x

-----------------------------------------------------------------------------
\* The hint narrows the range of r.
Hinted(s) == s.hint # None /\ s.hint > s.min /\ s.stat # "Profile"

Init ==
  /\ setup \in Setups /\ c \in Crossings
  /\ setup.rule = "CLs" => c >= 0
  /\ pc = IF setup.grid = <<>> THEN "upper" ELSE "scan"
  /\ rlo = IF Hinted(setup) THEN Larger((3 * setup.hint) \div 10, setup.min) ELSE setup.min
  /\ rMin = IF setup.grid = <<>> THEN rlo ELSE setup.grid[1]
  /\ rMax = IF setup.grid # <<>> THEN setup.grid[Len(setup.grid)]
            ELSE IF Hinted(setup) THEN Smaller(3 * setup.hint, setup.max)
            ELSE setup.max
  /\ clsMin = "one" /\ clsMax = "zero"
  /\ limit = Middle(rMin, rMax) /\ limitErr = rMax - rMin /\ done = FALSE
  /\ low = rMin /\ high = rMax
  /\ tries = 0 /\ failures = 0 /\ clipped = FALSE

\* Mutant: another attempt.
LastTry == 6

\* Attempts are counted from zero.
Tries == 5

\* "Search for upper limit to the limit": a p-value of zero, or three errors
\* below the target.
Upper ==
  /\ pc = "upper"
  /\ \E e \in Estimates(rMax) :
       /\ Evaluated(rMax, e)
       /\ clsMax' = e
       /\ \/ e \in BelowTarget /\ pc' = "lower" /\ rMax' = rMax /\ tries' = 0
          \/ /\ ~(e \in BelowTarget /\ WellOff(e, rMax))
             /\ rMax' = 2 * rMax /\ tries' = tries + 1
             /\ pc' = IF tries = Tries THEN "failed" ELSE pc
  /\ UNCHANGED <<setup, c, rMin, clsMin, limit, limitErr, done, low, high>>

\* "Search for lower limit to the limit": a p-value of one, or three errors above
\* the target.  CLs is one at zero.
LowerAtZero ==
  /\ pc = "lower" /\ setup.rule = "CLs" /\ rMin = 0
  /\ pc' = "bisect" /\ clsMin' = "one"
  /\ UNCHANGED <<setup, c, rlo, rMin, rMax, clsMax, limit, limitErr, done, low, high, tries, failures, clipped>>

Lower ==
  /\ pc = "lower" /\ ~(setup.rule = "CLs" /\ rMin = 0)
  /\ \E e \in Estimates(rMin) :
       /\ Evaluated(rMin, e)
       /\ \/ e \in AboveTarget /\ pc' = "bisect" /\ clsMin' = e /\ rMin' = rMin
          \/ /\ ~(e \in AboveTarget /\ WellOff(e, rMin)) /\ setup.rule = "CLs"
             /\ pc' = "bisect" /\ clsMin' = "one" /\ rMin' = 0
          \/ /\ ~(e \in AboveTarget /\ WellOff(e, rMin)) /\ setup.rule = "Pmu"
             /\ pc' = "negative" /\ clsMin' = e /\ rMin' = -(rMax \div 4)
  /\ UNCHANGED <<setup, c, rMax, clsMax, limit, limitErr, done, low, high, tries>>

LowerNegative ==
  /\ pc = "negative"
  /\ \E e \in Estimates(rMin) :
       /\ Evaluated(rMin, e)
       /\ clsMin' = e
       /\ \/ e \in AboveTarget /\ pc' = "bisect" /\ rMin' = rMin /\ tries' = 0
          \/ /\ ~(e \in AboveTarget /\ WellOff(e, rMin))
             /\ rMin' = 2 * rMin /\ tries' = tries + 1
             /\ pc' = IF tries = Tries THEN "failed" ELSE pc
  /\ UNCHANGED <<setup, c, rMax, clsMax, limit, limitErr, done, low, high>>

\* The next position and its error.  The interpolation of logSecant ends between
\* the ends of the interval; its error is that of the interval where a p-value
\* has none, and otherwise, for p-values two errors off, about a quarter of
\* the interval and a fifth at least (--interpAcc).
Between(a, b) == IF b - a <= 1 THEN {a, b} ELSE {a + 1, Middle(a, b), b - 1}
Proposals ==
  LET w == rMax - rMin
  IN  IF setup.algo = "bisection" \/ clsMax = "zero"
      THEN {<<Middle(rMin, rMax), w>>}
      ELSE IF NoError(clsMin)
      THEN Between(rMin, rMax) \X {w}
      ELSE Between(rMin, rMax) \X {(2 * w + 4) \div 5, (3 * w + 4) \div 5}

\* Mutant: the p-value takes the place of the other end.
DropOther(x, e) ==
  IF (e \in AboveTarget) = (clsMin \in AboveTarget)
  THEN rMax' = x /\ clsMax' = e /\ UNCHANGED <<rMin, clsMin>>
  ELSE rMin' = x /\ clsMin' = e /\ UNCHANGED <<rMax, clsMax>>

\* "if sufficiently far away, drop one of the points": that on the same side.
Drop(x, e) ==
  IF (e \in AboveTarget) = (clsMax \in AboveTarget)
  THEN rMax' = x /\ clsMax' = e /\ UNCHANGED <<rMin, clsMin>>
  ELSE rMin' = x /\ clsMin' = e /\ UNCHANGED <<rMax, clsMax>>

\* "Now doing proper bracketing & bisection".
Bisect ==
  /\ pc = "bisect"
  /\ \E p \in Proposals :
       /\ limit' = p[1] /\ limitErr' = p[2]
       /\ \/ /\ Accuracy(p[1], p[2])
             /\ done' = TRUE /\ pc' = "done"
             /\ UNCHANGED <<rlo, failures, clipped, ends, low, high>>
          \/ /\ ~Accuracy(p[1], p[2])
             /\ done' = done
             /\ \E e \in Estimates(p[1]) : Evaluated(p[1], e) /\
                  \/ e = "failed" /\ pc' = "failed" /\ UNCHANGED <<ends, low, high>>
                  \/ /\ e = "near" /\ pc' = "shrinkMin"
                     /\ low' = rMin /\ high' = rMax /\ UNCHANGED ends
                  \/ /\ e \notin {"failed", "near"} /\ pc' = pc
                     /\ Drop(p[1], e)
                     /\ UNCHANGED <<low, high>>
  /\ UNCHANGED <<setup, c, tries>>

\* "Trying to move the interval edges closer": half way to the limit, as long
\* as the p-value there is two errors from the target, on whichever side.  A
\* p-value of -1 with the error -1, of a failure, counts as that.
Apart(x) == Distance(x, limit) > AbsAcc /\ Distance(x, limit) * RelAcc > limit

ShrinkMin ==
  /\ pc = "shrinkMin" /\ (NoError(clsMin) \/ Apart(rMin))
  /\ rMin' = (rMin + limit + 1) \div 2
  /\ \E e \in Estimates(rMin') :
       /\ Evaluated(rMin', e)
       /\ clsMin' = e
       /\ IF e = "near" THEN pc' = "shrinkMax" /\ low' = low ELSE pc' = pc /\ low' = rMin'
  /\ UNCHANGED <<setup, c, rMax, clsMax, limit, limitErr, done, high, tries>>

ShrunkMin ==
  /\ pc = "shrinkMin" /\ ~(NoError(clsMin) \/ Apart(rMin))
  /\ pc' = "shrinkMax"
  /\ UNCHANGED <<setup, c, rlo, ends, limit, limitErr, done, low, high, tries, failures, clipped>>

ShrinkMax ==
  /\ pc = "shrinkMax" /\ (NoError(clsMax) \/ Apart(rMax))
  /\ rMax' = (rMax + limit) \div 2
  /\ \E e \in Estimates(rMax') :
       /\ Evaluated(rMax', e)
       /\ clsMax' = e
       /\ IF e = "near" THEN pc' = "range" /\ high' = high ELSE pc' = pc /\ high' = rMax'
  /\ UNCHANGED <<setup, c, rMin, clsMin, limit, limitErr, done, low, tries>>

ShrunkMax ==
  /\ pc = "shrinkMax" /\ ~(NoError(clsMax) \/ Apart(rMax))
  /\ pc' = "range"
  /\ UNCHANGED <<setup, c, rlo, ends, limit, limitErr, done, low, high, tries, failures, clipped>>

-----------------------------------------------------------------------------
(* The grid.                                                               *)

\* A p-value of the grid, three errors, of 0.01 at least, from the target.
GridResults(x) ==
  IF setup.rule = "CLs" /\ x <= 0 THEN {"one"}
  ELSE {"near"} \cup (IF x <= c THEN {"above"} ELSE {"below"})

\* The points up to the first that is well below the target; the limit is the
\* one whose p-value is nearest to the target.
Scan ==
  /\ pc = "scan"
  /\ LET x == setup.grid[tries + 1] IN
       \E e \in GridResults(x) :
         /\ rMin' = IF e \in AboveTarget THEN x ELSE rMin
         /\ clsMin' = IF e \in AboveTarget THEN e ELSE clsMin
         /\ rMax' = x /\ clsMax' = e
         /\ limit' \in IF tries = 0 THEN {x} ELSE {limit, x}
         /\ tries' = tries + 1
         /\ pc' = IF (e \in BelowTarget /\ ~setup.fullGrid) \/ tries' = Len(setup.grid)
                  THEN "scanned" ELSE pc
  /\ UNCHANGED <<setup, c, rlo, limitErr, done, low, high, failures, clipped>>

Scanned ==
  /\ pc = "scanned"
  /\ limitErr' = 2 * Larger(limit - rMin, rMax - limit)
  /\ low' = rMin /\ high' = rMax
  /\ done' = Accuracy(limit, limitErr')
  /\ pc' = IF done' THEN "done" ELSE "range"
  /\ UNCHANGED <<setup, c, rlo, ends, limit, tries, failures, clipped>>

-----------------------------------------------------------------------------
(* The fit of an exponential to the p-values in the range.                 *)

\* Up to nine fits, with another point in the range before the next.  One is
\* accepted when the crossing it finds is in the range, with an error below
\* half of it; the last of these is the limit.
Fitted == {x \in {low + 1, high - 1} : low < x /\ x < high} \X {1, high - low - 1}

Fit ==
  /\ pc = "range"
  /\ \E p \in {<<limit, 2 * Larger(Distance(low, limit), Distance(high, limit))>>} \cup Fitted :
       limit' = p[1] /\ limitErr' = p[2]
  /\ pc' = "done"
  /\ UNCHANGED <<setup, c, rlo, ends, done, low, high, tries, failures, clipped>>

Next ==
  \/ Upper \/ LowerAtZero \/ Lower \/ LowerNegative
  \/ Bisect \/ ShrinkMin \/ ShrunkMin \/ ShrinkMax \/ ShrunkMax
  \/ Scan \/ Scanned \/ Fit

Spec == Init /\ [][Next]_vars
FairSpec == Spec /\ WF_vars(Next)

-----------------------------------------------------------------------------
TypeOK ==
  /\ setup \in Setups /\ c \in Crossings
  /\ pc \in {"upper", "lower", "negative", "bisect", "shrinkMin", "shrinkMax", "scan",
             "scanned", "range", "done", "failed"}
  /\ {rlo, rMin, rMax, limit, low, high} \subseteq Int /\ limitErr \in Nat
  /\ {clsMin, clsMax} \subseteq Results
  /\ done \in BOOLEAN /\ clipped \in BOOLEAN /\ failures \in 0..MaxFailures
  /\ tries \in 0 .. Larger(6, Len(setup.grid))

\* Half steps from the crossing.
HalfSteps(x) == Distance(2 * x, 2 * c + 1)

\* "the search is stopped when" the error on r is small enough, and the limit
\* then is that close to the crossing, or as close as five times the error of
\* an interpolation.  Otherwise it is in the range of the fit, which misses the
\* crossing by no more than what p-values cannot tell.  It does not matter that
\* p-values fail or are near the target anywhere on the way; but the search
\* must not have been below the minimum of r, and a grid must reach over the
\* crossing.
Accurate ==
  /\ pc = "done" /\ ~clipped
  /\ setup.grid # <<>> => setup.grid[1] <= c /\ c < setup.grid[Len(setup.grid)]
  => IF done
     THEN /\ Accuracy(limit, limitErr)
          /\ HalfSteps(limit) <= IF setup.algo = "logSecant" /\ setup.grid = <<>>
                                 THEN 5 * limitErr ELSE limitErr + 1
     ELSE /\ limit <= high /\ (setup.grid = <<>> => low <= limit)
          /\ low <= c + 1 + Haze /\ c - Haze <= high

\* The search ends: doubling, bisecting, interpolating and shrinking all do.
Ends == <>(pc \in {"done", "failed"})

\* The accuracy that was asked for, of whatever search that says it reached it.
AccurateAnyway ==
  pc = "done" /\ done /\ setup.grid = <<>> => HalfSteps(limit) <= 5 * limitErr + 1
=============================================================================
