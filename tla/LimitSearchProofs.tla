-------------------------- MODULE LimitSearchProofs --------------------------
(***************************************************************************)
(* What LimitSearch promises of a limit, for every range, hint, grid,      *)
(* accuracy and crossing.  The argument is the bracket: the p-value at one *)
(* end of the interval is above the target, that at the other below, and   *)
(* p-values that are not clipped are on the right side.                    *)
(***************************************************************************)
EXTENDS LimitSearch, TLAPS

Searching == {"upper", "lower", "negative", "bisect", "shrinkMin", "shrinkMax"}
Scanning == {"scan", "scanned"}

\* Types, with what bounds the attempts and tells a search from a scan.
Phases ==
  /\ TypeOK
  /\ pc \in Searching => setup.grid = <<>>
  /\ pc \in Scanning => setup.grid # <<>>
  /\ pc \in {"upper", "negative"} => tries <= 5
  /\ pc = "lower" => tries = 0
  /\ pc = "scan" => tries < Len(setup.grid)
  /\ pc # "done" => ~done
  /\ setup.rule = "CLs" => c >= 0

\* The ends of the interval are in order.
Ordered ==
  /\ pc \in Searching \cup {"scanned"} => rMin <= rMax
  /\ pc \in {"upper", "lower", "negative"} => rMax > 0
  /\ pc = "negative" => rMin <= 0
  /\ pc \in {"shrinkMin", "shrinkMax"} => rMin <= limit /\ limit <= rMax /\ low <= limit /\ limit <= high
  /\ pc = "range" => low <= high /\ limit <= high
  /\ pc = "range" /\ setup.grid = <<>> => low <= limit
  /\ pc = "scanned" => limit <= rMax

\* The p-values at the ends are on the sides of a bracket.
Sides ==
  /\ pc \in {"lower", "negative", "bisect"} => clsMax \in BelowTarget
  /\ pc = "bisect" => clsMin \in AboveTarget

\* A scan has come to a point of the grid.
Scanned1 ==
  pc = "scan" =>
    IF tries = 0 THEN rMin = setup.grid[1]
    ELSE rMin <= setup.grid[tries] /\ limit <= setup.grid[tries] /\ rMax = setup.grid[tries]

\* The grid, if there is one, reaches over the crossing.
Reaches == setup.grid # <<>> => setup.grid[1] <= c /\ c < setup.grid[Len(setup.grid)]

\* Where the crossing is, when nothing was clipped.
Bracket ==
  ~clipped /\ Reaches =>
    /\ pc \in {"lower", "negative", "bisect", "scanned"} => c < rMax
    /\ pc \in {"bisect", "scan", "scanned"} => rMin <= c
    /\ pc \in {"shrinkMin", "shrinkMax"} => c - Haze <= limit /\ limit <= c + 1 + Haze
    /\ pc = "range" => low <= c + 1 + Haze /\ c - Haze <= high

SearchInv == Phases /\ Ordered /\ Sides /\ Scanned1 /\ Bracket /\ Accurate

-----------------------------------------------------------------------------
(* P-values.                                                               *)

\* A p-value that is not clipped is on the right side of the target.
LEMMA EstimateSide ==
  ASSUME NEW x \in Int, NEW e \in Estimates(x), TypeOK
  PROVE  /\ e \in Results
         /\ x >= rlo => /\ e \in AboveTarget => x <= c
                        /\ e \in BelowTarget => c < x
                        /\ e = "near" => c - Haze <= x /\ x <= c + 1 + Haze
<1> USE ZonesAssumption, CrossingsAssumption
<1>1. c \in Int /\ rlo \in Int
  BY DEF TypeOK
<1>2. e \in Results
  BY <1>1 DEF Estimates, Results, AboveTarget, BelowTarget
<1>3. ASSUME x >= rlo PROVE At(x) = x
  BY <1>1, <1>3 DEF At, Larger
<1>4. e \in AboveTarget /\ x >= rlo => x <= c
  BY <1>1, <1>3 DEF Estimates, AboveTarget, BelowTarget
<1>5. e \in BelowTarget /\ x >= rlo => c < x
  BY <1>1, <1>3 DEF Estimates, AboveTarget, BelowTarget
<1>6. e = "near" /\ x >= rlo => c - Haze <= x /\ x <= c + 1 + Haze
  BY <1>1, <1>3 DEF Estimates, AboveTarget, BelowTarget, Off
<1>7. QED
  BY <1>2, <1>4, <1>5, <1>6

\* What an evaluation changes besides.
LEMMA EvaluatedTypes ==
  ASSUME NEW x \in Int, NEW e \in Estimates(x), TypeOK, Evaluated(x, e)
  PROVE  /\ rlo' \in Int /\ clipped' \in BOOLEAN /\ failures' \in 0..MaxFailures
         /\ ~clipped' => ~clipped /\ x >= rlo
<1> USE ZonesAssumption
<1>1. failures \in 0..MaxFailures /\ (e = "failed" => failures < MaxFailures)
  BY DEF TypeOK, Estimates, AboveTarget, BelowTarget
<1>2. failures' \in 0..MaxFailures
  BY <1>1 DEF Evaluated
<1>3. rlo' \in Int
  BY DEF Evaluated, TypeOK
<1>4. rlo \in Int /\ clipped \in BOOLEAN /\ clipped' = (clipped \/ x < rlo)
  BY DEF Evaluated, TypeOK
<1>5. clipped' \in BOOLEAN
  BY <1>4
<1>6. ASSUME ~clipped' PROVE ~clipped /\ x >= rlo
  <2>1. ~(clipped \/ x < rlo)
    BY <1>4, <1>6, Zenon
  <2>2. QED
    BY <1>4, <2>1
<1>7. QED
  BY <1>2, <1>3, <1>5, <1>6

-----------------------------------------------------------------------------

\* The types, one by one.
LEMMA Types ==
  ASSUME TypeOK
  PROVE  /\ setup \in Setups /\ setup \in SetupType /\ c \in Crossings /\ c \in Int
         /\ rlo \in Int /\ rMin \in Int /\ rMax \in Int /\ limit \in Int /\ low \in Int /\ high \in Int
         /\ limitErr \in Nat /\ clsMin \in Results /\ clsMax \in Results
         /\ tries \in Nat /\ setup.grid \in Seq(Int) /\ Len(setup.grid) \in Nat
         /\ setup.rule \in {"CLs", "Pmu"}
<1>1. setup \in Setups /\ setup \in SetupType /\ c \in Crossings /\ c \in Int
  BY SetupsAssumption, CrossingsAssumption DEF TypeOK
<1>2. setup.grid \in Seq(Int) /\ Len(setup.grid) \in Nat /\ setup.rule \in {"CLs", "Pmu"}
  BY <1>1 DEF SetupType
<1>3. tries \in Nat
  BY <1>2 DEF TypeOK, Larger
<1>4. QED
  BY <1>1, <1>2, <1>3 DEF TypeOK

\* The larger distance from the ends of an interval covers a crossing in it.
LEMMA ErrorOfEnds ==
  ASSUME NEW a \in Int, NEW b \in Int, NEW x \in Int, NEW k \in Int, NEW err \in Nat,
         a <= k, k < b, 2 * (x - a) <= err, 2 * (b - x) <= err
  PROVE  Distance(2 * x, 2 * k + 1) <= err + 1
BY DEF Distance, Larger

\* The next position lies in the interval, and no further from a crossing there
\* than its error says.
LEMMA ProposalNear ==
  ASSUME TypeOK, rMin <= rMax, NEW p \in Proposals
  PROVE  /\ p[1] \in Int /\ p[2] \in Nat /\ rMin <= p[1] /\ p[1] <= rMax
         /\ rMin <= c /\ c < rMax =>
              Distance(2 * p[1], 2 * c + 1) <= IF setup.algo = "logSecant" THEN 5 * p[2] ELSE p[2] + 1
<1>1. /\ rMin \in Int /\ rMax \in Int /\ c \in Int /\ rMax - rMin \in Nat
      /\ setup.algo \in {"bisection", "logSecant"}
  BY Types DEF SetupType
<1> DEFINE w == rMax - rMin
<1>2. CASE setup.algo = "bisection" \/ clsMax = "zero"
  <2>1. p[1] = Middle(rMin, rMax) /\ p[2] = w
    BY <1>2 DEF Proposals
  <2>2. p[1] \in Int /\ rMin <= p[1] /\ p[1] <= rMax
    BY <1>1, <2>1 DEF Middle
  <2>3. ASSUME rMin <= c, c < rMax PROVE Distance(2 * p[1], 2 * c + 1) <= w
    <3>1. 2 * p[1] <= rMin + rMax /\ rMin + rMax - 1 <= 2 * p[1]
      BY <1>1, <2>1 DEF Middle
    <3>2. QED
      BY <1>1, <2>2, <2>3, <3>1 DEF Distance, Larger
  <2>4. Distance(2 * p[1], 2 * c + 1) \in Int
    BY <1>1, <2>2 DEF Distance, Larger
  <2> HIDE DEF w
  <2>5. w \in Nat
    BY <1>1 DEF w
  <2>6. QED
    BY <2>1, <2>2, <2>3, <2>4, <2>5
<1>3. CASE ~(setup.algo = "bisection" \/ clsMax = "zero")
  <2>1. PICK x \in Between(rMin, rMax), err \in {w, (2 * w + 4) \div 5, (3 * w + 4) \div 5} : p = <<x, err>>
    BY <1>3 DEF Proposals
  <2>2. x \in Int /\ rMin <= x /\ x <= rMax
    BY <1>1 DEF Between, Middle
  <2>3. err \in Nat /\ 2 * w <= 5 * err
    BY <1>1
  <2>4. ASSUME rMin <= c, c < rMax PROVE Distance(2 * x, 2 * c + 1) <= 2 * w
    BY <1>1, <2>2, <2>4 DEF Distance, Larger
  <2>5. Distance(2 * x, 2 * c + 1) \in Int
    BY <1>1, <2>2 DEF Distance, Larger
  <2>6. p[1] = x /\ p[2] = err
    BY <2>1
  <2> HIDE DEF w
  <2>7. w \in Nat
    BY <1>1 DEF w
  <2>8. setup.algo = "logSecant"
    BY <1>1, <1>3
  <2>9. QED
    BY <2>2, <2>3, <2>4, <2>5, <2>6, <2>7, <2>8
<1>4. QED
  BY <1>2, <1>3

LEMMA InitInv == Init => SearchInv
<1> SUFFICES ASSUME Init PROVE SearchInv
  OBVIOUS
<1> USE SetupsAssumption, CrossingsAssumption, ZonesAssumption
<1>1. /\ setup \in Setups /\ c \in Crossings /\ c \in Int
      /\ setup \in SetupType /\ setup.min < setup.max /\ setup.max > 0
      /\ setup.hint # None => setup.hint > 0 /\ (3 * setup.hint) \div 10 < setup.max
      /\ setup.grid # <<>> => Len(setup.grid) > 1
      /\ \A i, j \in 1..Len(setup.grid) : i < j => setup.grid[i] < setup.grid[j]
  BY DEF Init
<1>2. /\ setup.grid \in Seq(Int) /\ setup.min \in Int /\ setup.max \in Int
      /\ setup.hint \in Int \cup {None}
  BY <1>1 DEF SetupType
<1>3. rlo \in Int /\ rMin \in Int /\ rMax \in Int
  BY <1>1, <1>2 DEF Init, Hinted, Larger, Smaller
<1>4. rMin <= rMax /\ (setup.grid = <<>> => rMax > 0)
  BY <1>1, <1>2 DEF Init, Hinted, Larger, Smaller
<1>5. limit \in Int /\ limitErr \in Nat
  BY <1>3, <1>4 DEF Init, Middle
<1>6. TypeOK
  <2>1. tries \in 0 .. Larger(6, Len(setup.grid))
    BY <1>2 DEF Init, Larger
  <2>2. {rlo, rMin, rMax, limit, low, high} \subseteq Int
    BY <1>3, <1>5 DEF Init
  <2>3. {clsMin, clsMax} \subseteq Results
    BY DEF Init, Results, AboveTarget, BelowTarget
  <2>4. failures \in 0..MaxFailures
    BY DEF Init
  <2>5. QED
    BY <1>1, <1>5, <2>1, <2>2, <2>3, <2>4 DEF Init, TypeOK
<1>7. Phases
  BY <1>1, <1>2, <1>6 DEF Init, Phases, Searching, Scanning
<1>8. Ordered /\ Sides /\ Scanned1
  BY <1>1, <1>3, <1>4 DEF Init, Ordered, Sides, Scanned1, Searching
<1>9. Bracket /\ Accurate
  BY <1>1 DEF Init, Bracket, Accurate, Reaches
<1>10. QED
  BY <1>7, <1>8, <1>9 DEF SearchInv

-----------------------------------------------------------------------------
(* The steps: types and phases, then the ends, then the bracket.           *)

LEMMA UpperInv == SearchInv /\ Upper => SearchInv'
<1> SUFFICES ASSUME SearchInv, Upper PROVE SearchInv'
  OBVIOUS
<1>1. Phases /\ TypeOK /\ Ordered /\ Sides /\ Bracket /\ pc = "upper"
  BY DEF SearchInv, Phases, Upper
<1>2. PICK e \in Estimates(rMax) :
        /\ Evaluated(rMax, e)
        /\ clsMax' = e
        /\ \/ e \in BelowTarget /\ pc' = "lower" /\ rMax' = rMax /\ tries' = 0
           \/ /\ ~(e \in BelowTarget /\ WellOff(e, rMax))
              /\ rMax' = 2 * rMax /\ tries' = tries + 1
              /\ pc' = IF tries = Tries THEN "failed" ELSE pc
  BY DEF Upper
<1>3. UNCHANGED <<setup, c, rMin, clsMin, limit, limitErr, done, low, high>>
  BY DEF Upper
<1>4. /\ c \in Int /\ rMin \in Int /\ rMax \in Int /\ tries \in Nat
      /\ Len(setup.grid) \in Nat
  BY <1>1, Types
<1>5. /\ e \in Results
      /\ rMax >= rlo => (e \in BelowTarget => c < rMax)
      /\ rlo' \in Int /\ clipped' \in BOOLEAN /\ failures' \in 0..MaxFailures
      /\ ~clipped' => ~clipped /\ rMax >= rlo
  BY <1>1, <1>2, <1>4, EstimateSide, EvaluatedTypes
<1>6. rMin <= rMax /\ rMax > 0 /\ tries <= 5 /\ setup.grid = <<>> /\ ~done
  BY <1>1 DEF Ordered, Phases, Searching
<1>7. pc' \in {"upper", "lower", "failed"} /\ rMax' \in Int /\ rMax' >= rMin /\ rMax' > 0
      /\ tries' \in 0..6 /\ (pc' = "upper" => tries' <= 5) /\ (pc' = "lower" => tries' = 0)
      /\ (pc' = "lower" => e \in BelowTarget /\ rMax' = rMax)
  BY <1>1, <1>2, <1>4, <1>6 DEF Tries
<1>8. tries' \in 0 .. Larger(6, Len(setup.grid))
  BY <1>4, <1>7 DEF Larger
<1>9. Phases'
  <2>1. TypeOK'
    BY <1>1, <1>2, <1>3, <1>5, <1>7, <1>8 DEF TypeOK
  <2>2. QED
    BY <1>1, <1>3, <1>6, <1>7, <2>1 DEF Phases, Searching, Scanning
<1>10. Ordered' /\ Sides' /\ Scanned1'
  BY <1>2, <1>3, <1>7 DEF Ordered, Sides, Scanned1, Searching
<1>11. Bracket'
  BY <1>3, <1>5, <1>7 DEF Bracket
<1>12. Accurate'
  BY <1>7 DEF Accurate
<1>13. QED
  BY <1>9, <1>10, <1>11, <1>12 DEF SearchInv

LEMMA LowerAtZeroInv == SearchInv /\ LowerAtZero => SearchInv'
<1> SUFFICES ASSUME SearchInv, LowerAtZero PROVE SearchInv'
  OBVIOUS
<1>1. Phases /\ TypeOK /\ Ordered /\ Sides /\ Bracket
  BY DEF SearchInv, Phases
<1>2. /\ pc = "lower" /\ setup.rule = "CLs" /\ rMin = 0 /\ pc' = "bisect" /\ clsMin' = "one"
      /\ UNCHANGED <<setup, c, rlo, rMin, rMax, clsMax, limit, limitErr, done, low, high, tries,
                     failures, clipped>>
  BY DEF LowerAtZero
<1>3. Phases'
  <2>1. TypeOK'
    BY <1>1, <1>2 DEF TypeOK, Results, AboveTarget
  <2>2. QED
    BY <1>1, <1>2, <2>1 DEF Phases, Searching, Scanning
<1>4. Ordered' /\ Sides' /\ Scanned1' /\ Accurate'
  BY <1>1, <1>2 DEF Ordered, Sides, Scanned1, Accurate, Searching, AboveTarget
<1>5. Bracket'
  BY <1>1, <1>2 DEF Bracket, Reaches, Phases
<1>6. QED
  BY <1>3, <1>4, <1>5 DEF SearchInv

LEMMA LowerInv == SearchInv /\ Lower => SearchInv'
<1> SUFFICES ASSUME SearchInv, Lower PROVE SearchInv'
  OBVIOUS
<1>1. Phases /\ TypeOK /\ Ordered /\ Sides /\ Bracket /\ pc = "lower"
  BY DEF SearchInv, Phases, Lower
<1>2. PICK e \in Estimates(rMin) :
        /\ Evaluated(rMin, e)
        /\ \/ e \in AboveTarget /\ pc' = "bisect" /\ clsMin' = e /\ rMin' = rMin
           \/ /\ setup.rule = "CLs" /\ pc' = "bisect" /\ clsMin' = "one" /\ rMin' = 0
           \/ /\ setup.rule = "Pmu" /\ pc' = "negative" /\ clsMin' = e /\ rMin' = -(rMax \div 4)
  BY DEF Lower
<1>3. UNCHANGED <<setup, c, rMax, clsMax, limit, limitErr, done, low, high, tries>>
  BY DEF Lower
<1>4. c \in Int /\ rMin \in Int /\ rMax \in Int
  BY <1>1, Types
<1>5. /\ e \in Results
      /\ rMin >= rlo => (e \in AboveTarget => rMin <= c)
      /\ rlo' \in Int /\ clipped' \in BOOLEAN /\ failures' \in 0..MaxFailures
      /\ ~clipped' => ~clipped /\ rMin >= rlo
  BY <1>1, <1>2, <1>4, EstimateSide, EvaluatedTypes
<1>6. /\ rMin <= rMax /\ rMax > 0 /\ tries = 0 /\ setup.grid = <<>> /\ ~done
      /\ clsMax \in BelowTarget /\ (setup.rule = "CLs" => c >= 0)
  BY <1>1 DEF Ordered, Sides, Phases, Searching
<1>7. rMin' \in Int /\ rMin' <= rMax /\ (pc' = "negative" => rMin' <= 0)
      /\ pc' \in {"bisect", "negative"} /\ clsMin' \in Results
      /\ (pc' = "bisect" => clsMin' \in AboveTarget)
  BY <1>2, <1>4, <1>5, <1>6 DEF Results, AboveTarget
<1>8. Phases'
  <2>1. TypeOK'
    BY <1>1, <1>3, <1>5, <1>7 DEF TypeOK
  <2>2. QED
    BY <1>1, <1>3, <1>6, <1>7, <2>1 DEF Phases, Searching, Scanning
<1>9. Ordered' /\ Sides' /\ Scanned1' /\ Accurate'
  BY <1>3, <1>6, <1>7 DEF Ordered, Sides, Scanned1, Accurate, Searching
<1>10. Bracket'
  <2>1. ASSUME ~clipped', pc' = "bisect" PROVE rMin' <= c
    BY <1>2, <1>4, <1>5, <1>6, <2>1
  <2>2. ~clipped' /\ Reaches => c < rMax
    BY <1>1, <1>5 DEF Bracket
  <2>3. QED
    BY <1>3, <1>7, <2>1, <2>2 DEF Bracket, Reaches
<1>11. QED
  BY <1>8, <1>9, <1>10 DEF SearchInv

LEMMA LowerNegativeInv == SearchInv /\ LowerNegative => SearchInv'
<1> SUFFICES ASSUME SearchInv, LowerNegative PROVE SearchInv'
  OBVIOUS
<1>1. Phases /\ TypeOK /\ Ordered /\ Sides /\ Bracket /\ pc = "negative"
  BY DEF SearchInv, Phases, LowerNegative
<1>2. PICK e \in Estimates(rMin) :
        /\ Evaluated(rMin, e)
        /\ clsMin' = e
        /\ \/ e \in AboveTarget /\ pc' = "bisect" /\ rMin' = rMin /\ tries' = 0
           \/ /\ rMin' = 2 * rMin /\ tries' = tries + 1
              /\ pc' = IF tries = Tries THEN "failed" ELSE pc
  BY DEF LowerNegative
<1>3. UNCHANGED <<setup, c, rMax, clsMax, limit, limitErr, done, low, high>>
  BY DEF LowerNegative
<1>4. c \in Int /\ rMin \in Int /\ rMax \in Int /\ tries \in Nat /\ Len(setup.grid) \in Nat
  BY <1>1, Types
<1>5. /\ e \in Results
      /\ rMin >= rlo => (e \in AboveTarget => rMin <= c)
      /\ rlo' \in Int /\ clipped' \in BOOLEAN /\ failures' \in 0..MaxFailures
      /\ ~clipped' => ~clipped /\ rMin >= rlo
  BY <1>1, <1>2, <1>4, EstimateSide, EvaluatedTypes
<1>6. /\ rMin <= rMax /\ rMin <= 0 /\ rMax > 0 /\ tries <= 5 /\ setup.grid = <<>> /\ ~done
      /\ clsMax \in BelowTarget
  BY <1>1 DEF Ordered, Sides, Phases, Searching
<1>7. rMin' \in Int /\ rMin' <= rMax /\ rMin' <= 0
      /\ pc' \in {"bisect", "negative", "failed"}
      /\ (pc' = "bisect" => clsMin' \in AboveTarget /\ rMin' = rMin)
      /\ tries' \in 0..6 /\ (pc' = "negative" => tries' <= 5)
  BY <1>1, <1>2, <1>4, <1>6 DEF Tries
<1>8. tries' \in 0 .. Larger(6, Len(setup.grid))
  BY <1>4, <1>7 DEF Larger
<1>9. Phases'
  <2>1. TypeOK'
    BY <1>1, <1>2, <1>3, <1>5, <1>7, <1>8 DEF TypeOK
  <2>2. QED
    BY <1>1, <1>3, <1>6, <1>7, <2>1 DEF Phases, Searching, Scanning
<1>10. Ordered' /\ Sides' /\ Scanned1' /\ Accurate'
  BY <1>3, <1>6, <1>7 DEF Ordered, Sides, Scanned1, Accurate, Searching
<1>11. Bracket'
  <2>1. ~clipped' /\ pc' = "bisect" => rMin' <= c
    BY <1>2, <1>5, <1>7
  <2>2. ~clipped' /\ Reaches => c < rMax
    BY <1>1, <1>5 DEF Bracket
  <2>3. QED
    BY <1>3, <1>7, <2>1, <2>2 DEF Bracket, Reaches
<1>12. QED
  BY <1>9, <1>10, <1>11 DEF SearchInv

LEMMA BisectInv == SearchInv /\ Bisect => SearchInv'
<1> SUFFICES ASSUME SearchInv, Bisect PROVE SearchInv'
  OBVIOUS
<1>1. Phases /\ TypeOK /\ Ordered /\ Sides /\ Bracket /\ pc = "bisect"
  BY DEF SearchInv, Phases, Bisect
<1>2. PICK p \in Proposals :
        /\ limit' = p[1] /\ limitErr' = p[2]
        /\ \/ /\ Accuracy(p[1], p[2])
              /\ done' = TRUE /\ pc' = "done"
              /\ UNCHANGED <<rlo, failures, clipped, ends, low, high>>
           \/ /\ ~Accuracy(p[1], p[2])
              /\ done' = done
              /\ \E e \in Estimates(p[1]) : Evaluated(p[1], e) /\
                   \/ e = "failed" /\ pc' = "failed" /\ UNCHANGED <<ends, low, high>>
                   \/ /\ e = "near" /\ pc' = "shrinkMin"
                      /\ low' = rMin /\ high' = rMax /\ UNCHANGED ends
                   \/ /\ e \notin {"failed", "near"} /\ pc' = pc
                      /\ Drop(p[1], e)
                      /\ UNCHANGED <<low, high>>
  BY DEF Bisect
<1>3. UNCHANGED <<setup, c, tries>>
  BY DEF Bisect
<1>4. /\ c \in Int /\ rMin \in Int /\ rMax \in Int /\ limit \in Int /\ low \in Int /\ high \in Int
      /\ clsMin \in Results /\ clsMax \in Results /\ rlo \in Int
  BY <1>1, Types
<1>5. /\ rMin <= rMax /\ setup.grid = <<>> /\ ~done
      /\ clsMax \in BelowTarget /\ clsMin \in AboveTarget
  BY <1>1 DEF Ordered, Sides, Phases, Searching
<1>6. /\ p[1] \in Int /\ p[2] \in Nat /\ rMin <= p[1] /\ p[1] <= rMax
      /\ rMin <= c /\ c < rMax =>
           Distance(2 * p[1], 2 * c + 1) <= IF setup.algo = "logSecant" THEN 5 * p[2] ELSE p[2] + 1
  BY <1>1, <1>5, ProposalNear
<1>7. ~clipped => rMin <= c /\ c < rMax
  BY <1>1, <1>5 DEF Bracket, Reaches
<1>8. CASE Accuracy(p[1], p[2]) /\ done' = TRUE /\ pc' = "done"
           /\ UNCHANGED <<rlo, failures, clipped, ends, low, high>>
  <2>1. TypeOK'
    BY <1>1, <1>2, <1>3, <1>6, <1>8 DEF TypeOK, ends
  <2>2. Phases'
    BY <1>1, <1>3, <1>8, <2>1 DEF Phases, Searching, Scanning
  <2>3. Ordered' /\ Sides' /\ Scanned1' /\ Bracket'
    BY <1>8 DEF Ordered, Sides, Scanned1, Bracket, Searching
  <2>4. Accurate'
    BY <1>2, <1>3, <1>5, <1>6, <1>7, <1>8 DEF Accurate, HalfSteps
  <2>5. QED
    BY <2>2, <2>3, <2>4 DEF SearchInv
<1>9. CASE done' = done /\ \E e \in Estimates(p[1]) : Evaluated(p[1], e) /\
             \/ e = "failed" /\ pc' = "failed" /\ UNCHANGED <<ends, low, high>>
             \/ /\ e = "near" /\ pc' = "shrinkMin"
                /\ low' = rMin /\ high' = rMax /\ UNCHANGED ends
             \/ /\ e \notin {"failed", "near"} /\ pc' = pc
                /\ Drop(p[1], e)
                /\ UNCHANGED <<low, high>>
  <2>1. PICK e \in Estimates(p[1]) : Evaluated(p[1], e) /\
             \/ e = "failed" /\ pc' = "failed" /\ UNCHANGED <<ends, low, high>>
             \/ /\ e = "near" /\ pc' = "shrinkMin"
                /\ low' = rMin /\ high' = rMax /\ UNCHANGED ends
             \/ /\ e \notin {"failed", "near"} /\ pc' = pc
                /\ Drop(p[1], e)
                /\ UNCHANGED <<low, high>>
    BY <1>9
  <2>2. /\ e \in Results
        /\ p[1] >= rlo => /\ e \in AboveTarget => p[1] <= c
                          /\ e \in BelowTarget => c < p[1]
                          /\ e = "near" => c - Haze <= p[1] /\ p[1] <= c + 1 + Haze
        /\ rlo' \in Int /\ clipped' \in BOOLEAN /\ failures' \in 0..MaxFailures
        /\ ~clipped' => ~clipped /\ p[1] >= rlo
    BY <1>1, <1>6, <2>1, EstimateSide, EvaluatedTypes
  <2>3. CASE e = "failed" /\ pc' = "failed" /\ UNCHANGED <<ends, low, high>>
    <3>1. TypeOK'
      BY <1>1, <1>2, <1>3, <1>6, <1>9, <2>2, <2>3 DEF TypeOK, ends
    <3>2. Phases'
      BY <1>1, <1>3, <1>5, <1>9, <2>3, <3>1 DEF Phases, Searching, Scanning
    <3>3. Ordered' /\ Sides' /\ Scanned1' /\ Bracket' /\ Accurate'
      BY <2>3 DEF Ordered, Sides, Scanned1, Bracket, Accurate, Searching
    <3>4. QED
      BY <3>2, <3>3 DEF SearchInv
  <2>4. CASE e = "near" /\ pc' = "shrinkMin" /\ low' = rMin /\ high' = rMax /\ UNCHANGED ends
    <3>1. TypeOK'
      BY <1>1, <1>2, <1>3, <1>4, <1>6, <1>9, <2>2, <2>4 DEF TypeOK, ends
    <3>2. Phases'
      BY <1>1, <1>3, <1>5, <1>9, <2>4, <3>1 DEF Phases, Searching, Scanning
    <3>3. Ordered' /\ Sides' /\ Scanned1' /\ Accurate'
      BY <1>2, <1>4, <1>5, <1>6, <2>4 DEF Ordered, Sides, Scanned1, Accurate, Searching, ends
    <3>4. Bracket'
      BY <1>2, <1>3, <2>2, <2>4 DEF Bracket
    <3>5. QED
      BY <3>2, <3>3, <3>4 DEF SearchInv
  <2>5. CASE e \notin {"failed", "near"} /\ pc' = pc /\ Drop(p[1], e) /\ UNCHANGED <<low, high>>
    <3>1. \/ /\ e \in BelowTarget /\ rMax' = p[1] /\ clsMax' = e /\ UNCHANGED <<rMin, clsMin>>
          \/ /\ e \in AboveTarget /\ rMin' = p[1] /\ clsMin' = e /\ UNCHANGED <<rMax, clsMax>>
      BY <1>5, <2>2, <2>5 DEF Drop, Results, AboveTarget, BelowTarget
    <3>2. /\ rMin' \in Int /\ rMax' \in Int /\ rMin' <= rMax'
          /\ clsMax' \in BelowTarget /\ clsMin' \in AboveTarget
      BY <1>4, <1>5, <1>6, <3>1
    <3>3. TypeOK'
      <4>1. clsMin' \in Results /\ clsMax' \in Results
        BY <3>2 DEF Results
      <4>2. QED
        BY <1>1, <1>2, <1>3, <1>4, <1>6, <1>9, <2>2, <2>5, <3>2, <4>1 DEF TypeOK
    <3>4. Phases'
      BY <1>1, <1>3, <1>5, <1>9, <2>5, <3>3 DEF Phases, Searching, Scanning
    <3>5. Ordered' /\ Sides' /\ Scanned1' /\ Accurate'
      BY <1>1, <2>5, <3>2 DEF Ordered, Sides, Scanned1, Accurate, Searching
    <3>6. Bracket'
      <4>1. ASSUME ~clipped' PROVE rMin' <= c /\ c < rMax'
        BY <1>7, <2>2, <3>1, <4>1
      <4>2. QED
        BY <1>1, <1>3, <2>5, <4>1 DEF Bracket
    <3>7. QED
      BY <3>4, <3>5, <3>6 DEF SearchInv
  <2>6. QED
    BY <2>1, <2>3, <2>4, <2>5
<1>10. QED
  BY <1>2, <1>8, <1>9

LEMMA ShrinkMinInv == SearchInv /\ ShrinkMin => SearchInv'
<1> SUFFICES ASSUME SearchInv, ShrinkMin PROVE SearchInv'
  OBVIOUS
<1>1. Phases /\ TypeOK /\ Ordered /\ Bracket /\ pc = "shrinkMin"
  BY DEF SearchInv, Phases, ShrinkMin
<1>2. rMin' = (rMin + limit + 1) \div 2
  BY DEF ShrinkMin
<1>3. UNCHANGED <<setup, c, rMax, clsMax, limit, limitErr, done, high, tries>>
  BY DEF ShrinkMin
<1>4. /\ rMin \in Int /\ limit \in Int /\ low \in Int /\ rMin <= limit /\ limit <= rMax
      /\ low <= limit /\ limit <= high /\ setup.grid = <<>> /\ ~done
  BY <1>1, Types DEF Ordered, Phases, Searching
<1>5. rMin' \in Int /\ rMin' <= limit
  BY <1>2, <1>4
<1>6. PICK e \in Estimates(rMin') :
        /\ Evaluated(rMin', e)
        /\ clsMin' = e
        /\ IF e = "near" THEN pc' = "shrinkMax" /\ low' = low ELSE pc' = pc /\ low' = rMin'
  BY DEF ShrinkMin
<1>7. /\ e \in Results
      /\ rlo' \in Int /\ clipped' \in BOOLEAN /\ failures' \in 0..MaxFailures
      /\ ~clipped' => ~clipped
  BY <1>1, <1>5, <1>6, EstimateSide, EvaluatedTypes
<1>8. pc' \in {"shrinkMin", "shrinkMax"} /\ low' \in Int /\ low' <= limit
  BY <1>1, <1>4, <1>5, <1>6
<1>9. Phases'
  <2>1. TypeOK'
    BY <1>1, <1>3, <1>5, <1>6, <1>7, <1>8 DEF TypeOK
  <2>2. QED
    BY <1>1, <1>3, <1>4, <1>8, <2>1 DEF Phases, Searching, Scanning
<1>10. Ordered' /\ Sides' /\ Scanned1' /\ Accurate'
  <2>1. rMax \in Int
    BY <1>1, Types
  <2>2. QED
    BY <1>3, <1>4, <1>5, <1>8, <2>1 DEF Ordered, Sides, Scanned1, Accurate, Searching
<1>11. Bracket'
  BY <1>1, <1>3, <1>7, <1>8 DEF Bracket, Reaches
<1>12. QED
  BY <1>9, <1>10, <1>11 DEF SearchInv

LEMMA ShrinkMaxInv == SearchInv /\ ShrinkMax => SearchInv'
<1> SUFFICES ASSUME SearchInv, ShrinkMax PROVE SearchInv'
  OBVIOUS
<1>1. Phases /\ TypeOK /\ Ordered /\ Bracket /\ pc = "shrinkMax"
  BY DEF SearchInv, Phases, ShrinkMax
<1>2. rMax' = (rMax + limit) \div 2
  BY DEF ShrinkMax
<1>3. UNCHANGED <<setup, c, rMin, clsMin, limit, limitErr, done, low, tries>>
  BY DEF ShrinkMax
<1>4. /\ rMin \in Int /\ rMax \in Int /\ limit \in Int /\ low \in Int /\ high \in Int
      /\ rMin <= limit /\ limit <= rMax
      /\ low <= limit /\ limit <= high /\ setup.grid = <<>> /\ ~done /\ c \in Int
  BY <1>1, Types DEF Ordered, Phases, Searching
<1>5. rMax' \in Int /\ limit <= rMax'
  BY <1>2, <1>4
<1>6. PICK e \in Estimates(rMax') :
        /\ Evaluated(rMax', e)
        /\ clsMax' = e
        /\ IF e = "near" THEN pc' = "range" /\ high' = high ELSE pc' = pc /\ high' = rMax'
  BY DEF ShrinkMax
<1>7. /\ e \in Results
      /\ rlo' \in Int /\ clipped' \in BOOLEAN /\ failures' \in 0..MaxFailures
      /\ ~clipped' => ~clipped
  BY <1>1, <1>5, <1>6, EstimateSide, EvaluatedTypes
<1>8. pc' \in {"shrinkMax", "range"} /\ high' \in Int /\ limit <= high'
  BY <1>1, <1>4, <1>5, <1>6
<1>9. Phases'
  <2>1. TypeOK'
    BY <1>1, <1>3, <1>5, <1>6, <1>7, <1>8 DEF TypeOK
  <2>2. QED
    BY <1>1, <1>3, <1>4, <1>8, <2>1 DEF Phases, Searching, Scanning
<1>10. Ordered' /\ Sides' /\ Scanned1' /\ Accurate'
  BY <1>3, <1>4, <1>5, <1>8 DEF Ordered, Sides, Scanned1, Accurate, Searching
<1>11. Bracket'
  <2>1. ASSUME ~clipped' PROVE c - Haze <= limit /\ limit <= c + 1 + Haze
    BY <1>1, <1>4, <1>7, <2>1 DEF Bracket, Reaches
  <2>2. ASSUME ~clipped' PROVE low <= c + 1 + Haze /\ c - Haze <= high'
    BY <1>4, <1>8, <2>1, <2>2, ZonesAssumption
  <2>3. QED
    BY <1>3, <1>8, <2>1, <2>2 DEF Bracket
<1>12. QED
  BY <1>9, <1>10, <1>11 DEF SearchInv

\* An end that is close enough is left where it is.
LEMMA ShrunkInv == SearchInv /\ (ShrunkMin \/ ShrunkMax) => SearchInv'
<1> SUFFICES ASSUME SearchInv, ShrunkMin \/ ShrunkMax PROVE SearchInv'
  OBVIOUS
<1>1. Phases /\ TypeOK /\ Ordered /\ Bracket
  BY DEF SearchInv, Phases
<1>2. /\ \/ pc = "shrinkMin" /\ pc' = "shrinkMax"
         \/ pc = "shrinkMax" /\ pc' = "range"
      /\ UNCHANGED <<setup, c, rlo, rMin, rMax, clsMin, clsMax, limit, limitErr, done, low, high,
                     tries, failures, clipped>>
  BY DEF ShrunkMin, ShrunkMax, ends
<1>3. /\ low \in Int /\ high \in Int /\ limit \in Int /\ c \in Int
      /\ low <= limit /\ limit <= high /\ rMin <= limit /\ limit <= rMax
      /\ setup.grid = <<>> /\ ~done
  BY <1>1, <1>2, Types DEF Ordered, Phases, Searching
<1>4. TypeOK'
  BY <1>1, <1>2 DEF TypeOK
<1>5. Phases'
  BY <1>1, <1>2, <1>3, <1>4 DEF Phases, Searching, Scanning
<1>6. Ordered' /\ Sides' /\ Scanned1' /\ Accurate'
  BY <1>1, <1>2, <1>3 DEF Ordered, Sides, Scanned1, Accurate, Searching
<1>7. Bracket'
  <2>1. ASSUME ~clipped PROVE c - Haze <= limit /\ limit <= c + 1 + Haze
    BY <1>1, <1>2, <1>3, <2>1 DEF Bracket, Reaches
  <2>2. ASSUME ~clipped PROVE low <= c + 1 + Haze /\ c - Haze <= high
    BY <1>3, <2>1, <2>2, ZonesAssumption
  <2>3. QED
    BY <1>2, <2>1, <2>2 DEF Bracket
<1>8. QED
  BY <1>5, <1>6, <1>7 DEF SearchInv

LEMMA ScanInv == SearchInv /\ Scan => SearchInv'
<1> SUFFICES ASSUME SearchInv, Scan PROVE SearchInv'
  OBVIOUS
<1>1. Phases /\ TypeOK /\ Ordered /\ Scanned1 /\ Bracket /\ pc = "scan"
  BY DEF SearchInv, Phases, Scan
<1>2. /\ c \in Int /\ rMin \in Int /\ rMax \in Int /\ limit \in Int /\ tries \in Nat
      /\ setup \in Setups /\ setup.grid \in Seq(Int) /\ Len(setup.grid) \in Nat
      /\ clsMin \in Results /\ clsMax \in Results
      /\ setup.grid # <<>> /\ ~done /\ tries < Len(setup.grid) /\ (setup.rule = "CLs" => c >= 0)
  BY <1>1, Types DEF Phases, Scanning
<1>3. \A i, j \in 1..Len(setup.grid) : i < j => setup.grid[i] < setup.grid[j]
  BY <1>2, SetupsAssumption
<1> DEFINE x == setup.grid[tries + 1]
<1>4. x \in Int
  BY <1>2
<1>5. PICK e \in GridResults(x) :
        /\ rMin' = IF e \in AboveTarget THEN x ELSE rMin
        /\ clsMin' = IF e \in AboveTarget THEN e ELSE clsMin
        /\ rMax' = x /\ clsMax' = e
        /\ limit' \in IF tries = 0 THEN {x} ELSE {limit, x}
        /\ tries' = tries + 1
        /\ pc' = IF (e \in BelowTarget /\ ~setup.fullGrid) \/ tries' = Len(setup.grid)
                 THEN "scanned" ELSE pc
  BY DEF Scan
<1>6. UNCHANGED <<setup, c, rlo, limitErr, done, low, high, failures, clipped>>
  BY DEF Scan
<1>7. /\ e \in Results
      /\ e \in AboveTarget => x <= c
      /\ e \in BelowTarget => c < x
  BY <1>2, <1>4 DEF GridResults, Results, AboveTarget, BelowTarget
<1>8. /\ tries = 0 => rMin = x
      /\ tries # 0 => rMin <= x /\ limit <= x
  <2>1. CASE tries = 0
    BY <1>1, <2>1 DEF Scanned1
  <2>2. CASE tries # 0
    <3>1. setup.grid[tries] < x /\ setup.grid[tries] \in Int
      BY <1>2, <1>3, <2>2
    <3>2. rMin <= setup.grid[tries] /\ limit <= setup.grid[tries]
      BY <1>1, <2>2 DEF Scanned1
    <3>3. QED
      BY <1>2, <1>4, <2>2, <3>1, <3>2
  <2>3. QED
    BY <2>1, <2>2
<1>9. tries' \in 1..Len(setup.grid) /\ setup.grid[tries'] = x
  BY <1>2, <1>5
<1>10. /\ pc' \in {"scan", "scanned"}
       /\ pc' = "scan" => tries' < Len(setup.grid)
       /\ pc' = "scanned" => e \in BelowTarget \/ tries' = Len(setup.grid)
  BY <1>1, <1>2, <1>5, <1>9
<1> HIDE DEF x
<1>11. rMin' \in Int /\ limit' \in Int /\ rMin' <= x /\ limit' <= x
  BY <1>2, <1>4, <1>5, <1>8
<1>12. Phases'
  <2>1. tries' \in 0 .. Larger(6, Len(setup.grid))
    BY <1>2, <1>9 DEF Larger
  <2>2. clsMin' \in Results /\ clsMax' \in Results
    BY <1>2, <1>5, <1>7
  <2>3. TypeOK'
    BY <1>1, <1>4, <1>5, <1>6, <1>10, <1>11, <2>1, <2>2 DEF TypeOK
  <2>4. QED
    BY <1>1, <1>2, <1>6, <1>10, <2>3 DEF Phases, Searching, Scanning
<1>13. Ordered' /\ Sides' /\ Scanned1' /\ Accurate'
  <2>1. tries' # 0
    BY <1>9
  <2>2. Scanned1'
    BY <1>5, <1>6, <1>9, <1>11, <2>1 DEF Scanned1
  <2>3. QED
    BY <1>5, <1>10, <1>11, <2>2 DEF Ordered, Sides, Accurate, Searching
<1>14. Bracket'
  <2>1. ASSUME ~clipped, Reaches PROVE rMin' <= c
    BY <1>1, <1>5, <1>7, <2>1 DEF Bracket
  <2>2. ASSUME Reaches, pc' = "scanned" PROVE c < x
    BY <1>2, <1>7, <1>9, <1>10, <2>2 DEF Reaches
  <2>3. QED
    BY <1>5, <1>6, <1>10, <2>1, <2>2 DEF Bracket, Reaches
<1>15. QED
  BY <1>12, <1>13, <1>14 DEF SearchInv

LEMMA ScannedInv == SearchInv /\ Scanned => SearchInv'
<1> SUFFICES ASSUME SearchInv, Scanned PROVE SearchInv'
  OBVIOUS
<1>1. Phases /\ TypeOK /\ Ordered /\ Bracket
  BY DEF SearchInv, Phases
<1>2. /\ pc = "scanned"
      /\ limitErr' = 2 * Larger(limit - rMin, rMax - limit)
      /\ low' = rMin /\ high' = rMax
      /\ done' = Accuracy(limit, limitErr')
      /\ pc' = IF done' THEN "done" ELSE "range"
      /\ UNCHANGED <<setup, c, rlo, rMin, rMax, clsMin, clsMax, limit, tries, failures, clipped>>
  BY DEF Scanned, ends
<1>3. /\ c \in Int /\ rMin \in Int /\ rMax \in Int /\ limit \in Int
      /\ rMin <= rMax /\ limit <= rMax /\ setup.grid # <<>>
  BY <1>1, <1>2, Types DEF Ordered, Phases, Scanning, Searching
<1>4. limitErr' \in Nat /\ 2 * (limit - rMin) <= limitErr' /\ 2 * (rMax - limit) <= limitErr'
  BY <1>2, <1>3 DEF Larger
<1>5. done' \in BOOLEAN /\ pc' \in {"done", "range"} /\ (done' => pc' = "done")
      /\ (pc' = "done" => done' /\ Accuracy(limit, limitErr'))
  BY <1>2 DEF Accuracy
<1>6. Phases'
  <2>1. TypeOK'
    BY <1>1, <1>2, <1>3, <1>4, <1>5 DEF TypeOK
  <2>2. QED
    BY <1>1, <1>2, <1>5, <2>1 DEF Phases, Searching, Scanning
<1>7. Ordered' /\ Sides' /\ Scanned1'
  BY <1>2, <1>3, <1>5 DEF Ordered, Sides, Scanned1, Searching
<1>8. ~clipped /\ Reaches => rMin <= c /\ c < rMax
  BY <1>1, <1>2 DEF Bracket
<1>9. Bracket'
  BY <1>2, <1>3, <1>5, <1>8, ZonesAssumption DEF Bracket, Reaches
<1>10. Accurate'
  <2>1. ASSUME rMin <= c, c < rMax
        PROVE  Distance(2 * limit, 2 * c + 1) <= limitErr' + 1
    BY <1>3, <1>4, <2>1, ErrorOfEnds
  <2>2. UNCHANGED <<setup, c, limit, clipped>>
    BY <1>2
  <2>3. ASSUME pc' = "done", ~clipped', Reaches'
        PROVE  done' /\ Accuracy(limit', limitErr') /\ HalfSteps(limit)' <= limitErr' + 1
    <3>1. rMin <= c /\ c < rMax
      BY <1>8, <2>2, <2>3 DEF Reaches
    <3>2. QED
      BY <1>5, <2>1, <2>2, <2>3, <3>1 DEF HalfSteps
  <2>4. setup'.grid # <<>>
    BY <1>3, <2>2
  <2>5. QED
    BY <2>3, <2>4 DEF Accurate, Reaches
<1>11. QED
  BY <1>6, <1>7, <1>9, <1>10 DEF SearchInv

LEMMA FitInv == SearchInv /\ Fit => SearchInv'
<1> SUFFICES ASSUME SearchInv, Fit PROVE SearchInv'
  OBVIOUS
<1>1. Phases /\ TypeOK /\ Ordered /\ Bracket
  BY DEF SearchInv, Phases
<1>2. /\ pc = "range" /\ pc' = "done"
      /\ UNCHANGED <<setup, c, rlo, rMin, rMax, clsMin, clsMax, done, low, high, tries, failures, clipped>>
  BY DEF Fit, ends
<1>3. PICK p \in {<<limit, 2 * Larger(Distance(low, limit), Distance(high, limit))>>} \cup Fitted :
        limit' = p[1] /\ limitErr' = p[2]
  BY DEF Fit
<1>4. /\ low \in Int /\ high \in Int /\ limit \in Int
      /\ low <= high /\ limit <= high /\ (setup.grid = <<>> => low <= limit) /\ ~done
  BY <1>1, <1>2, Types DEF Ordered, Phases
<1>5. limit' \in Int /\ limitErr' \in Nat /\ limit' <= high /\ (setup.grid = <<>> => low <= limit')
  <2>1. CASE p = <<limit, 2 * Larger(Distance(low, limit), Distance(high, limit))>>
    BY <1>3, <1>4, <2>1 DEF Distance, Larger
  <2>2. CASE p \in Fitted
    <3>1. p[1] \in {x \in {low + 1, high - 1} : low < x /\ x < high} /\ p[2] \in {1, high - low - 1}
      BY <2>2 DEF Fitted
    <3>2. p[1] \in Int /\ low < p[1] /\ p[1] < high
      BY <1>4, <3>1
    <3>3. p[2] \in Nat
      BY <1>4, <3>1, <3>2
    <3>4. QED
      BY <1>3, <1>4, <3>2, <3>3
  <2>3. QED
    BY <1>3, <2>1, <2>2
<1>6. Phases'
  <2>1. TypeOK'
    BY <1>1, <1>2, <1>5 DEF TypeOK
  <2>2. QED
    BY <1>1, <1>2, <2>1 DEF Phases, Searching, Scanning
<1>7. Ordered' /\ Sides' /\ Scanned1' /\ Bracket'
  BY <1>2 DEF Ordered, Sides, Scanned1, Bracket, Searching
<1>8. Accurate'
  BY <1>1, <1>2, <1>4, <1>5 DEF Accurate, Bracket, Reaches
<1>9. QED
  BY <1>6, <1>7, <1>8 DEF SearchInv

-----------------------------------------------------------------------------

LEMMA NextInv == SearchInv /\ [Next]_vars => SearchInv'
<1> SUFFICES ASSUME SearchInv, [Next]_vars PROVE SearchInv'
  OBVIOUS
<1>1. CASE Upper
  BY <1>1, UpperInv
<1>2. CASE LowerAtZero \/ Lower \/ LowerNegative
  BY <1>2, LowerAtZeroInv, LowerInv, LowerNegativeInv
<1>3. CASE Bisect
  BY <1>3, BisectInv
<1>4. CASE ShrinkMin \/ ShrinkMax \/ ShrunkMin \/ ShrunkMax
  BY <1>4, ShrinkMinInv, ShrinkMaxInv, ShrunkInv
<1>5. CASE Scan \/ Scanned \/ Fit
  BY <1>5, ScanInv, ScannedInv, FitInv
<1>6. CASE UNCHANGED vars
  BY <1>6 DEF vars, ends, SearchInv, Phases, TypeOK, Ordered, Sides, Scanned1, Bracket, Accurate,
              Searching, Scanning, Reaches, HalfSteps
<1>7. QED
  BY <1>1, <1>2, <1>3, <1>4, <1>5, <1>6 DEF Next

\* The bracket, and all it rests on, holds throughout a search.
THEOREM SearchInvariant == Spec => []SearchInv
<1>1. QED
  BY InitInv, NextInv, PTL DEF Spec

\* Every number of HybridNew::runLimit stays in its type: attempts are bounded, and
\* errors are never negative.
THEOREM LimitTypes == Spec => []TypeOK
<1>1. SearchInv => TypeOK
  BY DEF SearchInv, Phases
<1>2. QED
  BY <1>1, SearchInvariant, PTL

\* A limit whose search stopped because its error is small enough is that close
\* to the crossing, and one that a fit found is in a range that reaches the
\* crossing, whatever p-values failed or could not be told from the target.
THEOREM LimitAccurate == Spec => []Accurate
<1>1. SearchInv => Accurate
  BY DEF SearchInv
<1>2. QED
  BY <1>1, SearchInvariant, PTL
=============================================================================
