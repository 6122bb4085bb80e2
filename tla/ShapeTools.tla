------------------------------ MODULE ShapeTools ------------------------------
(***************************************************************************)
(* The tools that change the histograms of one analysis bin: VariableRebin *)
(* and ZeroBins of CombineHarvester, AutoRebin, which looks for a binning  *)
(* and applies it, and BinByBinFactory, which merges the errors of         *)
(* processes and makes a nuisance of what is left.                         *)
(*                                                                         *)
(* A binning is a set of edges, a bin is named by its lower edge, and a    *)
(* histogram is a function of its bins.  The code keeps a template as a    *)
(* rate and a shape of unit integral; here the shape keeps the scale it    *)
(* was set with and every use of it divides by its integral.  Squared      *)
(* errors are fractions <<n, d>>.                                          *)
(***************************************************************************)
EXTENDS Integers, FiniteSets, FiniteSetsExt, Folds, Functions

CONSTANTS
  LastEdge,     \* edges before any rebinning: 0..LastEdge
  Procs,        \* the processes, each with one shape systematic
  Backgrounds,  \* those that count for the binning
  Starts,       \* templates of the processes: [v, e2, u, d], contents,
                \* squared errors, up and down
  Searches,     \* [mode, content, fraction]: settings of AutoRebin
  Factories,    \* [add, merge, zero, saturated, fixNorm]: of BinByBinFactory
  MaxCalls      \* bound on calls

Edges == 0..LastEdge
Bins(C) == C \ {Max(C)}
End(C, b) == Min({e \in C : e > b})

Fractions == Int \X (Nat \ {0})
Squares == Nat \X (Nat \ {0})

ASSUME BinsAssumption == LastEdge \in Nat \ {0} /\ IsFiniteSet(Procs) /\ Backgrounds \subseteq Procs
ASSUME StartsAssumption ==
  \A start \in Starts : \A p \in Procs :
    /\ {start[p].v, start[p].u, start[p].d} \subseteq [Bins(Edges) -> Int]
    /\ start[p].e2 \in [Bins(Edges) -> Squares]
\* A threshold for merging is a part of the total error.
ASSUME SettingsAssumption ==
  /\ \A s \in Searches : s.mode \in 0..2 /\ s.content \in Nat /\ s.fraction \in Squares
  /\ \A f \in Factories : /\ f.add \in Squares /\ f.merge \in Squares /\ f.merge[1] <= f.merge[2]
                          /\ {f.zero, f.saturated, f.fixNorm} \subseteq BOOLEAN
ASSUME CallsAssumption == MaxCalls \in Nat

VARIABLES
  cuts,     \* edges of all histograms
  proc,     \* rate_, shape_: contents v and squared errors e2
  syst,     \* shape_u_, shape_d_, value_u_, value_d_
  bbb,      \* nuisances of single bins: settings, processes of the call, <<p, b>>
  search,   \* AutoRebin at work: settings and new_bins
  first,    \* the templates at the start (history)
  zeroed,   \* edges of bins set to zero (history)
  lost,     \* processes with a template whose sum was not positive (history)
  calls

vars == <<cuts, proc, syst, bbb, search, first, zeroed, lost, calls>>

-----------------------------------------------------------------------------
(* Fractions and histograms.                                               *)

Plus(a, b) == <<a[1] * b[2] + b[1] * a[2], a[2] * b[2]>>
Times(a, b) == <<a[1] * b[1], a[2] * b[2]>>
Less(a, b) == a[1] * b[2] < b[1] * a[2]
Whole(n) == <<n, 1>>

Integral(h) == SumFunctionOnSet(h, DOMAIN h)
SumFractions(h, B) == FoldFunctionOnSet(Plus, Whole(0), h, B)

\* TH1::Rebin to the edges C, a part of the edges of h.
Inside(h, C, b) == {a \in DOMAIN h : b <= a /\ a < End(C, b)}
Grouped(h, C) == [b \in Bins(C) |-> SumFunctionOnSet(h, Inside(h, C, b))]
GroupedErrors(h, C) == [b \in Bins(C) |-> SumFractions(h, Inside(h, C, b))]

\* A shape of unit integral, scaled: what is not positive is not normalised.
Scaled(h, q) ==
  LET d == q[2] * (IF Integral(h) > 0 THEN Integral(h) ELSE 1)
  IN [b \in DOMAIN h |-> (h[b] * q[1]) \div d]
ScaledErrors(h, e2, rate) ==
  LET q == IF Integral(h) > 0 THEN <<rate, Integral(h)>> ELSE Whole(rate)
  IN [b \in DOMAIN h |-> IF q[1] = q[2] THEN e2[b] ELSE Times(e2[b], Times(q, q))]

-----------------------------------------------------------------------------
(* Processes and systematics.                                              *)

\* Process::ClonedScaledShape, and the templates of the systematic.
Nominal(p) == Scaled(proc[p].v, Whole(proc[p].rate))
Errors(p) == ScaledErrors(proc[p].v, proc[p].e2, proc[p].rate)
Up(s, rate) == Scaled(s.u, Times(s.value_u, Whole(rate)))
Down(s, rate) == Scaled(s.d, Times(s.value_d, Whole(rate)))

\* Process::set_shape with set_rate.
SetShape(h, e2) == [rate |-> Integral(h), v |-> h, e2 |-> e2]

\* Systematic::set_shapes: an empty nominal histogram leaves the values.
SetShapes(s, u, d, nominal) ==
  [u |-> u, d |-> d,
   value_u |-> IF Integral(nominal) > 0 THEN <<Integral(u), Integral(nominal)>> ELSE s.value_u,
   value_d |-> IF Integral(nominal) > 0 THEN <<Integral(d), Integral(nominal)>> ELSE s.value_d]

\* Mutant: the systematics are scaled to the new rate.
RateAfter(p, changed) == changed.rate

\* The systematics are scaled to the rate before the change.
RateBefore(p, changed) == proc[p].rate

\* Rebinning and zeroing: the process first, then its systematic.
Changed(p, Change(_), ChangeErrors(_)) == SetShape(Change(Nominal(p)), ChangeErrors(Errors(p)))
ChangedSyst(p, Change(_), changed) ==
  SetShapes(syst[p], Change(Up(syst[p], RateBefore(p, changed))),
            Change(Down(syst[p], RateBefore(p, changed))),
            Scaled(changed.v, Whole(changed.rate)))

NotPositive(P) ==
  {p \in P : \E h \in {proc[p].v, syst[p].u, syst[p].d} : Integral(h) <= 0}

Apply(P, Change(_), ChangeErrors(_)) ==
  /\ proc' = [p \in Procs |-> IF p \in P THEN Changed(p, Change, ChangeErrors) ELSE proc[p]]
  /\ syst' = [p \in Procs |-> IF p \in P THEN ChangedSyst(p, Change, proc'[p]) ELSE syst[p]]
  /\ lost' = lost \cup NotPositive(P)'

Counted == calls < MaxCalls /\ calls' = calls + 1
None == [on |-> FALSE]

\* VariableRebin, of all that is in the analysis bin.
Rebin(C) ==
  /\ Apply(Procs, LAMBDA h : Grouped(h, C), LAMBDA h : GroupedErrors(h, C))
  /\ cuts' = C

VariableRebin(C) ==
  /\ ~search.on /\ ~bbb.on /\ Counted
  /\ C \subseteq cuts /\ Cardinality(C) >= 2
  /\ Rebin(C)
  /\ UNCHANGED <<bbb, search, first, zeroed>>

\* Bins inside the range.
Within(min, max) == {b \in Bins(cuts) : b >= min /\ End(cuts, b) <= max}

\* ZeroBins, through a view of some processes.
ZeroBins(min, max, P) ==
  LET Z == Within(min, max)
  IN /\ ~search.on /\ ~bbb.on /\ Counted
     /\ Apply(P, LAMBDA h : [b \in DOMAIN h |-> IF b \in Z THEN 0 ELSE h[b]],
                 LAMBDA h : [b \in DOMAIN h |-> IF b \in Z THEN Whole(0) ELSE h[b]])
     /\ zeroed' = [p \in Procs |-> IF p \in P
                     THEN zeroed[p] \cup {e \in Edges : min <= e /\ e < max /\ \E b \in Z : b <= e /\ e < End(cuts, b)}
                     ELSE zeroed[p]]
     /\ UNCHANGED <<cuts, bbb, search, first>>

-----------------------------------------------------------------------------
(* AutoRebin.                                                              *)

\* The total background: contents and squared errors from one edge to another.
Between(be) == {a \in Bins(cuts) : be[1] <= a /\ a < be[2]}
TotalV ==
  [be \in cuts \X cuts |->
     SumFunctionOnSet([p \in Backgrounds |-> SumFunctionOnSet(Nominal(p), Between(be))], Backgrounds)]
TotalE ==
  [be \in cuts \X cuts |->
     SumFractions([p \in Backgrounds |-> SumFractions(Errors(p), Between(be))], Backgrounds)]
Total == [v |-> TotalV, e2 |-> TotalE]

\* Comparisons of the squared fractional error of e2 in v with the square of
\* an option: with v = 0 it is infinite, or no number when e2 is zero too.
ErrorBelow(v, e2, f) == IF v = 0 THEN FALSE ELSE v < 0 \/ Less(e2, Times(f, Whole(v * v)))
ErrorReaches(v, e2, f) == IF v = 0 THEN e2[1] > 0 ELSE v > 0 /\ ~Less(e2, Times(f, Whole(v * v)))
LargerError(v, e2, w, g) ==
  CASE v = 0 -> e2[1] > 0 /\ w # 0
    [] v < 0 -> FALSE
    [] OTHER -> w < 0 \/ (w > 0 /\ Less(Times(g, Whole(v * v)), Times(e2, Whole(w * w))))

\* In what follows T is the total background and C a binning.
Content(T, C, b) == T.v[b, End(C, b)]
Peak(T, C) ==
  CHOOSE b \in Bins(C) :
    /\ \A a \in Bins(C) : Content(T, C, a) <= Content(T, C, b)
    /\ \A a \in Bins(C) : a < b => Content(T, C, a) < Content(T, C, b)

Passes(s, T, b, e) ==
  T.v[b, e] > s.content /\ ErrorBelow(T.v[b, e], T.e2[b, e], s.fraction)

\* Mode 0: going away from the peak, the edge before a bin that fails is
\* removed.
SimplePass(s, T, C, peak) ==
  {e \in C : \/ e \in {Min(C), Max(C)}
             \/ e <= peak /\ Passes(s, T, Max({a \in C : a < e}), e)
             \/ e > peak /\ Passes(s, T, e, End(C, e))}

\* GetMinimumBin takes the first of the lowest bins, mode 2 the last.
Lowest(s, T, C) ==
  LET low == {b \in Bins(C) : \A a \in Bins(C) : Content(T, C, b) <= Content(T, C, a)}
  IN IF s.mode = 1 THEN Min(low) ELSE Max(low)

\* GetMaximumFracUncertBin: the first of those with the largest fraction.
Larger(T, C, b, a) == LargerError(T.v[b, End(C, b)], T.e2[b, End(C, b)], T.v[a, End(C, a)], T.e2[a, End(C, a)])
Uncertain(T, C) ==
  {b \in Bins(C) : /\ Content(T, C, b) >= 0 /\ T.e2[b, End(C, b)][1] > 0
                   /\ \A a \in Bins(C) : ~Larger(T, C, a, b)}
MostUncertain(T, C, uncertain) == IF uncertain = {} THEN Min(C) ELSE Min(uncertain)

\* Mutant: the last edge between the merged bins stays.
MergeLeftShort(C, from, b) == C \ {e \in C : from < e /\ e < b}

\* Merging the bin b with those from `from' on, or with those up to `to'.
MergeLeft(C, from, b) == C \ {e \in C : from < e /\ e <= b}

\* Mutant: the upper edge of the last bin goes as well.
MergeRightPast(C, b, to) == C \ {e \in C : b < e /\ e <= to}

MergeRight(C, b, to) == C \ {e \in C : b < e /\ e < to}

\* With as many neighbours on the left or the right as it takes, whichever are
\* fewer, and towards the peak if they are as many.
MergeWorst(C, worst, peak, froms, tos) ==
  LET nleft == Cardinality({b \in C : Max(froms) <= b /\ b <= worst})
      nright == Cardinality({e \in C : worst < e /\ e <= Min(tos)})
  IN CASE froms = {} /\ tos = {} -> {Min(C), Max(C)}
       [] froms # {} /\ (tos = {} \/ nleft < nright \/ (nleft = nright /\ worst > peak)) ->
            MergeLeft(C, Max(froms), worst)
       [] tos # {} /\ (froms = {} \/ nright < nleft \/ (nleft = nright /\ worst < peak)) ->
            MergeRight(C, worst, Min(tos))
       [] OTHER -> C

\* A bin fails by its content or by its error.
Fails(s, T, byContent, b, e) ==
  IF byContent THEN T.v[b, e] <= s.content ELSE ErrorReaches(T.v[b, e], T.e2[b, e], s.fraction)

MergeFailing(s, T, C, byContent, worst) ==
  IF Fails(s, T, byContent, worst, End(C, worst))
  THEN MergeWorst(C, worst, Peak(T, C),
                  {b \in C : b <= worst /\ ~Fails(s, T, byContent, b, End(C, worst))},
                  {e \in C : s.mode # 2 /\ e >= End(C, worst) /\ ~Fails(s, T, byContent, worst, e)})
  ELSE C

\* Modes 1 and 2: the lowest bin, or the one with the largest error.
WorstPass(s, T, C, low) ==
  IF Content(T, C, low) <= s.content
  THEN MergeFailing(s, T, C, TRUE, low)
  ELSE MergeFailing(s, T, C, FALSE, MostUncertain(T, C, Uncertain(T, C)))

NewBinning(s, T, C) ==
  IF s.mode = 0 THEN SimplePass(s, T, C, Peak(T, C)) ELSE WorstPass(s, T, C, Lowest(s, T, C))
AllPass(s, T, C) == \A b \in Bins(C) : Passes(s, T, b, End(C, b))
Found == NewBinning(search.settings, Total, search.cuts)

StartSearch(s) ==
  /\ ~search.on /\ ~bbb.on /\ Counted
  /\ search' = [on |-> TRUE, settings |-> s, cuts |-> cuts]
  /\ UNCHANGED <<cuts, proc, syst, bbb, first, zeroed, lost>>

\* One pass of FindNewBinning that calls itself again.
SearchOn ==
  /\ search.on
  /\ \E C \in {Found} : /\ C # search.cuts /\ ~AllPass(search.settings, Total, C)
                        /\ search' = [search EXCEPT !.cuts = C]
  /\ UNCHANGED <<cuts, proc, syst, bbb, first, zeroed, lost, calls>>

\* The last pass, and the rebinning when there is a new binning.
EndSearch ==
  /\ search.on
  /\ \E C \in {Found} : /\ C = search.cuts \/ AllPass(search.settings, Total, C)
                        /\ IF C = cuts THEN UNCHANGED <<cuts, proc, syst, lost>> ELSE Rebin(C)
  /\ search' = None
  /\ UNCHANGED <<bbb, first, zeroed, calls>>

-----------------------------------------------------------------------------
(* BinByBinFactory.                                                        *)

\* The error of a bin is above the threshold for additions.
Above(f, v, e2) ==
  \/ v = 0 /\ e2[1] > 0
  \/ v > 0 /\ Less(Times(f.add, Whole(v * v)), e2)

\* Processes whose errors in the bin b may be merged, and those that may
\* also grow.
Merging(f, P, b) == {p \in P : Above(f, Nominal(p)[b], Errors(p)[b]) /\ (Nominal(p)[b] # 0 \/ f.zero)}
CanExpand(f, p, b) == f.saturated \/ Less(Errors(p)[b], Whole(Nominal(p)[b] * Nominal(p)[b]))

\* Sorted by error; histograms of equal error by their address.
Before(p, q, b, address) ==
  \/ Less(Errors(p)[b], Errors(q)[b])
  \/ ~Less(Errors(q)[b], Errors(p)[b]) /\ address[p] < address[q]
LastOf(S, b, address) == CHOOSE p \in S : \A q \in S : ~Before(p, q, b, address)

\* Mutant: errors that may not grow are removed as well.
RemovableAny(f, M, p, total, removed, b, address) ==
  Less(Plus(removed, Errors(p)[b]), Times(f.merge, total)) /\ p # LastOf(M, b, address)

Removable(f, M, p, total, removed, b, address) ==
  /\ Less(Plus(removed, Errors(p)[b]), Times(f.merge, total))
  /\ p # LastOf(M, b, address) /\ CanExpand(f, p, b)

SumErrors(P, b) == SumFractions([p \in P |-> Errors(p)[b]], P)

\* The loop over the sorted errors: whose are gone, and what they add up to.
Nothing == [gone |-> {}, removed |-> Whole(0)]
Visit(f, M, p, L, total, b, address) ==
  IF Removable(f, M, p, total, L.removed, b, address)
  THEN [gone |-> L.gone \cup {p}, removed |-> Plus(L.removed, Errors(p)[b])]
  ELSE L
Removal(f, M, total, b, address) ==
  MapThenFoldSet(LAMBDA p, L : Visit(f, M, p, L, total, b, address), Nothing,
                 LAMBDA p : p, LAMBDA S : LastOf(S, b, address), M)

Gcd(i, j) == Max({k \in 1..j : i % k = 0 /\ j % k = 0})
Reduced(q) == <<q[1] \div Gcd(q[1], q[2]), q[2] \div Gcd(q[1], q[2])>>

\* e2 / (1 - removed / total)
Expanded(e2, total, removed) ==
  IF removed[1] = 0 THEN e2
  ELSE Reduced(<<e2[1] * total[1] * removed[2], e2[2] * (total[1] * removed[2] - removed[1] * total[2])>>)

\* MergeBinErrors: the errors of the processes P in the bin b.
MergedErrors(f, P, b, address) ==
  LET M == Merging(f, P, b)
      E == {p \in M : CanExpand(f, p, b)}
      total == SumErrors(E, b)
      L == Removal(f, M, total, b, address)
  IN [p \in Procs |-> CASE p \in L.gone -> Whole(0)
                        [] p \in E \ L.gone -> Expanded(Errors(p)[b], total, L.removed)
                        [] OTHER -> Errors(p)[b]]

\* set_shape without set_rate.
Merge(f, P) ==
  \E address \in {a \in [P -> 1..Cardinality(P)] : \A p, q \in P : a[p] = a[q] => p = q} :
    LET merged == [b \in Bins(cuts) |-> MergedErrors(f, P, b, address)]
    IN proc' = [p \in Procs |-> IF p \in P
                  THEN [rate |-> proc[p].rate, v |-> Nominal(p), e2 |-> [b \in Bins(cuts) |-> merged[b][p]]]
                  ELSE proc[p]]

MergeBinErrors(f, P) ==
  /\ ~search.on /\ ~bbb.on /\ Counted /\ Merge(f, P)
  /\ UNCHANGED <<cuts, syst, bbb, search, first, zeroed, lost>>

\* AddBinByBin: with a fixed norm, not for a process with one filled bin.
Filled(h) == {b \in DOMAIN h : h[b] > 0}
Skipped(f, p) == f.fixNorm /\ Cardinality(Filled(proc[p].v)) <= 1

\* Mutant: the errors before they were merged decide.
AddedBefore(f, P, merged) ==
  {e \in P \X Bins(cuts) : ~Skipped(f, e[1]) /\ Above(f, proc[e[1]].v[e[2]], proc[e[1]].e2[e[2]])}

Added(f, P, merged) ==
  {e \in P \X Bins(cuts) : ~Skipped(f, e[1]) /\ Above(f, merged[e[1]].v[e[2]], merged[e[1]].e2[e[2]])}

MergeAndAdd(f, P) ==
  /\ ~search.on /\ ~bbb.on /\ Counted /\ Merge(f, P)
  /\ bbb' = [on |-> TRUE, settings |-> f, procs |-> P, of |-> Added(f, P, proc')]
  /\ UNCHANGED <<cuts, syst, search, first, zeroed, lost>>

-----------------------------------------------------------------------------

Init ==
  /\ cuts = Edges
  /\ first \in Starts
  /\ proc = [p \in Procs |-> SetShape(first[p].v, first[p].e2)]
  /\ syst = [p \in Procs |-> SetShapes([value_u |-> Whole(1), value_d |-> Whole(1)],
                                       first[p].u, first[p].d, first[p].v)]
  /\ bbb = None /\ search = None
  /\ zeroed = [p \in Procs |-> {}] /\ lost = NotPositive(Procs) /\ calls = 0

Next ==
  \/ \E C \in SUBSET cuts : VariableRebin(C)
  \/ \E min, max \in Edges : min < max /\ \E P \in {Procs, Backgrounds} : ZeroBins(min, max, P)
  \/ \E s \in Searches : StartSearch(s)
  \/ SearchOn \/ EndSearch
  \/ \E f \in Factories : \E P \in {Procs, Backgrounds} : MergeBinErrors(f, P) \/ MergeAndAdd(f, P)

Spec == Init /\ [][Next]_vars

-----------------------------------------------------------------------------
(* Properties.                                                             *)

TypeOK ==
  /\ cuts \subseteq Edges /\ Cardinality(cuts) >= 2
  /\ \A p \in Procs :
       /\ proc[p].rate \in Int /\ proc[p].v \in [Bins(cuts) -> Int]
       /\ proc[p].e2 \in [Bins(cuts) -> Squares]
       /\ {syst[p].u, syst[p].d} \subseteq [Bins(cuts) -> Int]
       /\ {syst[p].value_u, syst[p].value_d} \subseteq Fractions
  /\ bbb.on => bbb.of \subseteq bbb.procs \X Bins(cuts)
  /\ search.on => search.cuts \subseteq cuts /\ {Min(cuts), Max(cuts)} \subseteq search.cuts
  /\ lost \subseteq Procs /\ calls \in 0..MaxCalls

\* However histograms were rebinned and zeroed, a process and its systematic
\* predict in each bin the sum of what they predicted at the start in those of
\* its parts that were not zeroed.
Expected(p, h, b) == SumFunctionOnSet(h, {a \in Bins(Edges) \ zeroed[p] : b <= a /\ a < End(cuts, b)})
TemplatesKept ==
  \A p \in Procs \ lost : \A b \in Bins(cuts) :
    /\ Nominal(p)[b] = Expected(p, first[p].v, b)
    /\ Up(syst[p], proc[p].rate)[b] = Expected(p, first[p].u, b)
    /\ Down(syst[p], proc[p].rate)[b] = Expected(p, first[p].d, b)

\* A binning that AutoRebin has found passes in all bins, unless one bin is
\* left or the peak itself fails, which no mode looks at or can decide for.
Rebinned ==
  [][search.on /\ ~search'.on =>
       \A C \in {Found} :
         \/ AllPass(search.settings, Total, C)
         \/ Cardinality(C) = 2
         \/ \E b \in {Peak(Total, C)} : ~Passes(search.settings, Total, b, End(C, b))]_vars

\* Errors move between processes: their squares add up to what they did.
Same(a, b) == a[1] * b[2] = b[1] * a[2]
ErrorsMoved ==
  [][proc' # proc /\ <<cuts, zeroed, lost>>' = <<cuts, zeroed, lost>> =>
       \A P \in {Procs, Backgrounds} : (\A p \in Procs \ P : proc'[p] = proc[p]) /\ P \cap lost = {} =>
         \A b \in Bins(cuts) : Same(SumErrors(P, b)', SumErrors(P, b))]_vars

\* Merging and adding make nuisances for all of the errors that were above
\* the threshold, and none without an error, if no process is left out for
\* having a single filled bin.
Covered ==
  [][LET f == bbb'.settings
         P == bbb'.procs
         Made(b) == {p \in P : <<p, b>> \in bbb'.of}
     IN bbb'.on /\ P \cap lost = {} /\ (\A p \in P : ~Skipped(f, p)) =>
          \A b \in Bins(cuts) :
            /\ \A p \in Made(b) : proc'[p].e2[b][1] > 0
            /\ Same(SumFractions([p \in Procs |-> proc'[p].e2[b]], Made(b)), SumErrors({p \in P : Above(f, Nominal(p)[b], Errors(p)[b])}, b))]_vars
=============================================================================
