------------------------------ MODULE DiscreteFit ------------------------------
(***************************************************************************)
(* CascadeMinimizer::minimize of the combine program for a likelihood with *)
(* discrete nuisances, as a scan over fixed parameters calls it again and  *)
(* again.  A category chooses one of the pdfs of a channel.  The minimizer *)
(* goes through the choices and, to save time, freezes parameters and      *)
(* masks parts of the likelihood (CachingSimNLL) while it does.            *)
(*                                                                         *)
(* A likelihood is a table of small integers, a fit finds a minimum of     *)
(* what the likelihood shows over the floating parameters, or fails and    *)
(* stops anywhere.                                                         *)
(***************************************************************************)
EXTENDS Integers, FiniteSets, FiniteSetsExt, Functions

CONSTANTS
  NCats,          \* categories: 1..NCats, the pdfCategories
  NPdf,           \* NPdf[c]: pdfs the category c chooses from
  PdfPars,        \* PdfPars[c][k]: parameters of the pdf k of c
  Channels,
  ChanCats,       \* ChanCats[h]: categories of the channel h
  ChanPars,       \* ChanPars[h]: its parameters that belong to no category
  Constrained,    \* parameters with a constraint
  Pars,           \* all parameters
  POIs,           \* parametersOfInterest
  Vals,           \* values of parameters
  Starts,         \* initial values in the workspace
  Models,         \* likelihoods
  Term(_, _, _, _),   \* Term(m, h, y, k): channel h at values y and indices k
  Penalty(_, _),      \* Penalty(m, y): the constraints
  Options,        \* combinations of run-time options
  Fixed,          \* sets of parameters that a call finds constant
  MaxDeviation,   \* maxDeviation
  MaxIterations,  \* maxIterations
  MaxCalls,       \* bound on calls of minimize()
  MaxFailures     \* bound on failed fits

Cats == 1..NCats
Indices(c) == 0..NPdf[c] - 1
AllIndices == UNION {Indices(c) : c \in Cats}
Indexings == {k \in [Cats -> AllIndices] : \A c \in Cats : k[c] \in Indices(c)}
MultiPars == UNION {PdfPars[c][k] : c \in Cats, k \in AllIndices}
ParsOf(h) == ChanPars[h] \cup UNION {PdfPars[c][k] : c \in ChanCats[h], k \in AllIndices}

ASSUME CatsAssumption ==
  /\ NCats \in Nat \ {0} /\ NPdf \in [Cats -> Nat \ {0}]
  /\ \A c \in Cats : \A k \in AllIndices :
       /\ PdfPars[c][k] \subseteq Pars
       /\ k \notin Indices(c) => PdfPars[c][k] = {}
ASSUME ChannelsAssumption ==
  /\ IsFiniteSet(Channels)
  /\ \A h \in Channels : ChanCats[h] \subseteq Cats /\ ChanPars[h] \subseteq Pars
  /\ Constrained \subseteq Pars /\ POIs \subseteq Pars
\* A term of the likelihood sees its parameters, its categories and the
\* parameters of the pdfs they choose (RooMultiPdf::evaluate) only.
Seen(h, k) == ChanPars[h] \cup UNION {PdfPars[c][k[c]] : c \in ChanCats[h]}
ASSUME LikelihoodAssumption ==
  \A m \in Models : \A y, z \in [Pars -> Vals] :
    /\ Penalty(m, y) \in Int
    /\ (\A p \in Constrained : y[p] = z[p]) => Penalty(m, y) = Penalty(m, z)
    /\ \A h \in Channels : \A k, l \in Indexings :
         /\ Term(m, h, y, k) \in Int
         /\ (\A p \in Seen(h, k) : y[p] = z[p]) /\ (\A c \in ChanCats[h] : k[c] = l[c])
              => Term(m, h, y, k) = Term(m, h, z, l)
\* Parameters are floating-point numbers.
ASSUME ValuesAssumption == IsFiniteSet(Pars) /\ IsFiniteSet(Vals)
ASSUME OptionsAssumption ==
  Options \subseteq [short : BOOLEAN,      \* not --cminRunAllDiscreteCombinations
                     disassociate : BOOLEAN,  \* MINIMIZER_freezeDisassociatedParams
                     hide : BOOLEAN,          \* MINIMIZER_multiMin_hideConstants
                     constraints : BOOLEAN,   \* MINIMIZER_multiMin_maskConstraints
                     channels : 0..2,         \* MINIMIZER_multiMin_maskChannels
                     analytic : BOOLEAN,      \* not MINIMIZER_no_analytic
                     prefit : BOOLEAN]        \* --cminPreFit
ASSUME CallsAssumption == Starts \subseteq [Pars -> Vals] /\ Fixed \subseteq SUBSET Pars
ASSUME BoundsAssumption == {MaxCalls, MaxFailures} \subseteq Nat /\ MaxIterations \in Nat \ {0}

VARIABLES
  model, opt,   \* the likelihood and the options
  pc,           \* where minimize() is
  x, idx,       \* values of the parameters, indices of the categories
  const,        \* constant parameters
  mask,         \* masked channels and constraints, and whether channel masks are set
  offset,       \* maskingOffset_
  list,         \* parameters minimizer_ was made with, {} when there is none
  loop,         \* locals of multipleMinimize and iterativeMinimize
  minNLL, prevNLL, iterations,   \* locals of minimize
  start,        \* values and constants at the call (history)
  calls, failures   \* counters for MaxCalls and MaxFailures

vars == <<model, opt, pc, x, idx, const, mask, offset, list, loop, minNLL, prevNLL,
          iterations, start, calls, failures>>

-----------------------------------------------------------------------------
(* The likelihood.                                                         *)

NoMask == [on |-> FALSE, channels |-> {}, constraints |-> FALSE]

\* CachingSimNLL::evaluate without the offset.
NLL(y, k, mk) ==
  SumFunctionOnSet([h \in Channels |-> Term(model, h, y, k)], Channels \ mk.channels)
    + IF mk.constraints THEN 0 ELSE Penalty(model, y)
Shown(y, k, mk, o) == NLL(y, k, mk) + o

\* setMaskConstraints, setMaskNonDiscreteChannels: the value stays.
MaskedOffset(o, y, k, old, new) == o + NLL(y, k, old) - NLL(y, k, new)

\* Channels without a category that is not constant.
NonDiscrete(catConst) == {h \in Channels : ChanCats[h] \subseteq catConst}
WithChannels(mk, catConst) ==
  [mk EXCEPT !.on = TRUE, !.channels = NonDiscrete(catConst)]
WithoutChannels(mk) == [mk EXCEPT !.on = FALSE, !.channels = {}]

\* getParameters: what a minimizer made now knows of.
Listed(mk) ==
  IF mk.on THEN UNION {ParsOf(h) : h \in Channels \ mk.channels} ELSE Pars

-----------------------------------------------------------------------------
(* Freezing and fitting.                                                   *)

\* freezeAllDisassociatedRooMultiPdfParameters: the parameters of the active
\* pdfs are left alone, unless they are constant already.
Disassociated(k, cst) == MultiPars \ ((UNION {PdfPars[c][k[c]] : c \in Cats}) \ cst)
Freeze(cst, k) == IF opt.disassociate THEN cst \cup Disassociated(k, cst) ELSE cst
Float(cst, k) == IF opt.disassociate THEN cst \ Disassociated(k, cst) ELSE cst

\* What a fit from y over the parameters F may end with.
Ends(y, F) == {z \in [Pars -> Vals] : \A p \in Pars \ F : z[p] = y[p]}
Best(y, k, mk, F) == Min({NLL(z, k, mk) : z \in Ends(y, F)})
Fits(y, k, mk, F) ==
  {[x |-> z, failed |-> 0] : z \in {e \in Ends(y, F) : NLL(e, k, mk) = Best(y, k, mk, F)}}
  \cup (IF failures < MaxFailures THEN {[x |-> z, failed |-> 1] : z \in Ends(y, F)} ELSE {})

\* improve(): makes a new minimizer if it has to, fits with the parameters of
\* inactive pdfs frozen and lets them float again.
Improved(y, k, cst, mk, force) ==
  LET known == IF force \/ list = {} THEN Listed(mk) ELSE list
      frozen == Freeze(cst, k)
  IN {[x |-> f.x, failed |-> f.failed, const |-> Float(frozen, k), list |-> known]
        : f \in Fits(y, k, mk, known \ frozen)}

-----------------------------------------------------------------------------
(* minimize().                                                             *)

NoLoop ==
  [mode |-> 0,          \* 0, 1 or 2
   from |-> <<>>,       \* indices at the start of multipleMinimize
   todo |-> {},         \* combinations left, relative to these
   fits |-> 0,          \* fitCounter
   clean |-> <<>>,      \* reallyCleanParameters
   best |-> <<>>,       \* snap and bestIndeces
   frozen |-> {},       \* what iterativeMinimize has frozen
   allowed |-> [c \in Cats |-> Indices(c)]]    \* contributingIndeces

Init ==
  /\ model \in Models /\ opt \in Options
  /\ pc = "idle"
  /\ x \in Starts /\ idx = [c \in Cats |-> 0]
  /\ const = {} /\ mask = NoMask /\ offset = 0 /\ list = Pars
  /\ loop = NoLoop /\ minNLL = 0 /\ prevNLL = 0 /\ iterations = 0
  /\ start = [x |-> x, const |-> const]
  /\ calls = 0 /\ failures = 0

\* The caller sets and holds some parameters, as the scans of MultiDimFit do, or
\* none.
Call ==
  /\ pc = "idle" /\ calls < MaxCalls
  /\ \E cst \in Fixed : \E v \in [cst -> Vals] :
       /\ x' = [p \in Pars |-> IF p \in cst THEN v[p] ELSE x[p]]
       /\ const' = cst
       /\ start' = [x |-> x', const |-> cst]
  /\ pc' = "begin" /\ calls' = calls + 1 /\ iterations' = 0
  /\ UNCHANGED <<model, opt, idx, mask, offset, list, loop, minNLL, prevNLL, failures>>

\* The pre-fit without the constrained nuisances.
PreFit ==
  /\ pc = "begin" /\ opt.prefit
  /\ LET frozen == Constrained \ Freeze(const, idx)
         held == Freeze(Freeze(const, idx) \cup frozen, idx)
     IN \E f \in Fits(x, idx, mask, Listed(mask) \ held) :
          /\ x' = f.x /\ failures' = failures + f.failed
          /\ const' = Float(held \ frozen, idx)
  /\ list' = Listed(mask) /\ pc' = "first"
  /\ UNCHANGED <<model, opt, idx, mask, offset, loop, minNLL, prevNLL, iterations, start, calls>>

\* The first fit, or none when all combinations are to be tried with every
\* parameter floating.
First ==
  /\ pc = "first" \/ (pc = "begin" /\ ~opt.prefit)
  /\ IF opt.short
     THEN \E r \in Improved(x, idx, Freeze(const, idx), mask, opt.analytic) :
            /\ x' = r.x /\ const' = r.const /\ list' = r.list
            /\ failures' = failures + r.failed
            /\ minNLL' = Shown(r.x, idx, mask, offset)
            /\ prevNLL' = minNLL' /\ pc' = "iterate" /\ UNCHANGED loop
     ELSE /\ const' = Freeze(const, idx)
          /\ minNLL' = 10 + Shown(x, idx, mask, offset)
          /\ loop' = [NoLoop EXCEPT !.clean = x]
          /\ pc' = "multi" /\ UNCHANGED <<x, list, prevNLL, failures>>
  /\ UNCHANGED <<model, opt, idx, mask, offset, iterations, start, calls>>

\* Mutant: only the parameters of interest are frozen.
FrozenPOIs(cst) == POIs \ cst

\* Mutant: constant parameters are not left out, and float afterwards.
FrozenWithConstants(cst) == (Pars \ MultiPars) \cup POIs

\* iterativeMinimize: everything that belongs to no category is frozen.
FrozenForScan(cst) == ((Pars \ MultiPars) \cup POIs) \ cst

\* It would fit first if minimumNLL were not the present value: it always is.
Iterate ==
  /\ pc = "iterate"
  /\ LET cst == Freeze(const, idx)
         frozen == FrozenForScan(cst)
     IN /\ const' = cst \cup frozen
        /\ loop' = [NoLoop EXCEPT !.clean = [p \in Pars \ const' |-> x[p]], !.frozen = frozen]
  /\ pc' = "multi"
  /\ UNCHANGED <<model, opt, x, idx, mask, offset, list, minNLL, prevNLL, iterations, start, calls, failures>>

\* generateOrthogonalCombinations, or generateCombinations in mode 2; the last
\* category changes most slowly.
Chosen(mode) ==
  IF mode = 2 THEN Indexings
  ELSE {k \in Indexings : Cardinality({c \in Cats : k[c] # 0}) <= 1}
Before(j, k) == \E c \in Cats : j[c] < k[c] /\ \A d \in Cats : d > c => j[d] = k[d]
FirstOf(S) == CHOOSE k \in S : \A j \in S : ~Before(j, k)
Present == [c \in Cats |-> 0]

\* reorderCombinations
Reordered(k, from) == [c \in Cats |-> (k[c] + from[c]) % NPdf[c]]
NextCombination == Reordered(FirstOf(loop.todo), loop.from)
Left == loop.todo \ {FirstOf(loop.todo)}

Hides == opt.disassociate /\ opt.hide
MaskChannels == IF opt.disassociate THEN opt.channels ELSE 0

\* multipleMinimize up to its loop.
StartMultiple ==
  /\ pc = "multi"
  /\ LET mk1 == IF MaskChannels # 0 THEN WithChannels(mask, {}) ELSE mask
         mk2 == IF Hides /\ opt.constraints THEN [mk1 EXCEPT !.constraints = TRUE] ELSE mk1
     IN /\ mask' = mk2
        /\ offset' = MaskedOffset(MaskedOffset(offset, x, idx, mask, mk1), x, idx, mk1, mk2)
        /\ loop' = [loop EXCEPT !.from = idx,
                                !.todo = Chosen(loop.mode) \ (IF loop.mode = 0 THEN {} ELSE {Present}),
                                !.fits = 0, !.best = [x |-> x, idx |-> idx],
                                !.allowed = IF loop.mode = 0 THEN NoLoop.allowed ELSE @]
  /\ list' = IF Hides THEN {} ELSE list
  /\ pc' = "combo"
  /\ UNCHANGED <<model, opt, x, idx, const, minNLL, prevNLL, iterations, start, calls, failures>>

\* A combination with an index that was dropped: those before it are set.
SkipCombination ==
  LET k == NextCombination
      dropped == {c \in Cats : k[c] \notin loop.allowed[c]}
  IN /\ pc = "combo" /\ loop.todo # {} /\ dropped # {}
     /\ idx' = [c \in Cats |-> IF c < Min(dropped) THEN k[c] ELSE idx[c]]
     /\ loop' = [loop EXCEPT !.todo = Left]
     /\ UNCHANGED <<model, opt, pc, x, const, mask, offset, list, minNLL, prevNLL,
                    iterations, start, calls, failures>>

\* Mutant: the parameters a better fit ended with are not kept.
BetterIndicesOnly(best, y, k) == [best EXCEPT !.idx = k]

\* A new minimum is remembered with its parameters.
Better(best, y, k) == [x |-> y, idx |-> k]

\* Mode 1: an index that alone makes the fit much worse is dropped.
StillAllowed(k, value, minimum, best) ==
  LET moved == {c \in Cats : k[c] # best[c]}
  IN [c \in Cats |->
       IF loop.mode = 1 /\ value > minimum + MaxDeviation /\ moved = {c}
       THEN loop.allowed[c] \ {k[c]} ELSE loop.allowed[c]]

\* One combination: set the indices, start from clean parameters, mask the
\* channels whose category is not being scanned, fit, unmask, compare.
FitCombination ==
  LET k == NextCombination
      changed == {c \in Cats : idx[c] # k[c]}
      scanned == IF changed = {} THEN Cats ELSE {Max(changed)}
      y == IF loop.fits > 0 THEN [p \in Pars |-> IF p \in DOMAIN loop.clean THEN loop.clean[p] ELSE x[p]]
           ELSE x
      mk1 == IF MaskChannels = 2 THEN WithChannels(mask, Cats \ scanned) ELSE mask
      mk2 == IF MaskChannels = 2 THEN WithoutChannels(mk1) ELSE mk1
      o1 == MaskedOffset(offset, y, k, mask, mk1)
  IN /\ pc = "combo" /\ loop.todo # {}
     /\ \A c \in Cats : k[c] \in loop.allowed[c]
     /\ idx' = k
     /\ \E r \in Improved(y, k, Freeze(const, k), mk1, opt.disassociate) :
          LET o2 == MaskedOffset(o1, r.x, k, mk1, mk2)
              value == Shown(r.x, k, mk2, o2)
              best == IF value < minNLL THEN Better(loop.best, r.x, k) ELSE loop.best
          IN /\ x' = r.x /\ list' = r.list /\ failures' = failures + r.failed
             /\ const' = Float(r.const, k)
             /\ mask' = mk2 /\ offset' = o2
             /\ minNLL' = Min({value, minNLL})
             /\ loop' = [loop EXCEPT !.todo = Left, !.fits = @ + 1, !.best = best,
                                     !.allowed = StillAllowed(k, value, minNLL', best.idx)]
     /\ UNCHANGED <<model, opt, pc, prevNLL, iterations, start, calls>>

\* multipleMinimize after its loop: the best indices and parameters, unmasked.
EndMultiple ==
  /\ pc = "combo" /\ loop.todo = {}
  /\ x' = loop.best.x /\ idx' = loop.best.idx
  /\ LET mk1 == IF MaskChannels # 0 THEN WithoutChannels(mask) ELSE mask
         mk2 == IF Hides /\ opt.constraints THEN [mk1 EXCEPT !.constraints = FALSE] ELSE mk1
     IN /\ mask' = mk2
        /\ offset' = MaskedOffset(MaskedOffset(offset, x', idx', mask, mk1), x', idx', mk1, mk2)
  /\ list' = IF Hides THEN {} ELSE list
  /\ \/ opt.short /\ pc' = "full" /\ UNCHANGED loop
     \/ /\ ~opt.short /\ loop.mode < 2 /\ NCats > 1
        /\ pc' = "multi" /\ loop' = [loop EXCEPT !.mode = @ + 1]
     \/ /\ ~opt.short /\ (loop.mode = 2 \/ NCats = 1)
        /\ pc' = "last" /\ UNCHANGED loop
  /\ UNCHANGED <<model, opt, const, minNLL, prevNLL, iterations, start, calls, failures>>

\* What iterativeMinimize has frozen floats again.
Unfrozen(cst) == cst \ loop.frozen

\* Mutant: the counter is compared after it is incremented.
OnceMore(value, n) == value # prevNLL /\ n <= MaxIterations

\* minimize calls iterativeMinimize until nothing is gained.
Again(value, n) == value # prevNLL /\ n < MaxIterations

\* iterativeMinimize ends with a fit with all parameters.
FullFit ==
  /\ pc = "full"
  /\ \E r \in Improved(x, idx, Unfrozen(const), mask, opt.analytic) :
       /\ x' = r.x /\ list' = r.list /\ failures' = failures + r.failed
       /\ const' = Float(r.const, idx)
       /\ minNLL' = Shown(r.x, idx, mask, offset)
  /\ iterations' = iterations + 1
  /\ IF Again(minNLL', iterations')
     THEN pc' = "iterate" /\ prevNLL' = minNLL'
     ELSE pc' = "end" /\ UNCHANGED prevNLL
  /\ loop' = NoLoop
  /\ UNCHANGED <<model, opt, idx, mask, offset, start, calls>>

\* After all combinations: one more fit if pdfs were frozen out.
LastFit ==
  /\ pc = "last"
  /\ IF opt.disassociate
     THEN \E r \in Improved(x, idx, Freeze(const, idx), mask, TRUE) :
            /\ x' = r.x /\ list' = r.list /\ failures' = failures + r.failed
            /\ const' = Float(r.const, idx)
            /\ minNLL' = Shown(r.x, idx, mask, offset)
     ELSE UNCHANGED <<x, list, failures, const, minNLL>>
  /\ pc' = "end"
  /\ UNCHANGED <<model, opt, idx, mask, offset, loop, prevNLL, iterations, start, calls>>

\* minimize() returns.
End ==
  /\ pc = "end"
  /\ const' = Float(const, idx) /\ pc' = "idle"
  /\ UNCHANGED <<model, opt, x, idx, mask, offset, list, loop, minNLL, prevNLL,
                 iterations, start, calls, failures>>

Next ==
  \/ Call \/ PreFit \/ First \/ Iterate \/ StartMultiple \/ SkipCombination
  \/ FitCombination \/ EndMultiple \/ FullFit \/ LastFit \/ End

Spec == Init /\ [][Next]_vars

-----------------------------------------------------------------------------
(* Properties.                                                             *)

TypeOK ==
  /\ model \in Models /\ opt \in Options
  /\ pc \in {"idle", "begin", "first", "iterate", "multi", "combo", "full", "last", "end"}
  /\ x \in [Pars -> Vals] /\ idx \in Indexings
  /\ const \subseteq Pars /\ list \subseteq Pars
  /\ mask \in [on : BOOLEAN, channels : SUBSET Channels, constraints : BOOLEAN]
  /\ {offset, minNLL, prevNLL} \subseteq Int
  /\ loop.mode \in 0..2 /\ loop.todo \subseteq Indexings /\ loop.frozen \subseteq Pars
  /\ iterations \in 0..MaxIterations /\ calls \in 0..MaxCalls /\ failures \in 0..MaxFailures

Returned == pc = "idle" /\ calls > 0

\* A parameter that a scan holds fixed stays where it is during the fits of its
\* point ("make sure still to ignore user set constants").
ConstantsKept == pc # "idle" => \A p \in start.const : x[p] = start.x[p]

\* minimize() gives back the constants it was given and the likelihood as it
\* was, whatever fits failed: masking "doesn't change [the] NLL value", so the
\* points of a scan can be compared.
LeftAsFound == Returned => const = start.const /\ mask = NoMask /\ offset = 0

\* When all fits succeed, minimize() returns a minimum over all floating
\* parameters at its indices, and no other index would give less: with the
\* parameters of the pdfs alone for each category by itself, from where they
\* were tried, which is no worse, or, if asked for all combinations, with all
\* parameters for each that was not dropped.
Settled ==
  Returned /\ failures = 0 /\ iterations < MaxIterations =>
    LET value == NLL(x, idx, NoMask)
    IN /\ value = Best(x, idx, NoMask, Pars \ const)
       /\ opt.short => \E y \in Ends(x, Pars \ const) :
            /\ NLL(y, idx, NoMask) = value
            /\ \A c \in Cats : \A k \in Indices(c) :
                 value <= Best(y, [idx EXCEPT ![c] = k], NoMask, MultiPars \ const)
       /\ ~opt.short => \A k \in Indexings :
            (\A c \in Cats : k[c] \in loop.allowed[c]) => value <= Best(x, k, NoMask, Pars \ const)
=============================================================================
