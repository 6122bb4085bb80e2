# CombineHarvester: TLA+ models, model checking and proofs

This directory holds a verification development of CombineHarvester: TLA+
modules translated from the C++ library and the Python job driver, the TLC
configurations that check them on small instances, and theorems about them
checked by TLAPS.  `PROJECT.json` lists the parts of the system, the runs, the
source lines behind every definition, the hazards the properties are for, and
the theorems.

## 1. The system

CombineHarvester prepares and evaluates the datacards of the `combine` fitting
program, and drives grids of `combine` jobs.  Paths are relative to
`src/CombineTools/`; a copy of `combine` itself is in `src/copy_CombinedLimit/`.

| Component | State it keeps | Operations | Interacts with |
|---|---|---|---|
| Object store (`CombineHarvester*.cc`, `CopyTools`) | `obs_`, `procs_`, `systs_` (vectors of shared pointers), `params_` (map from name to shared Parameter), `wspaces_`, flags | `cp()`, `deep()`, filters, `AddSyst`, `Clone*`, `Rename*`, `SplitSyst`, `ForEach*` | instances of one program share objects through the pointers |
| Workspaces (`CombineHarvester.cc`) | `wspaces_`, the pdf/data/variable pointers in the objects, `vars_` of each Parameter | `SetupWorkspace`, `ImportParameters`, `ExtractPdfs`, `ExtractData`, `SetupRateParamVar` | Parameters write values into the linked RooRealVars |
| Rates and uncertainties (`CombineHarvester_Evaluate.cc`) | none of its own; writes parameter values and restores them | `GetRate`, `GetShape`, `GetUncertainty`, `UpdateParameters`, `VariableRebin`, `ZeroBins` | reads processes, systematics, parameters |
| Datacards (`CombineHarvester_Datacards.cc`, `HistMapping`, `TFileIO`) | shape rules while a card is parsed; the histogram table while one is written | `ParseDatacard`, `WriteDatacard`, `FillHistMappings` | files, the object store |
| `CardWriter` | `tag_`, patterns, wildcard masses; the files | `WriteCards`, `BuildMap` | calls `WriteDatacard`, one open root file at a time |
| Shape tools (`BinByBin`, `AutoRebin`, ...) | thresholds | merge errors, add bin systematics, rebin | read and replace shapes in the store |
| Toy grids (`python/combine/LimitGrids.py`) | zip archive, local files, json status file | one invocation: scan, archive, assess, queue jobs, save | `combine` processes through the job queue |
| Job queue (`CombineToolBase.py`) | `job_queue` | `flush_queue` in interactive, dry-run and batch modes | a process pool, batch systems |
| Minimizer and likelihood (`copy_CombinedLimit`: `CascadeMinimizer`, `CachingNLL`, `utils`) | the indices of discrete nuisances, what is constant, masks and offsets of the likelihood, the minimizer and its list of parameters | `minimize`, `improve`, `iterativeMinimize`, `multipleMinimize`, `freezeDiscParams` | called at each point of a scan and for each toy |
| Limits with toys (`copy_CombinedLimit`: `HybridNew`) | the interval, its p-values, the limit and its error | `runLimit`: bracket, bisect, shrink, scan a grid, fit | p-values from toys, or from the grid that `HybridNewGrid` collected |
| Validation, utilities, Python binding, systematics tables, programs, plotting, vendored code | - | - | clients of the above |

What is hard here, and hard to test:

* **Aliasing.**  `cp()` is cheap because it shares; every call that takes a
  target instance, renames, freezes or evaluates writes objects other instances
  see.  The keys of `params_` are private to an instance, the names are not.
* **Write and put back.**  Uncertainties are evaluated by writing sampled values
  into the live Parameters and restoring them at the end.
* **Files that outlive the process.**  `HybridNewGrid` is meant to be invoked
  repeatedly; what it remembers is in an archive, a directory and a status
  file, each written by steps that can fail or be interrupted, while combine
  processes may outlive the driver that started them.
* **One file for many cards.**  Cards of several masses share a root file in
  which the first histogram at a path stays, and what a line of a card means to
  the parser depends on how many processes the card has.
* **Derived file names.**  `CardWriter` decides from compiled names which object
  goes into which card and root file; files of earlier calls lie around.

* **Pointers into what another object owns.**  Processes, systematics and
  parameters point into workspaces, which `cp()` shares and `deep()` copies; two
  workspaces of one name must be told apart, and one Parameter drives variables
  in several.
* **Freeze and unfreeze, mask and unmask.**  To try the choices of a discrete
  nuisance, the minimizer freezes parameters and hides parts of the likelihood,
  and must leave no trace in what it returns.
* **Searches on noisy answers.**  Binnings and limits are found by loops that
  stop when a test says so, on numbers that are zero, negative, uncertain, or
  failed.

`PROJECT.json` ("hazards") lists these one by one, with the line at which each
bites and the property that covers it, or the reason why none does.  Beside
those, a few were met that no run is about:

* the inner loop over a combination of indices goes on after a dropped index
  without counting it, and reads the flags of the wrong category
  (`CascadeMinimizer.cc:588`); the combination is skipped all the same;
* `setChannelMasks` registers no server, so a cached value survives a change of
  a mask (`CachingNLL.cc:1213`), and the copy constructor (line 843) copies the
  masks but not the parameters known; masks are set before the first evaluation
  and copies made between calls;
* the entry `AddSystVar` makes has no mass, so that cards for one mass and the
  wildcard leave it out (`CombineHarvester_Creation.cc:139`);
* `VariableRebin` and `ZeroBins` through a view with some of the systematics of a
  process leave the others with the binning of before
  (`CombineHarvester_Evaluate.cc:983`);
* in the name of a nuisance `$BIN` is replaced before `$BINID`, so that a pattern
  with `$BINID` gets the name of the bin and "ID" (`BinByBin.cc:172` and 173);
* calls with their own source as target grow the vector they iterate over
  (`CombineHarvester.h:655`); `Harvester` has the step and ends there;
* condor would retry failed jobs (`CombineToolBase.py:37`), but no batch job is
  ever submitted (section 5); the `hadd` that makes a grid file and the command
  that reads it are in one queue (`LimitGrids.py:663`); a file is checked and
  archived in two steps (`LimitGrids.py:468`).

## 2. Modules

| Module | What it is |
|---|---|
| `Harvester` | containers, copies, filters, creation, cloning, renaming, freezing, updates and sampling evaluations, for any number of instances |
| `HarvesterProofs` | theorems about `Harvester` |
| `Workspaces` | the workspaces an instance owns, the pointers into them, and what `deep()` and `Destroy` do to both |
| `WorkspacesProofs` | theorems about `Workspaces` |
| `CardWriter` | `CardWriter::WriteCards` over repeated, possibly failing, calls |
| `CardWriterProofs` | theorems about `CardWriter` |
| `Datacard` | `WriteDatacard` and `ParseDatacard`: the cards of one instance, their root file, and what they read back to |
| `DatacardProofs` | theorems about `Datacard` |
| `ShapeTools` | `VariableRebin`, `ZeroBins`, `AutoRebin` and `BinByBinFactory` on the histograms of one analysis bin |
| `ShapeToolsProofs` | theorems about `ShapeTools` |
| `ToyGrid` | the abstract specification: what a grid of toys promises its user |
| `HybridGrid` | `HybridNewGrid` invocations, the job queue and the combine processes, with failures and kills; it implements `ToyGrid` |
| `HybridGridProofs` | theorems about `HybridGrid`, among them the refinement |
| `LimitSearch` | `HybridNew::runLimit`, the search for a limit |
| `LimitSearchProofs` | theorems about `LimitSearch` |
| `DiscreteFit` | `CascadeMinimizer::minimize` with discrete nuisances, masks and frozen parameters |
| `DiscreteFitProofs` | theorems about `DiscreteFit` |
| `MCHarvester`, `MCWorkspaces`, `MCCardWriter`, `MCDatacard`, `MCShapeTools`, `MCHybridGrid`, `MCLimitSearch`, `MCDiscreteFit` | bounds, instances, symmetry and views for TLC |

### Harvester

`procs`, `systs`, `params` are the containers of each instance; `pname`,
`pval`, `pfrozen`, `sname`, `sproc` are the fields of the heap cells the shared
pointers lead to.  `cp` copies the containers, `deep` clones every cell, and a
call on a filtered temporary such as `cb.cp().process(Q).AddSyst(target, ..)` is
one action `Op(i, Q, j, ..)`.  `fam` is a history variable: the instance whose
`deep()` began a lineage.  `ub` records that an iterator into a reallocated
vector was used; nothing is called after it.  Abstracted: the metadata of an
object is one tag (its process), selected by the `process` filter; the other
filters select on other properties in the same way.  Numerical results are left
out, what evaluations do to parameter values is not.

`Careful = TRUE` describes a client that renames a Parameter only through its
one holder, renames Systematics only when no other instance holds them, and
clones onto names that have a Parameter.  `KeyIsName`, `SystsHaveParams` and
`EvaluationRestores` hold for such a client only: with `Careful = FALSE` TLC
finds, for instance, that a rename through one of two instances that share a
Parameter makes the other's evaluation leave a sampled value behind, because the
backup is taken by name and put back by key.  The other properties are proved
for any client (section 4).

### Workspaces

A family is an instance with its shallow copies, of which one at a time is kept
(`view`).  `main[f].store` is `wspaces_`, by name and number; `obj`, `syst` and
`par` hold the pointers of processes, a systematic and parameters into
workspaces; `ws` is the heap of RooWorkspaces with the values of their
variables.  `Setups` is `SetupWorkspace`: a workspace is recycled by its UUID,
another one of the same name gets the number after the largest in use.
`ParseCard` and `Extract` link pdfs, normalisations and variables
(`ImportParameters`); `RateParam`, `SetVal`, `SetParInWs` and `GetUncertainty`
write values; `set_val` (`Valued` for the Parameter, `Driven` for its variables) passes over
frozen Parameters (`SetFrozen`, `Settable`); `Deep` and `DeepOfView` copy the workspaces and look every pointer
up in the copies, or throw; `Destroy` lets an instance go.  `late` remembers
which parameters had a variable linked whose value was another, or set alone (the
code does not bring the two together), until a `set_val` or an evaluation does.  For a
frozen Parameter none does: `RateParam` links a variable to it that stays at the 0
it was made with (`CombineHarvester.cc:804`, `839`), and the pair stays in `late`, in deep
copies too, until the Parameter is released and set.  A systematic's pdfs are those `deep()` does not
remap (`Systematic.cc:54`): the copy's pointer stays with the original.
Left out: formulas, data sets, and the numbers pdfs return; all pdfs depend on
one parameter.

### ShapeTools

A binning is a set of edges and a histogram a function of its bins with integer
contents; squared errors are fractions.  `VariableRebin` and `ZeroBins` go
through processes and systematics in the order of the code (`Apply`): the rate of
a process is reset before its systematics are scaled.  `AutoRebin` is a search,
one action per call of `FindNewBinning` (`SearchOn`), ended by `EndSearch`, which
applies the binning; `SimplePass` is mode 0, `WorstPass` modes 1 and 2.
`MergeBinErrors` visits contributions by error and, where errors are equal, by
address, which is any order (`Merge`); `MergeAndAdd` then makes the nuisances.
Left out: Poisson errors, histograms without squared errors, and the up and down
histograms of the new nuisances.

`first`, `zeroed` and `lost` are history variables.  A template whose sum is not
positive is `lost`: it stays unnormalised and is scaled by the rate all the same
(`Process.cc:102`), and `TemplatesKept`, `ErrorsMoved` and `Covered` are not about
it.  `Covered` also leaves out processes `AddBinByBin` skips (`BinByBin.cc:124`).
`Rebinned` names the cases in which a search ends with bins that fail: one bin
is left, or the peak fails.  `AutoRebin.h:47` says that the search goes on until
no bin fails.

### HybridGrid and ToyGrid

The disk (`local`, `archive`, `stat`, `torn`), the driver (`pc`, `args`, its
ZipFile, loops, dictionaries and queue) and the combine processes (`jobs`).  One
invocation is `Start`, `Collect` per local file, `CloseZip`, `Assess` per point,
`Execute` per command a pool worker takes, `FlushReturns`, `TruncateStatus`,
`WriteStatus`; `StartRaises`, `AssessRaises` and `FlushRaises` are the
exceptions that end it, `Kill` a signal the interpreter cannot handle.  A
process creates its file and later closes it with a result, closes it without
one, leaves it unclosed, or ends before it creates one.  Toys are counted in
units of `toys_per_cycle`; `Signif` says for which numbers of units a point's
contours pass the significance criterion.  Whether a zip file and a status file
are configured is chosen in `Init`.  Drivers run one at a time.

`ToyGrid` has two variables, the files with toys and those commissioned and not
delivered, and three steps: a batch of new seeds is ordered for a point that
needs it, a file is delivered, or something is withdrawn.  `HybridGrid` maps its
results to the first and its queue and processes to the second
(`ImplementsToyGrid`).

### CardWriter

A file name is a function from the placeholders of its pattern to values, so
that `Compile` and the replacement of `$MASS` are what they are in the code:
substitutions.  `f_map` and `d_map` are `Keys` and `Maps`.  The root file of a
key is opened (and emptied) by `OpenRoot`, its cards are written by
`WriteDatacard` or fail in `Throw`, and `CloseRoot` ends the loop body.  A call
may follow a failed one with any other instance and tag; `rootfile` and
`textfile` stay on disk.  The loops visit their keys in any order, of which the
order of `std::map` is one.  `Maps` is a set because, where only wildcard
objects bring a key, the first of them in the vector decides.
`PatternsAssumption` (the root pattern uses no placeholder that the text pattern
lacks) holds for the examples of `CardWriter.h`; without it a card is written
once per root file, see the hazards.

### Datacard

`cb` is the client's instance, chosen in `Init`.  `WriteDatacard(F, open)`
filters it by masses into `cmb` and goes through the phases of the code: shape
rules, observations, process histograms, the loop that numbers processes, rate
and "param" lines, one nuisance at a time, the rest.  `root` is the root file
(from paths to the object a histogram came from), `text` the cards as sequences
of lines, `complete` the cards whose call returned.  A call that throws leaves
its half-written card and its histograms behind.  `ParseDatacard(F, m)` takes a
complete card line by line into `read`, the same instance for all cards; `base`
is what it held before.  A histogram is the identity of its object, so that
`ProcessesReadBack` and `NuisancesReadBack` see a histogram that another object
wrote; a path is a sequence of parts, so that `S` at mass 120 and a process
called `S120` collide as they do in the code.

What reads back is stated for cards that can express their instance
(`Expressible`, `OnePath`, evaluated on what the client wrote, not on the card):
every exception to it is a case in which the format or `FillHistMappings` loses
something, for instance a background whose templates depend on the mass, a
signal shape without a numeric mass in a bin without shapes, a nuisance with two
incompatible types, a number and a shape of one nuisance on one process (one word
of the line stands for both), a number that carries templates, templates at the
path where the reader looks for those of a number in a "shape?" line, or errors
of a Parameter that were set by hand.  Those cases
are in the instances of `MCDatacard` too (`Odd`, `Structures`): they must not make a systematic
without a Parameter (`ReadSystsHaveParams`) or mix up ids (`ProcessIdsSound`).
The lines after the rate line of a card without processes are not read at all,
so that its "param" entries do not come back.
`WrittenCardsParse` is about instances without a frozen rateParam: the line
"nuisance edit freeze x" has as many words as the line of a nuisance in a card
with two columns, and is taken for one there, so that the parser throws.

Left out: RooFit objects and workspaces, formulas and `extArg` lines, `shapeN2`,
post lines, observation lines without a bin, numbers, and the metadata that the
caller of `ParseDatacard` supplies other than the mass.  The Up and Down
histograms of a systematic are one.  `SetGroup` takes its patterns as names,
which they are for names without special characters.

### LimitSearch

The p-value falls with the signal strength r and crosses its target between the
steps `c` and `c + 1`.  What an evaluation gives (`Estimates`) is the side of the
target it is on when it is two errors off, `near` when it is not, one or zero
without an error, or a failure.  A p-value less than `Blur` steps from the
crossing is near the target or failed; one that is up to `Haze` steps off may be near and need
not be three errors off; farther out it is on its side.  Positions are whole
steps of r, errors are counted in half steps, because half an interval is one.

`pc` follows `runLimit`: `Upper` doubles the maximum until its p-value is below the
target, `LowerAtZero`, `Lower` and `LowerNegative` do likewise for the minimum, `Bisect` takes a
point in between, by bisection or by the interpolation of logSecant, and drops the
end on the same side; a point near the target ends that, and `ShrinkMin` and
`ShrinkMax` move the ends half way to it as long as they can be told from the
target; `Fit` takes the crossing of a fit in the range that is left, or what it
had.  With a grid, `Scan` visits its points and `Scanned` judges them.  `rlo` is
the minimum of r: `RooRealVar::setVal` moves a value below it to it, and `clipped`
remembers that this happened.

`Accurate` leaves out searches that were below the minimum.  With a hint (`-H`)
this is no corner: the minimum is raised to 0.3 times the hint, and when the limit is below
that, a CLs search goes on at zero and takes the p-value of the raised minimum for
that of every smaller value, until the interval has shrunk to zero
(run `limit_hint`).

Left out: what is behind a p-value (toys, the adaptive loop, quantiles), lower
limits, significances, Feldman-Cousins intervals, and the files and plots a
search may leave.  The nine fits of the last part are one action, which takes
any outcome they can have.

### DiscreteFit

A likelihood is a table of integers: a term per channel, for the values of its
parameters and the indices of its categories, and a penalty for the constraints.
A fit ends with a minimum of what the likelihood *shows*, over the parameters the
minimizer *knows* (`list`) that are not constant, or fails and stops anywhere.  What is
shown is without masked channels and constraints, and with the offset that makes
up for them (`MaskedOffset`).  The actions follow `minimize`: `PreFit`, `First`, then
either `Iterate` (freeze all that belongs to no category), the combinations, and
`FullFit`, repeated until nothing is gained, or all combinations in three modes and
`LastFit`.  `FitCombination` is the body of the loop in `multipleMinimize`, with the
masks of mode 2, `SkipCombination` a combination with a dropped index.
`Call` is a point of a scan: it sets and holds parameters.

`Sensible` are the options as the documentation uses them: channels and
constraints are masked only where the parameters they depend on are frozen.  Of
the others, two fail: with `--cminRunAllDiscreteCombinations` nuisances float
while terms that depend on them are masked, and the offset does not cancel
(`LeftAsFound`); with `MINIMIZER_no_analytic` and masked channels but no hidden
constants, the last fit knows the parameters of unmasked channels only (`Settled`).

A term of the likelihood sees the parameters of the pdfs that are chosen only (`Seen`).
With equal minima the last fit may end at another one than the combinations were tried from:
`Settled` then says of one of the minima, not of the one returned, that no other
index is better from there.  (Read of the one returned it is false: a category
may do better from another minimum of the same value, which nobody looks at.)

## 3. What the runs check

| Run | Result | Shows |
|---|---|---|
| `harvester` | pass | Under a careful client: `KeyIsName`, `SystsHaveParams` (no "Parameter not found"), `EvaluationRestores`, `FrozenHolds`, `DeepCopiesIndependent` (what `deep()` separates stays separate, also when one copy is the target of a call on the other) |
| `workspaces` | pass | `LinksOwn` (pointers stay inside the owner, one name for each workspace), `DeepWorks` (why a deep copy can throw), `Synced` (variables follow their Parameter, frozen or not, except after a link to another value or a variable set alone: those stay apart until a `set_val` of the Parameter while it is not frozen), `DeepIndependent` (a deep copy is a twin, and later calls on one move nothing in the other) |
| `workspaces_norm` | violation | A card whose shapes line has a pattern for systematics loses the normalisation functions of its pdfs |
| `cards` | pass | `CardsComplete`, `NoStrangers`, `ShapesPresent`: the card named after an object with a mass of its own holds it and every wildcard object that goes with it, no card holds an object of another bin, channel or mass, and cards find their shapes and no stale ones; two calls, any card failing, root files shared by all masses or per mass and tag.  A card that only wildcard objects bring is outside `CardsComplete`: it gets the objects of the first wildcard only |
| `datacards` | pass | What a card can express reads back as it was: processes, data, nuisances, rateParams, groups (`ProcessesReadBack`, `NuisancesReadBack`); ids are sound; written cards parse; cards of several masses in one root file, any of them throwing, parsed at any time into one instance |
| `shape_tools` | pass | `TemplatesKept` (predictions are the sums of what they were), `Rebinned` (a binning that was found passes), `ErrorsMoved` (the squares of merged errors add up), `Covered` (what was merged gets its nuisances) |
| `hybrid_safety` | pass | `NewSeeds`, `StatusHonest`, `NoOverrun`, `ResultsKept` and `ImplementsToyGrid` over any sequence of invocations with failing jobs, exceptions, all queue modes and kills while points are assessed or the status is saved |
| `hybrid_progress` | pass | Under fairness, repeated invocations complete every point |
| `limit_search` | pass | `Accurate`: a search that stopped for its small error is that close to the crossing, any other has a range that reaches the crossing; `Ends`: every search ends, also with failing p-values |
| `limit_hint` | violation | A hint above three times the limit makes the search converge to zero |
| `discrete_fit` | pass | `ConstantsKept`, `LeftAsFound` (what is frozen or masked on the way is floating and visible again, whatever fit fails), `Settled` (the result is a minimum, and no other index that was tried does better, from it or from a minimum of the same value) |
| `discrete_scan` | violation | A scan over a parameter of a pdf in the envelope, with disassociated parameters frozen: the parameter held at the point is set floating and fitted |

A violation run states what a comment or document of the repository says, and
shows an execution of the code that contradicts it; `PROJECT.json` ("findings")
quotes both sides.  Where a passing property has a condition, the case it leaves
out is in this text or in the note of its hazard.  Four of those, each of which
TLC finds as a violation when the condition is taken away:

* A result file without a result (outcome `empty`) stops a grid for good:
  `LimitGrids.py:208` indexes an empty list in every later invocation.  The run
  `hybrid_progress` leaves that outcome out, `hybrid_safety` does not.
* `--output` raises on points whose status entry has no contours
  (`AssessRaises`), so that `Progress` assumes invocations without it.
* A kill between `os.remove` and `zipf.close()` loses results: the archive has no
  directory yet.  `KillIn` leaves that phase out.
* A driver killed while it waits leaves processes behind whose seeds the next
  invocation gives away, if they have no file yet.  `KillIn` leaves that out too.

### Bounds

* `Harvester`: the root and one more instance, two names (the smallest map with an order),
  one process plus the processless entries of "param" lines, two values, two
  Parameter cells and three Systematic cells.  Every property relates two
  instances and two keys.  Cells no live instance points to are out of the
  view, because they are rewritten before they are read; the symmetry is over
  heap cells and the instances other than the root.  The heap can be
  exhausted and a vector overrun, so a state may have no step left.
* `Workspaces`: an instance and a deep copy, two workspaces of one name (the
  smallest case in which a name needs a number), two processes, one parameter
  that is also a rateParam, three values (0 is that of a new rateParam variable).  `MaxCalls = 3` counts the calls that change values or names
  and, once there is a deep copy, all calls; building up an instance is not
  counted, and is finite because names are (`MaxName`).
* `HybridGrid`: two points (one that converges, one that needs `MaxToys`), six
  seeds, `MinToys` 2, `MaxToys` 3, up to two cycles per run, a pool of two, one
  failing process and one kill.  Six seeds are enough for every point to pass
  `MaxToys` with one failure and a last batch of two cycles; `new \subseteq
  Files` in `Assess` cuts what would go beyond.
* `CardWriter`: two bins, two tags, two masses, one or two wildcards, two kinds
  of patterns, instances of at most three objects, two calls.  Three objects are
  enough for a fixed object, a wildcard object and a stranger; a second call is
  what can meet files of an earlier one.
* `Datacard`: two masses, two cards per root file, two bins, two names of
  processes (one of which is the other and a mass), and 2098 instances: every
  choice of two or three columns, and a signal at two masses with a background
  in two bins under every choice of types for one nuisance, with other
  nuisances, "param" entries and rateParams.  Two cards are what it takes to meet
  the histograms and Parameters of another card; two columns are where the
  freeze line is misread.
* `ShapeTools`: a signal and two backgrounds in four bins, with a falling, a
  peaked and a partly negative template (four combinations), empty bins, equal errors and bins
  without an error; twelve settings of `AutoRebin` and eight of
  `BinByBinFactory`; two calls, so that every tool meets what every other has
  left.  Four bins let a worst bin have neighbours on both sides of it and of the
  peak.
* `LimitSearch`: crossings at -2, 0, 3, 6 and 11 with maxima of 8 and 20 and a
  hint of 24 (minimum 7): inside the first interval, above it, at zero, below it
  and below the hinted minimum; `Haze = 2` against intervals of 8 to 24, one
  failing p-value, two grids of which one reaches below zero.  p-values that are
  near the target can be had any number of times.
* `DiscreteFit`: two categories of two pdfs in two channels and a third channel
  without a category that a nuisance ties to the first, values 0 and 1, six
  likelihoods, forty combinations of options, two calls, one failing fit.  Two
  categories are what it takes for combinations, masks of single channels and
  a minimum that only two indices together reach.

Programs and calls end, so `CHECK_DEADLOCK` is off where nothing need follow.

### Fairness

`HybridGrid!Fairness`: the driver and each process that can step eventually do
(weak fairness: nothing in the code waits for anything but them), and the user
keeps invoking the driver with `--cycles` above zero, without `--output` and not
as a dry run (strong fairness on `Start`: the invocation need not be enabled
all the time, since a run is in progress in between).  The last is what
`docs/HybridNewGrid.md` tells the user to do: the command "can be repeatedly
invoked until a sufficient number of points have met the chosen criteria".
Failures are bounded by `MaxFails`; without a bound, nothing can be promised.

`LimitSearch!FairSpec` has weak fairness of the whole next-state relation: the
search is one sequential program. That its p-values return is assumed: the
adaptive loop behind them (`HybridNew.cc:1115`) has no largest number of
iterations, it ends because the error it waits for falls with the number of toys.

## 4. What is proved

All for every value of the constants, under the named assumptions of the
modules.

* `HarvesterProofs`: `TypeCorrect`; `KeysAreNames` and `EvaluationsRestore`, for
  a careful client.  `KeyIsName` alone is inductive once types are known: a
  rename by the only holder moves the key and the name together, `deep()`
  copies both, and creation makes both equal.  An evaluation then restores each
  Parameter because the backup, taken by name, has exactly the keys of the map.
  `FrozenValuesHold`, `FamiliesStayDisjoint`,
  `DeepCopiesAreIndependent` for any client, and `SystematicsHaveParameters` for
  a careful one.  The argument is one lemma per call saying which cells it
  writes and which it adds to whose containers; a call writes cells of one
  instance and adds only fresh ones, so families stay apart.
* `HybridGridProofs`: `TypeCorrect`; `SeedsAreNew` and `NoResultLost` under
  `KilledWhenCalm` (the driver is not killed while it fills the archive or
  waits for processes; section 3 says what happens otherwise).  `NewSeeds` is not inductive.
  The invariant `SeedInv` adds that outside an invocation the driver's archive
  and the one on disk agree (`ZipNamed`, `ZipGrows`, `ZipClosed`), that the
  queue is filled only after the scan and jobs run only during the flush
  (`QueuePhase`, `JobsPhase`), and that during the assessment every file is in
  `file_dict` (`DictCovers`), which is what makes `max(done_cycles) + 1` a seed
  nobody has.
  `StatusIsHonest`, `GridRefined` and `NeverOverrun`, under
  the same condition.  `GridInv` adds to `SeedInv` where files are (in the
  directory or in the archive, and where the dictionary says: `PlaceInv`) and
  that entries of the status file count results in files nobody will write
  again (`Settled`, `AllHonest`).  From it follows that the verdict on a point is
  right about the results there are, which is the guard of `ToyGrid`'s
  `Commission`; every other step delivers, withdraws or stutters.  `NeverOverrun`
  counts the files a point has or has been promised: a batch is ordered below
  `MaxToys` only, with nothing pending for that point.
* `CardWriterProofs`: `WriterTypes` and `CardsFindShapes`.  `ShapesPresent` needs the
  position of the call: the root file of a card already written is not among the keys still
  to be opened (`Visited`), and the one that is open is on disk (`Open`).
  `WriterLosesNothing` and `WriterMixesNothing`: `CompleteInv`
  follows each object with a mass of its own: its root file is still to be opened, or is
  open and its card still to be written, or its card is written with all that matches;
  a written card is not written again, because the name of a card contains the name of its root
  file, which is where `PatternsAssumption` is used.
* `DatacardProofs`: `CardTypes`; `IdsCorrect` (`ProcessIdsSound`), `SystematicsAreParametrised`
  (`ReadSystsHaveParams`), `ProcessesAreReadBack` (`ProcessesReadBack`), `CardsParse` and
  `NuisancesAreReadBack`: all properties of the run `datacards`, for every instance, any number of
  cards of it in one root file, and any of them throwing.  For the ids, the
  invariant says how far the loop has come from both ends (`Passed`) and that
  the ids given lie strictly between the next two (`Between`), so the next is
  new and the two ranges never meet, which keeps ids of their own for processes
  (`Own`).  `CardsInv` says where the lines of a card are: the rate line tells signals
  from backgrounds by those ids, and what comes after it is never a head line again.
  `RootInv` says that every histogram in the root file lies at a path its object may have and is that
  object's; by `OnePath` there is then no other at the path a column is read from, whichever
  cards were written, finished or not.  Which rule the reader finds for a column is
  `ColumnRule` (and `DataRule`): of a card that can express its instance, each column has exactly one,
  and it is the same under the mass the client gives to `ParseDatacard`.  `ColumnsInv` puts
  these together: at line `i`, what was read since `base` is nothing or all the columns.
  A line read in part has thrown, so that `parsed` is not reached.
  `CardsParse` (`WrittenCardsParse`) needs to know that the histograms are there: `HistsInv` follows
  the call through its phases, each of which stores what it is for or finds nothing to store, and
  says that a finished card has all its histograms in the root file, where they stay.
  `LinesInv` says which lines a finished card has, and in which order (`First`).  Then no entry of
  a line throws (`EntryRead`): the line has the type of its entries or is "shape?" (`LineType`), and
  what is found at the path of a shape is its own (`ShapesOfEntry`), at that of a number nothing.
  `NuisancesAreReadBack` (`NuisancesReadBack`) adds what the systematics read since `base` are, line by line
  (`EntriesInv`), and that the errors of a Parameter are those it had or a rateParam line that
  takes them away is still to come (`ParamsInv`): of a parameter with both kinds of lines the "param" line,
  which is first, gives it errors.  One rateParam line for all bins stands for
  one in each, because the bins that have it are among the bins of the process and as many (`StarBins`).
  The theorems rest on `InputsAssumption` (the containers are sequences of typed objects, every
  systematic has a Parameter) and `NamesAssumption` (no process is called `*` or `data_obs`, no bin
  of a systematic `*`).  Attempts to prove these two showed that `Expressible` and `OnePath` missed
  the last cases of section 2, which TLC then confirmed on the instances `Odd`.
* `LimitSearchProofs`: `LimitTypes` and `LimitAccurate`, for every range, hint, grid,
  accuracy, width of the two zones and number of failures.  `SearchInv` adds that the
  ends of the interval are in order and hold the limit (`Ordered`), that the p-values at
  the ends are on opposite sides of the target while bisecting (`Sides`), how far a scan has come
  (`Scanned1`), and the bracket: the crossing is in the interval, or within `Haze` of a
  limit that is near the target (`Bracket`).  The step of `Bisect` is the heart of it: the
  p-value that takes the place of an end is on the side of that end.

* `WorkspacesProofs`: all properties of the run `workspaces`, for any workspaces, parameters
  and number of families.  Pointers stay among an instance's own workspaces (`LinksOwn`)
  only because families own different ones (`Apart`), and because a view kept
  beside an instance is older than it, never different (`ViewInv`): what a call through the view
  finds or numbers is still there in the instance.  Every call on a family is shown to
  be one kind of step (`OwnStep`): it adds new workspaces under free names, writes to the
  family's own and leaves the others as they are, from which the invariant and
  `DeepIndependent` follow once for all of them; `deep()` and `Destroy` are the other kinds.
  `Synced` needs no more than that a workspace from a source has a value for its
  parameter (`ParSet`); what `set_val` does to Parameters and variables, frozen or not, are the
  lemmas `ValuedStep`, `DrivenStep` and `SetAgree`.  It rests on `SourcesAssumption`,
  `ValsAssumption` (0 is a value), `BoundsAssumption` and `NoneAssumption`.
* `DiscreteFitProofs`: `Types`, `ScansHold` (`ConstantsKept`), `CallsLeaveNothing`
  (`LeftAsFound`) and `MinimaSettle` (`Settled`): all properties of the run
  `discrete_fit`, for every likelihood and every set of options.  `ScansHold` needs
  `FixedApart`, that a call holds no parameter of a pdf: the run `discrete_scan` shows
  what happens otherwise.  `Holding` says that nothing the call freezes for a while is
  among what it found constant, so that setting it floating again cannot
  release that, and that every point kept for later (`clean`, `best`) agrees on it.
  `CallsLeaveNothing` needs `Maskable` too, which says of the options what
  `Sensible` checks (section 2): what is masked depends on nothing that floats.  `Layers` says that
  all that is constant is so because the call found it so or froze it and remembers that,
  and that the offset is what the masks hide (`Hidden`).  That no fit changes
  this is a lemma about sums of terms over channels: those that are masked depend on the
  parameters that are constant.
  `MinimaSettle` needs `Separate` as well: parameters of pdfs are theirs alone where those of
  inactive pdfs are frozen, none is a parameter of interest, and `MINIMIZER_no_analytic` is
  not set where channels are masked; section 2 says what happens when it is.
  `Unpinned` says that the parameters of pdfs float whenever a fit needs them,
  `Known` that the minimizer knows all parameters unless channels are masked, so a fit with
  nothing masked is a minimum of the whole (`FitAll`).  `Searching` follows the search: a scan
  starts at a minimum, and as long as it finds nothing better, its starting point is
  least for each combination tried (`Kept`).  A combination fits with other channels masked;
  that it loses nothing by it (`ScanFit`) is the heart of the proof: the category that
  changes is the last that differs from the combination before (`ScansTheChanged`), so what is masked has
  the indices it started with, shares no parameter that floats with what is shown, and
  cannot be improved by itself (`HiddenLeast`).  When the last fit then gains nothing, the value is that of
  the starting point (`SoundFullFit`); with all combinations it is below each that was tried (`LongScan`).
  The minimum of a fit exists because there are finitely many values (`ValuesAssumption`).
* `ShapeToolsProofs`: all properties of the run `shape_tools`: `ToolTypes`, `TemplatesAreKept` (`TemplatesKept`),
  `SearchesSettle` (`Rebinned`), `NuisancesCover` (`Covered`) and `ErrorsOnlyMove` (`ErrorsMoved`),
  for any processes, templates, binnings and settings.  It starts with what folds over finite sets
  come to (a fold does not depend on an order it may choose, `IterUnique`), since sums of contents and
  errors and the loop over sorted errors (`RemovalSound`) are all of them folds.
  That a merged error is a fraction with a positive denominator needs that what has been
  removed stays below the threshold, so below the total it is divided by, and that a threshold
  is at most one (`SettingsAssumption`).  `Kept` is what `TemplatesKept` needs to be inductive: the
  rate is the sum of the template, the values of a systematic are the ratios of its templates to that
  rate, and every bin holds the sum over the parts that were not zeroed, which rebinning
  composes (`GroupedKept`).  For `SearchesSettle`, a pass of modes 1 and 2 that changes
  nothing has met no failing bin or the peak (`FailingStays`), and when the bin with the largest error does not
  fail none does (`MostUncertainBounds`).  The last two are about sums of fractions, which are
  a commutative monoid exactly and not only up to `Same` (`PlusMonoid`), so that a sum splits into what is
  removed and the rest (`FractionsParts`).  What the loop over sorted errors has removed is the sum of the
  errors of those that are gone (`RemovalCounts`), and the rest grows by the total over the rest
  (`GrowthOfRest`, `MergeWith`).  `ErrorsOnlyMove` is not inductive without `Recorded`: `Above` looks at
  the shape scaled by the rate and so sees an error only if the rate is the sum of the template, or is negative
  and the template is not empty (`Sized`); and a bin whose parts were all zeroed has no
  error left that could be scaled (`Cleared`).

Only model-checked: liveness (`Progress`, `Ends`), which is out of TLAPS's reach.

## 5. What is not modelled

The numerical content of histograms, morphing and pdfs; formatting of datacards;
the fits and toys inside `combine`, its scans and its driver beyond what `HybridGrid` and
`DiscreteFit` use of them; `AsymptoticGrid` and `--from-asymptotic`; observations as entries of
their own; validation (checks without state); the other methods of `combineTool.py`
(they generate commands and collect results); plotting; vendored code, which is most
of the lines of the repository; the Python binding, which forwards calls; the tables
of systematics (straight-line lists of calls); command-line programs (each one
order of calls, where `Harvester` allows every order); argument parsing.  The submission of batch jobs
is modelled as far as it runs: `create_job_script` and the condor branch use
`self.job_prefix`, which nothing sets, so every batch mode raises before it
submits (`FlushRaises`).

## 6. Plan

Done: `Harvester`, `HybridGrid` with `ToyGrid`, `CardWriter`, `Datacard`, `Workspaces`,
`ShapeTools`, `DiscreteFit`, `LimitSearch`, and the proofs of section 4.  Left:

1. `CardWriter` calling `Datacard`'s `WriteDatacard`.
2. Lower limits and the adaptive loop behind a p-value in `LimitSearch`.
3. The `--from-asymptotic` queue of `hadd` and `combine` commands.
4. Pure helpers: `GenerateCombinations`, `ValsFromRange`.
