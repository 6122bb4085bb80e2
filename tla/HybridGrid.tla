------------------------------ MODULE HybridGrid ------------------------------
(***************************************************************************)
(* combineTool.py -M HybridNewGrid: toy-based limits on a grid of points.  *)
(* Each invocation of the driver scans the zip archive and the directory   *)
(* for the files of earlier combine runs, moves the closed ones into the   *)
(* archive, decides for every point whether it has enough toys (from the   *)
(* status file where nothing changed), runs more combine jobs for those    *)
(* that do not, and saves the status file.  A file is known by its point   *)
(* and its random seed.  Toys are counted in units of toys_per_cycle.      *)
(*                                                                         *)
(* The actors are the driver, one at a time, and the combine processes of  *)
(* its pool.  A driver that is killed leaves its combine processes behind. *)
(***************************************************************************)
EXTENDS Integers, FiniteSets

CONSTANTS
  Points,            \* grid points
  MaxSeed,           \* bound on seeds
  MinToys, MaxToys,  \* min_toys, max_toys, in units of toys_per_cycle
  Signif,            \* <<p, n>>: with n units all contours of p pass signif
  MaxCycles,         \* bound on --cycles
  Parallel,          \* --parallel
  Modes,             \* subset of {"interactive", "dry", "script", "array"}
  Outcomes,          \* subset of {"result", "empty", "open", "nofile"}
  KillIn,            \* phases of the driver in which it may be killed
  MaxFails,          \* bound on combine runs that give no result
  MaxKills,          \* bound on kills
  Null

Seeds == 1..MaxSeed
Files == Points \X Seeds

ASSUME ToysAssumption ==
  /\ MinToys \in Nat \ {0} /\ MaxToys \in Nat /\ MinToys <= MaxToys
ASSUME BoundsAssumption ==
  /\ MaxSeed \in Nat /\ MaxCycles \in Nat \ {0} /\ Parallel \in Nat \ {0}
  /\ MaxFails \in Nat /\ MaxKills \in Nat
ASSUME OutcomesAssumption ==
  /\ Modes \subseteq {"interactive", "dry", "script", "array"}
  /\ Outcomes \subseteq {"result", "empty", "open", "nofile"}
ASSUME PointsAssumption == IsFiniteSet(Points) /\ Null \notin Points

VARIABLES
  zipname, statfile,     \* whether the json config names these files
  local,                 \* local[f]: the file f in the directory
  archive,               \* archive[f]: the member f of the zip file on disk
  stat, torn,            \* the status file on disk, and whether it is truncated
  pc, args,              \* phase and arguments of the driver
  zipf,                  \* the members of the open ZipFile object
  todo, left,            \* files and points its loops have still to visit
  dict,                  \* file_dict
  stats,                 \* stats
  queue,                 \* job_queue
  jobs,                  \* combine processes
  last,                  \* how the last run of the driver ended
  fails, kills           \* counters for MaxFails and MaxKills

disk == <<local, archive, stat, torn>>
driver == <<pc, args, zipf, todo, left, dict, stats, queue, last>>
vars == <<zipname, statfile, disk, driver, jobs, fails, kills>>

-----------------------------------------------------------------------------
FileStates == {"none", "open", "empty", "result"}   \* "open": not closed properly
NoFiles == [f \in Files |-> "none"]
NoStats == [p \in Points |-> Null]
Running == {j \in jobs : ~j.orphan}

\* TFileIsGood: closed without the need of recovery, whatever it holds.
TFileIsGood(state) == state \in {"empty", "result"}

\* The files of p the driver knows, each by its place and seed.
Known(p) == {s \in Seeds : dict[<<p, s>>] # "none"}
AllFiles(p) == {<<dict[<<p, s>>], s>> : s \in Known(p)}
Content(p, x) == IF x[1] = "zip" THEN archive[<<p, x[2]>>] ELSE local[<<p, x[2]>>]
GoodFiles(p) == {x \in AllFiles(p) : TFileIsGood(Content(p, x))}

\* The status-file logic: status_changed is FALSE, and the files merged.
StatusUnchanged(p) ==
  stats[p] # Null /\ stats[p].files \in {AllFiles(p), GoodFiles(p)}
Merged(p) ==
  IF stats[p] # Null /\ stats[p].files = AllFiles(p) THEN AllFiles(p) ELSE GoodFiles(p)

\* Mutant: the entry of an earlier run is used whatever files there are now.
PrecomputedAnyway(p) == stats[p] # Null /\ stats[p].ntoys > 0

Precomputed(p) == StatusUnchanged(p) /\ stats[p].ntoys > 0

\* Mutant: every merged file counts, also the ones without a HypoTestResult.
CombinedAll(p) == Cardinality(Merged(p))

\* GetCombinedHypoTest: toys of the HypoTestResults it finds.
Combined(p) == Cardinality({x \in Merged(p) : Content(p, x) = "result"})
ntoys(p) == IF Precomputed(p) THEN stats[p].ntoys ELSE Combined(p)

\* GetCombinedHypoTest indexes an empty list: files, and no result in them.
NoResults(p) == ~Precomputed(p) /\ Merged(p) # {} /\ Combined(p) = 0

\* ValidateHypoTest reaches the loop over the contours.
NeedsContours(p) ==
  /\ Precomputed(p) \/ Merged(p) # {}
  /\ args.output \/ (MinToys <= ntoys(p) /\ ntoys(p) < MaxToys)

\* A status entry saved by a run that skipped that loop has no contours.
NoContours(p) == Precomputed(p) /\ NeedsContours(p) /\ ~stats[p].contours

\* Mutant: the max_toys criterion is gone.
EnoughNoMax(p, n) == n >= MinToys /\ <<p, n>> \in Signif

\* ValidateHypoTest: the verdict for n units of toys.
Enough(p, n) == n >= MaxToys \/ (n >= MinToys /\ <<p, n>> \in Signif)

\* Mutant: the number of files stands for the last seed.
LastSeedByCount(p) == Cardinality(Known(p))

\* new_cycles: --cycles seeds from max(done_cycles) + 1 on.
LastSeed(p) ==
  IF Known(p) = {} THEN 0 ELSE CHOOSE m \in Known(p) : \A s \in Known(p) : s <= m
NewCycles(p) == LastSeed(p) + 1 .. LastSeed(p) + args.cycles

-----------------------------------------------------------------------------
(* The driver: run_method.                                                 *)

Init ==
  /\ zipname \in BOOLEAN /\ statfile \in BOOLEAN
  /\ local = NoFiles /\ archive = NoFiles /\ stat = NoStats /\ torn = FALSE
  /\ pc = "idle" /\ args = [cycles |-> 0, output |-> FALSE, mode |-> "dry"]
  /\ zipf = NoFiles /\ todo = {} /\ left = {} /\ dict = NoFiles
  /\ stats = NoStats /\ queue = {} /\ last = "ok"
  /\ jobs = {} /\ fails = 0 /\ kills = 0

Arguments == [cycles : 0..MaxCycles, output : BOOLEAN, mode : Modes]

\* The process is gone with all its memory.
Exit(how) ==
  /\ pc' = "idle" /\ last' = how
  /\ zipf' = archive' /\ todo' = {} /\ left' = {} /\ dict' = NoFiles
  /\ stats' = NoStats /\ queue' = {}

\* Load the status file, list the archive, glob the directory.
Start(a) ==
  /\ pc = "idle" /\ ~torn
  /\ pc' = "collect" /\ args' = a /\ last' = "running"
  /\ stats' = stat
  /\ dict' = [f \in Files |-> IF zipname /\ archive[f] # "none" THEN "zip" ELSE "none"]
  /\ todo' = {f \in Files : local[f] # "none"}
  /\ UNCHANGED <<zipname, statfile, disk, zipf, left, queue, jobs, fails, kills>>

\* json.load of an empty status file raises.
StartRaises(a) ==
  /\ pc = "idle" /\ torn
  /\ args' = a /\ last' = "raised"
  /\ UNCHANGED <<zipname, statfile, disk, pc, zipf, todo, left, dict, stats,
                 queue, jobs, fails, kills>>

\* Mutant: the local file is deleted whether or not it went into the archive.
CollectAndRemove(f) ==
  /\ pc = "collect" /\ f \in todo
  /\ todo' = todo \ {f}
  /\ dict' = [dict EXCEPT ![f] = "local"]
  /\ local' = [local EXCEPT ![f] = "none"]
  /\ UNCHANGED <<zipname, statfile, archive, stat, torn, pc, args, zipf, left, stats,
                 queue, last, jobs, fails, kills>>

\* A local file whose seed the archive has already is left alone.  A good one
\* goes into the archive and is removed, any other is used where it is.
Collect(f) ==
  /\ pc = "collect" /\ f \in todo
  /\ todo' = todo \ {f}
  /\ \/ /\ dict[f] # "none"
        /\ UNCHANGED <<dict, zipf, local>>
     \/ /\ dict[f] = "none" /\ zipname /\ TFileIsGood(local[f])
        /\ zipf' = [zipf EXCEPT ![f] = local[f]]
        /\ dict' = [dict EXCEPT ![f] = "zip"]
        /\ local' = [local EXCEPT ![f] = "none"]
     \/ /\ dict[f] = "none" /\ ~(zipname /\ TFileIsGood(local[f]))
        /\ dict' = [dict EXCEPT ![f] = "local"]
        /\ UNCHANGED <<zipf, local>>
  /\ UNCHANGED <<zipname, statfile, archive, stat, torn, pc, args, left, stats, queue,
                 last, jobs, fails, kills>>

\* zipf.close() writes the directory of the archive.
CloseZip ==
  /\ pc = "collect" /\ todo = {}
  /\ archive' = zipf
  /\ pc' = "assess" /\ left' = Points
  /\ UNCHANGED <<zipname, statfile, local, stat, torn, args, zipf, todo, dict, stats,
                 queue, last, jobs, fails, kills>>

\* One point of the main loop.  The verdict of a run that merges no file is
\* FALSE, with or without --output.
Assess(p) ==
  LET n == ntoys(p)
      ok == (Precomputed(p) \/ Merged(p) # {}) /\ Enough(p, n)
      new == IF ok THEN {} ELSE {p} \X NewCycles(p)
  IN /\ pc = "assess" /\ p \in left
     /\ ~NoResults(p) /\ ~NoContours(p)
     /\ new \subseteq Files
     /\ left' = left \ {p}
     /\ stats' = [stats EXCEPT ![p] =
          [files |-> Merged(p), ntoys |-> n, contours |-> NeedsContours(p)]]
     /\ queue' = queue \cup new
     /\ pc' = IF left = {p} THEN "flush" ELSE pc
     /\ UNCHANGED <<zipname, statfile, disk, args, zipf, todo, dict, last,
                    jobs, fails, kills>>

\* IndexError or KeyError: the run ends with no job started, nothing saved.
AssessRaises(p) ==
  /\ pc = "assess" /\ p \in left
  /\ NoResults(p) \/ NoContours(p)
  /\ UNCHANGED <<zipname, statfile, disk, args, jobs, fails, kills>>
  /\ Exit("raised")

\* flush_queue, interactive: a pool worker takes a command (chunks of one).
Execute(f) ==
  /\ pc = "flush" /\ args.mode = "interactive"
  /\ f \in queue /\ Cardinality(Running) < Parallel
  /\ queue' = queue \ {f}
  /\ jobs' = jobs \cup {[file |-> f, phase |-> "started", orphan |-> FALSE]}
  /\ UNCHANGED <<zipname, statfile, disk, pc, args, zipf, todo, left, dict, stats,
                 last, fails, kills>>

\* Mutant: flush_queue does not wait for the pool.
FlushReturnsAtOnce ==
  /\ pc = "flush"
  /\ \/ args.mode = "interactive" /\ queue = {}
     \/ args.mode = "dry"
     \/ args.mode = "script" /\ queue = {}
  /\ pc' = "save" /\ queue' = {}
  /\ UNCHANGED <<zipname, statfile, disk, args, zipf, todo, left, dict, stats,
                 last, jobs, fails, kills>>

\* pool.map returns when every command has; a dry run prints them; the batch
\* modes that write one script per slice have nothing to write.
FlushReturns ==
  /\ pc = "flush"
  /\ \/ args.mode = "interactive" /\ queue = {} /\ Running = {}
     \/ args.mode = "dry"
     \/ args.mode = "script" /\ queue = {}
  /\ pc' = "save" /\ queue' = {}
  /\ UNCHANGED <<zipname, statfile, disk, args, zipf, todo, left, dict, stats,
                 last, jobs, fails, kills>>

\* Every batch mode writes self.job_prefix, an attribute nothing sets.  slurm
\* and condor ("array") do so for an empty queue too.
FlushRaises ==
  /\ pc = "flush"
  /\ \/ args.mode = "script" /\ queue # {}
     \/ args.mode = "array"
  /\ UNCHANGED <<zipname, statfile, disk, args, jobs, fails, kills>>
  /\ Exit("raised")

\* open(statfile, 'w') truncates the file, the text is written after that.
TruncateStatus ==
  /\ pc = "save" /\ statfile
  /\ stat' = NoStats /\ torn' = TRUE /\ pc' = "write"
  /\ UNCHANGED <<zipname, statfile, local, archive, args, zipf, todo, left, dict,
                 stats, queue, last, jobs, fails, kills>>
WriteStatus ==
  /\ pc = "write"
  /\ stat' = stats /\ torn' = FALSE
  /\ UNCHANGED <<zipname, statfile, local, archive, args, jobs, fails, kills>>
  /\ Exit("ok")
EndWithoutStatus ==
  /\ pc = "save" /\ ~statfile
  /\ UNCHANGED <<zipname, statfile, disk, args, jobs, fails, kills>>
  /\ Exit("ok")

\* A kill the interpreter cannot handle.  The first member written to the zip
\* file has overwritten its directory: unless close() put a new one there, the
\* next run finds no directory and starts an empty archive.
Kill ==
  /\ pc \in KillIn /\ kills < MaxKills
  /\ kills' = kills + 1
  /\ archive' = IF zipf # archive THEN NoFiles ELSE archive
  /\ Exit("killed")
  /\ jobs' = {[j EXCEPT !.orphan = TRUE] : j \in jobs}
  /\ UNCHANGED <<zipname, statfile, local, stat, torn, args, fails>>

-----------------------------------------------------------------------------
(* combine -M HybridNew, one process per command.                          *)

\* The output file is created: a file of that name is replaced.
Create(j) ==
  /\ j \in jobs /\ j.phase = "started"
  /\ jobs' = (jobs \ {j}) \cup {[j EXCEPT !.phase = "writing"]}
  /\ local' = [local EXCEPT ![j.file] = "open"]
  /\ UNCHANGED <<zipname, statfile, archive, stat, torn, driver, fails, kills>>

\* Mutant: an outcome that leaves no file is recorded as one.
FinishAnyOutcome(j, o) ==
  /\ j \in jobs /\ j.phase = "writing"
  /\ o # "result" => fails < MaxFails
  /\ fails' = IF o = "result" THEN fails ELSE fails + 1
  /\ jobs' = jobs \ {j}
  /\ local' = IF local[j.file] = "open" THEN [local EXCEPT ![j.file] = o] ELSE local
  /\ UNCHANGED <<zipname, statfile, archive, stat, torn, driver, kills>>

\* The process ends: with a result, with a closed file and no result (the fit
\* failed) or leaving the file open (it crashed).  A file that has been
\* replaced or removed since is not touched.
Finish(j, o) ==
  /\ j \in jobs /\ j.phase = "writing"
  /\ o \in Outcomes \ {"nofile"}
  /\ o # "result" => fails < MaxFails
  /\ fails' = IF o = "result" THEN fails ELSE fails + 1
  /\ jobs' = jobs \ {j}
  /\ local' = IF local[j.file] = "open" THEN [local EXCEPT ![j.file] = o] ELSE local
  /\ UNCHANGED <<zipname, statfile, archive, stat, torn, driver, kills>>

\* It ends before it creates a file.  The exit code is not looked at.
Abort(j) ==
  /\ j \in jobs /\ j.phase = "started"
  /\ "nofile" \in Outcomes /\ fails < MaxFails
  /\ fails' = fails + 1
  /\ jobs' = jobs \ {j}
  /\ UNCHANGED <<zipname, statfile, disk, driver, kills>>

DriverStep ==
  \/ \E f \in Files : Collect(f) \/ Execute(f)
  \/ CloseZip
  \/ \E p \in Points : Assess(p) \/ AssessRaises(p)
  \/ FlushReturns \/ FlushRaises
  \/ TruncateStatus \/ WriteStatus \/ EndWithoutStatus
JobStep ==
  \E j \in jobs : Create(j) \/ Abort(j) \/ \E o \in Outcomes : Finish(j, o)
Next ==
  \/ \E a \in Arguments : Start(a) \/ StartRaises(a)
  \/ DriverStep \/ JobStep \/ Kill

Spec == Init /\ [][Next]_vars

\* The user invokes the driver again and again, also with --cycles > 0 and
\* without --output, and a process that is left alone runs to its end.
Fairness ==
  /\ WF_vars(DriverStep) /\ WF_vars(JobStep)
  /\ SF_vars(\E a \in Arguments : a.cycles > 0 /\ ~a.output /\ a.mode # "dry" /\ Start(a))
FairSpec == Spec /\ Fairness

-----------------------------------------------------------------------------
(* Properties.                                                             *)

Entry == [files : SUBSET ({"zip", "local"} \X Seeds), ntoys : Nat,
          contours : BOOLEAN]
TypeOK ==
  /\ zipname \in BOOLEAN /\ statfile \in BOOLEAN
  /\ local \in [Files -> FileStates] /\ archive \in [Files -> FileStates]
  /\ stat \in [Points -> Entry \cup {Null}] /\ torn \in BOOLEAN
  /\ pc \in {"idle", "collect", "assess", "flush", "save", "write"}
  /\ args \in Arguments \cup {[cycles |-> 0, output |-> FALSE, mode |-> "dry"]}
  /\ zipf \in [Files -> FileStates]
  /\ todo \subseteq Files /\ left \subseteq Points
  /\ dict \in [Files -> {"none", "zip", "local"}]
  /\ stats \in [Points -> Entry \cup {Null}]
  /\ queue \subseteq Files
  /\ jobs \subseteq [file : Files, phase : {"started", "writing"}, orphan : BOOLEAN]
  /\ last \in {"ok", "running", "raised", "killed"}
  /\ fails \in 0..MaxFails /\ kills \in 0..MaxKills

HasResult(f) == "result" \in {local[f], archive[f], zipf[f]}
Results == {f \in Files : HasResult(f)}
Complete(p) == Enough(p, Cardinality({f \in Results : f[1] = p}))

\* Toys that were paid for are kept: no run of the driver, whatever fails in
\* it, and no later job removes the last copy of a result (docs/HybridNewGrid.md:
\* "append these to the zip file before deleting the local version").
ResultsKept == [][Results \subseteq Results']_vars

\* "One cycle implies one run of combine with a new random seed": a command
\* waiting or started is for a seed that has no file and no other process.
NewSeeds ==
  /\ \A f \in queue : local[f] = "none" /\ archive[f] = "none" /\ \A j \in jobs : j.file # f
  /\ \A j, k \in jobs : j.file = k.file => j = k
  /\ \A j \in jobs : archive[j.file] = "none" /\ local[j.file] \in {"none", "open"}

\* The status file tells the truth: an entry counts the toys of the files it
\* lists, wherever those files are by now.
StatusHonest ==
  \A p \in Points : stat[p] # Null =>
    stat[p].ntoys = Cardinality({s \in Seeds : HasResult(<<p, s>>) /\
                                   \E x \in stat[p].files : x[2] = s})

\* "When this number of toys is reached do not run any more jobs": a point
\* never gets more than one batch of cycles beyond max_toys.
NoOverrun ==
  \A p \in Points : Cardinality({f \in Results : f[1] = p}) < MaxToys + MaxCycles

\* "Can be repeatedly invoked until a sufficient number of points have met the
\* chosen criteria".
Progress == \A p \in Points : <>Complete(p)

\* The driver, its files and its processes are the grid ToyGrid promises.  In
\* particular the verdict that orders more toys, which counts files by way of a
\* dictionary, the archive and the status file of earlier runs, is about the
\* toys that are there.
Abstract == INSTANCE ToyGrid WITH
  toys <- Results, pending <- queue \cup {j.file : j \in jobs},
  Sufficient <- {x \in Points \X (0..MaxSeed) : Enough(x[1], x[2])}
ImplementsToyGrid == Abstract!Spec
=============================================================================
