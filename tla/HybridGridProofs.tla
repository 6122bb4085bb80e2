--------------------------- MODULE HybridGridProofs ---------------------------
(***************************************************************************)
(* Proofs about HybridGrid.  As long as the driver is not killed while it  *)
(* fills the archive or waits for its jobs, a command never runs a seed    *)
(* twice and no result is lost, for every grid, number of seeds and cycles,*)
(* pool size and number of failures.                                       *)
(***************************************************************************)
EXTENDS HybridGrid, FiniteSetTheorems, FunctionTheorems, WellFoundedInduction, TLAPS

-----------------------------------------------------------------------------
(* The seeds of a point.                                                   *)

\* A non-empty set of seeds has a largest element.
LEMMA LargestSeed ==
  ASSUME NEW K \in SUBSET Seeds, K # {}
  PROVE  \E m \in K : \A s \in K : s <= m
<1> DEFINE T == {MaxSeed - s : s \in K}
<1>1. MaxSeed \in Nat
  BY BoundsAssumption
<1>2. T \subseteq Nat /\ T # {}
  <2>1. \A s \in K : MaxSeed - s \in Nat
    BY <1>1 DEF Seeds
  <2>2. PICK s \in K : TRUE
    OBVIOUS
  <2>3. MaxSeed - s \in T
    BY <2>2
  <2> QED  BY <2>1, <2>3
<1>3. PICK x \in T : \A y \in T : ~(<<y, x>> \in OpToRel(<, Nat))
  <2> HIDE DEF T
  <2> QED  BY <1>2, WFMin, NatLessThanWellFounded
<1>4. PICK m \in K : x = MaxSeed - m
  OBVIOUS
<1>5. ASSUME NEW s \in K  PROVE s <= m
  <2>1. MaxSeed - s \in T
    OBVIOUS
  <2>2. ~(MaxSeed - s < MaxSeed - m)
    BY <1>2, <1>3, <1>4, <2>1 DEF OpToRel
  <2> QED  BY <1>1, <2>2 DEF Seeds
<1> QED  BY <1>5

\* max(done_cycles) + 1 and what follows it are seeds without a known file.
LEMMA NewCyclesUnknown ==
  ASSUME NEW p \in Points, NEW s \in NewCycles(p), s \in Seeds, args.cycles \in Nat
  PROVE  dict[<<p, s>>] = "none"
<1> SUFFICES ASSUME s \in Known(p)  PROVE FALSE
  BY DEF Known
<1>1. Known(p) \in SUBSET Seeds /\ Known(p) # {}
  BY DEF Known
<1>2. LastSeed(p) \in Known(p) /\ \A t \in Known(p) : t <= LastSeed(p)
  <2>1. \E m \in Known(p) : \A t \in Known(p) : t <= m
    BY <1>1, LargestSeed
  <2> QED  BY <1>1, <2>1 DEF LastSeed
<1>3. LastSeed(p) \in Nat
  BY <1>1, <1>2, BoundsAssumption DEF Seeds
<1>4. s > LastSeed(p)
  BY <1>3 DEF NewCycles
<1> QED  BY <1>2, <1>3, <1>4, BoundsAssumption DEF Seeds

-----------------------------------------------------------------------------
(* Type correctness.                                                       *)

\* What one point's assessment stores has the type of a status entry.
LEMMA EntryType ==
  ASSUME TypeOK, NEW p \in Points
  PROVE  [files |-> Merged(p), ntoys |-> ntoys(p), contours |-> NeedsContours(p)] \in Entry
<1>1. AllFiles(p) \subseteq {"zip", "local"} \X Seeds
  <2>1. ASSUME NEW s \in Known(p)  PROVE <<dict[<<p, s>>], s>> \in {"zip", "local"} \X Seeds
    <3>1. s \in Seeds /\ dict[<<p, s>>] # "none" /\ <<p, s>> \in Files
      BY DEF Known, Files
    <3> QED  BY <3>1 DEF TypeOK
  <2> QED  BY <2>1 DEF AllFiles
<1>2. Merged(p) \subseteq {"zip", "local"} \X Seeds
  BY <1>1 DEF Merged, GoodFiles
<1>3. IsFiniteSet({"zip", "local"} \X Seeds)
  <2>1. IsFiniteSet({"zip", "local"})
    <3>1. {"zip", "local"} = {"zip"} \cup {"local"}
      OBVIOUS
    <3>2. IsFiniteSet({"zip"}) /\ IsFiniteSet({"local"})
      BY FS_Singleton
    <3>3. IsFiniteSet({"zip"} \cup {"local"})
      BY <3>2, FS_Union
    <3> QED  BY <3>1, <3>3
  <2>2. IsFiniteSet(Seeds)
    BY FS_Interval, BoundsAssumption DEF Seeds
  <2> QED  BY <2>1, <2>2, FS_Product
<1>4. Combined(p) \in Nat
  <2> DEFINE C == {x \in Merged(p) : Content(p, x) = "result"}
  <2>1. C \subseteq {"zip", "local"} \X Seeds
    BY <1>2
  <2> HIDE DEF C
  <2>2. Cardinality(C) \in Nat
    BY <1>3, <2>1, FS_Subset, FS_CardinalityType
  <2> QED  BY <2>2 DEF C, Combined
<1>5. Precomputed(p) => stats[p].ntoys \in Nat
  BY DEF Precomputed, StatusUnchanged, TypeOK, Entry
<1>6. ntoys(p) \in Nat
  BY <1>4, <1>5 DEF ntoys
<1>7. NeedsContours(p) \in BOOLEAN
  BY DEF NeedsContours
<1> QED  BY <1>2, <1>6, <1>7 DEF Entry

\* A driver that is gone leaves typed variables.
LEMMA ExitType ==
  ASSUME TypeOK, archive' \in [Files -> FileStates],
         NEW how \in {"ok", "raised", "killed"}, Exit(how)
  PROVE  /\ pc' = "idle" /\ last' \in {"ok", "running", "raised", "killed"}
         /\ zipf' \in [Files -> FileStates]
         /\ todo' \subseteq Files /\ left' \subseteq Points
         /\ dict' \in [Files -> {"none", "zip", "local"}]
         /\ stats' \in [Points -> Entry \cup {Null}]
         /\ queue' \subseteq Files
  BY DEF Exit, NoFiles, NoStats

\* The first run of the driver starts from typed variables.
LEMMA InitType == Init => TypeOK
<1> SUFFICES ASSUME Init  PROVE TypeOK
  OBVIOUS
<1>1. NoFiles \in [Files -> FileStates] /\ NoFiles \in [Files -> {"none", "zip", "local"}]
  BY DEF NoFiles, FileStates
<1>2. NoStats \in [Points -> Entry \cup {Null}]
  BY DEF NoStats
<1>3. 0 \in 0..MaxFails /\ 0 \in 0..MaxKills
  BY BoundsAssumption
<1> QED  BY <1>1, <1>2, <1>3 DEF Init, TypeOK

\* Every step of the driver, its jobs or a kill keeps the types.
LEMMA StepType == TypeOK /\ [Next]_vars => TypeOK'
<1> SUFFICES ASSUME TypeOK, [Next]_vars  PROVE TypeOK'
  OBVIOUS
<1>1. ASSUME NEW a \in Arguments, Start(a)  PROVE TypeOK'
  <2>1. dict' \in [Files -> {"none", "zip", "local"}]
    BY <1>1 DEF Start
  <2>2. todo' \subseteq Files /\ stats' \in [Points -> Entry \cup {Null}]
    BY <1>1 DEF Start, TypeOK
  <2>3. args' \in Arguments /\ last' = "running" /\ pc' = "collect"
    BY <1>1 DEF Start
  <2>4. UNCHANGED <<zipname, statfile, local, archive, stat, torn, zipf, left, queue, jobs, fails, kills>>
    BY <1>1 DEF Start, disk
  <2> QED  BY <2>1, <2>2, <2>3, <2>4 DEF TypeOK
<1>2. ASSUME NEW a \in Arguments, StartRaises(a)  PROVE TypeOK'
  BY <1>2 DEF StartRaises, TypeOK, disk
<1>3. ASSUME NEW f \in Files, Collect(f)  PROVE TypeOK'
  <2>1. local[f] \in FileStates /\ "none" \in FileStates
    BY DEF TypeOK, FileStates
  <2>2. zipf' \in [Files -> FileStates] /\ local' \in [Files -> FileStates]
        /\ dict' \in [Files -> {"none", "zip", "local"}]
    BY <1>3, <2>1 DEF Collect, TypeOK
  <2> QED  BY <1>3, <2>2 DEF Collect, TypeOK
<1>4. ASSUME NEW f \in Files, Execute(f)  PROVE TypeOK'
  <2>1. jobs' \subseteq [file : Files, phase : {"started", "writing"}, orphan : BOOLEAN]
    <3> DEFINE new == [file |-> f, phase |-> "started", orphan |-> FALSE]
    <3>1. new \in [file : Files, phase : {"started", "writing"}, orphan : BOOLEAN]
      OBVIOUS
    <3>2. jobs' = jobs \cup {new}
      BY <1>4 DEF Execute
    <3> HIDE DEF new
    <3> QED  BY <3>1, <3>2 DEF TypeOK
  <2>2. queue' \subseteq Files
    BY <1>4 DEF Execute, TypeOK
  <2> QED  BY <1>4, <2>1, <2>2 DEF Execute, TypeOK, disk
<1>5. CASE CloseZip
  BY <1>5 DEF CloseZip, TypeOK
<1>6. ASSUME NEW p \in Points, Assess(p)  PROVE TypeOK'
  <2>1. stats' \in [Points -> Entry \cup {Null}]
    BY <1>6, EntryType DEF Assess, TypeOK
  <2>2. queue' \subseteq Files
    BY <1>6 DEF Assess, TypeOK
  <2> QED  BY <1>6, <2>1, <2>2 DEF Assess, TypeOK, disk
<1>7. ASSUME NEW p \in Points, AssessRaises(p)  PROVE TypeOK'
  BY <1>7, ExitType DEF AssessRaises, TypeOK, disk
<1>8. CASE FlushReturns
  BY <1>8 DEF FlushReturns, TypeOK, disk
<1>9. CASE FlushRaises
  BY <1>9, ExitType DEF FlushRaises, TypeOK, disk
<1>10. CASE TruncateStatus
  BY <1>10 DEF TruncateStatus, TypeOK, NoStats
<1>11. CASE WriteStatus
  BY <1>11, ExitType DEF WriteStatus, TypeOK
<1>12. CASE EndWithoutStatus
  BY <1>12, ExitType DEF EndWithoutStatus, TypeOK, disk
<1>13. CASE Kill
  <2>1. archive' \in [Files -> FileStates]
    BY <1>13 DEF Kill, TypeOK, NoFiles, FileStates
  <2>2. jobs' \subseteq [file : Files, phase : {"started", "writing"}, orphan : BOOLEAN]
    BY <1>13 DEF Kill, TypeOK
  <2>3. kills' \in 0..MaxKills
    BY <1>13, BoundsAssumption DEF Kill, TypeOK
  <2>4. Exit("killed")
    BY <1>13 DEF Kill
  <2> QED  BY <1>13, <2>1, <2>2, <2>3, <2>4, ExitType DEF Kill, TypeOK
<1>14. ASSUME NEW j \in jobs, Create(j)  PROVE TypeOK'
  BY <1>14 DEF Create, TypeOK, driver, FileStates
<1>15. ASSUME NEW j \in jobs, Abort(j)  PROVE TypeOK'
  BY <1>15, BoundsAssumption DEF Abort, TypeOK, disk, driver
<1>16. ASSUME NEW j \in jobs, NEW o \in Outcomes, Finish(j, o)  PROVE TypeOK'
  <2>1. o \in FileStates
    BY <1>16, OutcomesAssumption DEF Finish, FileStates
  <2>2. local' \in [Files -> FileStates]
    BY <1>16, <2>1 DEF Finish, TypeOK
  <2>3. fails' \in 0..MaxFails
    BY <1>16, BoundsAssumption DEF Finish, TypeOK
  <2>4. jobs' \subseteq [file : Files, phase : {"started", "writing"}, orphan : BOOLEAN]
    BY <1>16 DEF Finish, TypeOK
  <2> QED  BY <1>16, <2>2, <2>3, <2>4 DEF Finish, TypeOK, driver
<1>17. CASE UNCHANGED vars
  BY <1>17 DEF vars, disk, driver, TypeOK
<1> QED  BY <1>1, <1>2, <1>3, <1>4, <1>5, <1>6, <1>7, <1>8, <1>9, <1>10, <1>11,
           <1>12, <1>13, <1>14, <1>15, <1>16, <1>17 DEF Next, DriverStep, JobStep

\* Disk, driver and jobs keep their types under every run of the driver.
THEOREM TypeCorrect == Spec => []TypeOK
  BY InitType, StepType, PTL DEF Spec

-----------------------------------------------------------------------------
(* The driver is killed only where that does no harm.                      *)

KilledWhenCalm == KillIn \cap {"collect", "flush"} = {}

\* Without a zip file in the config no archive is touched.
ZipNamed == ~zipname => \A f \in Files : archive[f] = "none" /\ zipf[f] = "none"
\* The open archive differs from the one on disk only while it is filled.
ZipClosed == pc # "collect" => zipf = archive /\ todo = {}
\* Filling it only adds members.
ZipGrows == \A f \in Files : archive[f] # "none" => zipf[f] = archive[f]
\* Commands exist from their assessment to the flush of the queue.
QueuePhase == queue # {} => pc \in {"assess", "flush"}
\* Processes exist during the flush of an interactive run, under its driver.
JobsPhase ==
  /\ jobs # {} => pc = "flush" /\ args.mode = "interactive"
  /\ \A j \in jobs : ~j.orphan
\* A file the driver does not know is in neither place, once it was visited.
DictCovers ==
  pc \in {"collect", "assess"} =>
    \A f \in Files : dict[f] = "none" =>
      zipf[f] = "none" /\ (f \notin todo => local[f] = "none")

SeedInv ==
  TypeOK /\ ZipNamed /\ ZipGrows /\ ZipClosed /\ QueuePhase /\ JobsPhase /\ DictCovers /\ NewSeeds

\* An empty directory and archive satisfy the invariant.
LEMMA InitSeedInv == Init => SeedInv
<1> SUFFICES ASSUME Init  PROVE SeedInv
  OBVIOUS
<1>1. TypeOK
  BY InitType
<1>2. ZipNamed /\ ZipGrows /\ ZipClosed /\ QueuePhase /\ JobsPhase /\ DictCovers /\ NewSeeds
  BY DEF Init, NoFiles, ZipNamed, ZipGrows, ZipClosed, QueuePhase, JobsPhase, DictCovers, NewSeeds
<1> QED  BY <1>1, <1>2 DEF SeedInv

\* The driver goes away when it has no process and the archive is closed.
LEMMA ExitSeeds ==
  ASSUME SeedInv, NEW how, Exit(how), jobs = {}, jobs' = {}, archive' = archive,
         zipf = archive, UNCHANGED <<zipname, local>>
  PROVE  /\ ZipNamed' /\ ZipGrows' /\ ZipClosed' /\ QueuePhase' /\ JobsPhase' /\ DictCovers' /\ NewSeeds'
         /\ Results \subseteq Results'
<1>1. ZipNamed' /\ ZipGrows' /\ ZipClosed'
  BY DEF Exit, SeedInv, ZipNamed, ZipGrows, ZipClosed
<1>2. QueuePhase' /\ JobsPhase' /\ DictCovers' /\ NewSeeds'
  BY DEF Exit, QueuePhase, JobsPhase, DictCovers, NewSeeds
<1>3. Results \subseteq Results'
  BY DEF Exit, Results, HasResult
<1> QED  BY <1>1, <1>2, <1>3

\* No job while the driver is not flushing.
LEMMA NoJobs ==
  ASSUME SeedInv, pc # "flush"  PROVE jobs = {}
  BY DEF SeedInv, JobsPhase

\* No step breaks the invariant if the driver is killed only when it is calm.
LEMMA StepSeedInv ==
  ASSUME KilledWhenCalm, SeedInv, [Next]_vars
  PROVE  SeedInv' /\ Results \subseteq Results'
<1> DEFINE Goal == /\ ZipNamed' /\ ZipGrows' /\ ZipClosed' /\ QueuePhase' /\ JobsPhase'
                   /\ DictCovers' /\ NewSeeds' /\ Results \subseteq Results'
<1>0. TypeOK /\ TypeOK'
  BY StepType DEF SeedInv
<1> SUFFICES Goal
  BY <1>0 DEF SeedInv
<1>1. ASSUME NEW a \in Arguments, Start(a)  PROVE Goal
  <2>1. jobs = {} /\ queue = {}
    BY <1>1, NoJobs DEF Start, SeedInv, QueuePhase
  <2>2. DictCovers'
    BY <1>1 DEF Start, SeedInv, DictCovers, ZipNamed, ZipGrows, ZipClosed, disk
  <2>3. ZipNamed' /\ ZipGrows' /\ ZipClosed' /\ QueuePhase' /\ JobsPhase' /\ NewSeeds'
    BY <1>1, <2>1 DEF Start, SeedInv, ZipNamed, ZipGrows, ZipClosed, QueuePhase, JobsPhase,
                      NewSeeds, disk
  <2>4. Results \subseteq Results'
    BY <1>1 DEF Start, Results, HasResult, disk
  <2> QED  BY <2>2, <2>3, <2>4
<1>2. ASSUME NEW a \in Arguments, StartRaises(a)  PROVE Goal
  <2>1. jobs = {}
    BY <1>2, NoJobs DEF StartRaises
  <2> QED  BY <1>2, <2>1 DEF StartRaises, SeedInv, ZipNamed, ZipGrows, ZipClosed, QueuePhase,
                 JobsPhase, DictCovers, NewSeeds, Results, HasResult, disk
<1>3. ASSUME NEW f \in Files, Collect(f)  PROVE Goal
  <2>1. jobs = {} /\ queue = {} /\ pc = "collect" /\ pc' = "collect"
    BY <1>3, NoJobs DEF Collect, SeedInv, QueuePhase
  <2>2. ZipClosed' /\ QueuePhase' /\ JobsPhase' /\ NewSeeds'
    BY <1>3, <2>1 DEF Collect, ZipClosed, QueuePhase, JobsPhase, NewSeeds
  <2>3. ZipNamed' /\ ZipGrows'
    BY <1>0, <1>3 DEF Collect, SeedInv, ZipNamed, ZipGrows, DictCovers, TypeOK
  <2>4. DictCovers'
    <3>1. ASSUME NEW g \in Files, dict'[g] = "none"
          PROVE  zipf'[g] = "none" /\ (g \notin todo' => local'[g] = "none")
      BY <1>0, <1>3, <2>1, <3>1 DEF Collect, SeedInv, DictCovers, TypeOK
    <3> QED  BY <3>1 DEF DictCovers
  <2>5. Results \subseteq Results'
    <3>1. ASSUME NEW g \in Files, HasResult(g)  PROVE HasResult(g)'
      BY <1>0, <1>3, <2>1, <3>1 DEF Collect, SeedInv, DictCovers, TypeOK, HasResult
    <3> QED  BY <3>1 DEF Results
  <2> QED  BY <2>2, <2>3, <2>4, <2>5
<1>4. ASSUME NEW f \in Files, Execute(f)  PROVE Goal
  <2>1. ZipNamed' /\ ZipGrows' /\ ZipClosed' /\ QueuePhase' /\ JobsPhase' /\ DictCovers'
    BY <1>4 DEF Execute, SeedInv, ZipNamed, ZipGrows, ZipClosed, QueuePhase, JobsPhase, DictCovers, disk
  <2>2. NewSeeds'
    <3>1. \A j \in jobs : j.file # f
      BY <1>4 DEF Execute, SeedInv, NewSeeds
    <3>2. local[f] = "none" /\ archive[f] = "none"
      BY <1>4 DEF Execute, SeedInv, NewSeeds
    <3>3. ASSUME NEW j \in jobs'
          PROVE  j \in jobs \/ j = [file |-> f, phase |-> "started", orphan |-> FALSE]
      BY <1>4 DEF Execute
    <3>4. local' = local /\ archive' = archive /\ queue' = queue \ {f}
      BY <1>4 DEF Execute, disk
    <3>5. ASSUME NEW j \in jobs'  PROVE j \in jobs \/ j.file = f
      BY <3>3
    <3>6. \A g \in queue' : /\ local'[g] = "none" /\ archive'[g] = "none"
                            /\ \A j \in jobs' : j.file # g
      BY <3>4, <3>5 DEF SeedInv, NewSeeds
    <3>7. \A j, k \in jobs' : j.file = k.file => j = k
      BY <3>1, <3>3, <3>5 DEF SeedInv, NewSeeds
    <3>8. \A j \in jobs' : archive'[j.file] = "none" /\ local'[j.file] \in {"none", "open"}
      BY <3>2, <3>4, <3>5 DEF SeedInv, NewSeeds
    <3> QED  BY <3>6, <3>7, <3>8 DEF NewSeeds
  <2>3. Results \subseteq Results'
    BY <1>4 DEF Execute, Results, HasResult, disk
  <2> QED  BY <2>1, <2>2, <2>3
<1>5. CASE CloseZip
  <2>1. jobs = {} /\ queue = {}
    BY <1>5, NoJobs DEF CloseZip, SeedInv, QueuePhase
  <2>2. ZipNamed' /\ ZipGrows' /\ ZipClosed' /\ QueuePhase' /\ JobsPhase' /\ NewSeeds'
    BY <1>5, <2>1 DEF CloseZip, SeedInv, ZipNamed, ZipGrows, ZipClosed, QueuePhase, JobsPhase, NewSeeds
  <2>3. DictCovers'
    BY <1>5 DEF CloseZip, SeedInv, DictCovers
  <2>4. Results \subseteq Results'
    BY <1>5 DEF CloseZip, SeedInv, ZipGrows, Results, HasResult
  <2> QED  BY <2>2, <2>3, <2>4
<1>6. ASSUME NEW p \in Points, Assess(p)  PROVE Goal
  <2>1. jobs = {} /\ pc = "assess" /\ pc' \in {"assess", "flush"}
    BY <1>6, NoJobs DEF Assess
  <2>2. UNCHANGED <<zipname, local, archive, zipf, todo, dict, jobs>>
    BY <1>6 DEF Assess, disk
  <2>3. ZipNamed' /\ ZipGrows' /\ ZipClosed' /\ QueuePhase' /\ JobsPhase' /\ DictCovers'
    BY <2>1, <2>2 DEF SeedInv, ZipNamed, ZipGrows, ZipClosed, QueuePhase, JobsPhase, DictCovers
  <2>4. ASSUME NEW f \in queue'  PROVE local[f] = "none" /\ archive[f] = "none"
    <3>1. CASE f \in queue
      BY <3>1 DEF SeedInv, NewSeeds
    <3>2. CASE f \notin queue
      <4>1. f \in {p} \X NewCycles(p) /\ f \in Files
        BY <1>6, <3>2 DEF Assess
      <4>2. PICK s \in NewCycles(p) : f = <<p, s>>
        BY <4>1
      <4>3. s \in Seeds
        BY <4>1, <4>2 DEF Files
      <4>4. args.cycles \in Nat
        BY <1>0, BoundsAssumption DEF TypeOK, Arguments
      <4>5. dict[f] = "none"
        BY <4>2, <4>3, <4>4, NewCyclesUnknown
      <4> QED  BY <2>1, <4>1, <4>5 DEF SeedInv, DictCovers, ZipClosed
    <3> QED  BY <3>1, <3>2
  <2>5. NewSeeds'
    BY <2>1, <2>2, <2>4 DEF NewSeeds
  <2>6. Results \subseteq Results'
    BY <2>2 DEF Results, HasResult
  <2> QED  BY <2>3, <2>5, <2>6
<1>7. ASSUME NEW p \in Points, AssessRaises(p)  PROVE Goal
  BY <1>7, NoJobs, ExitSeeds DEF AssessRaises, SeedInv, ZipClosed, disk
<1>8. CASE FlushReturns
  <2>1. jobs = {}
    BY <1>8 DEF FlushReturns, SeedInv, JobsPhase, Running
  <2>2. ZipNamed' /\ ZipGrows' /\ ZipClosed' /\ QueuePhase' /\ JobsPhase' /\ DictCovers' /\ NewSeeds'
    BY <1>8, <2>1 DEF FlushReturns, SeedInv, ZipNamed, ZipGrows, ZipClosed, QueuePhase,
                      JobsPhase, DictCovers, NewSeeds, disk
  <2>3. Results \subseteq Results'
    BY <1>8 DEF FlushReturns, Results, HasResult, disk
  <2> QED  BY <2>2, <2>3
<1>9. CASE FlushRaises
  <2>1. jobs = {}
    BY <1>9 DEF FlushRaises, SeedInv, JobsPhase
  <2> QED  BY <1>9, <2>1, ExitSeeds DEF FlushRaises, SeedInv, ZipClosed, disk
<1>10. CASE TruncateStatus
  <2>1. jobs = {} /\ queue = {}
    BY <1>10, NoJobs DEF TruncateStatus, SeedInv, QueuePhase
  <2> QED  BY <1>10, <2>1 DEF TruncateStatus, SeedInv, ZipNamed, ZipGrows, ZipClosed, QueuePhase,
                 JobsPhase, DictCovers, NewSeeds, Results, HasResult
<1>11. CASE WriteStatus
  BY <1>11, NoJobs, ExitSeeds DEF WriteStatus, SeedInv, ZipClosed
<1>12. CASE EndWithoutStatus
  BY <1>12, NoJobs, ExitSeeds DEF EndWithoutStatus, SeedInv, ZipClosed, disk
<1>13. CASE Kill
  <2>1. pc # "collect" /\ pc # "flush"
    BY <1>13 DEF Kill, KilledWhenCalm
  <2>2. jobs = {} /\ zipf = archive
    BY <2>1, NoJobs DEF SeedInv, ZipClosed
  <2>3. jobs' = {} /\ archive' = archive /\ Exit("killed")
    BY <1>13, <2>2 DEF Kill
  <2> QED  BY <1>13, <2>2, <2>3, ExitSeeds DEF Kill
<1>14. ASSUME NEW j \in jobs, Create(j)  PROVE Goal
  <2>1. j.file \in Files /\ local[j.file] \in {"none", "open"}
    BY <1>0 DEF TypeOK, SeedInv, NewSeeds
  <2>2. ZipNamed' /\ ZipGrows' /\ ZipClosed' /\ QueuePhase' /\ JobsPhase' /\ DictCovers'
    BY <1>0, <1>14 DEF Create, SeedInv, ZipNamed, ZipGrows, ZipClosed, QueuePhase, JobsPhase,
                 DictCovers, driver, TypeOK
  <2>3. NewSeeds'
    BY <1>0, <1>14, <2>1 DEF Create, SeedInv, NewSeeds, driver, TypeOK
  <2>4. Results \subseteq Results'
    BY <1>0, <1>14, <2>1 DEF Create, Results, HasResult, driver, TypeOK
  <2> QED  BY <2>2, <2>3, <2>4
<1>15. ASSUME NEW j \in jobs, Abort(j)  PROVE Goal
  BY <1>15 DEF Abort, SeedInv, ZipNamed, ZipGrows, ZipClosed, QueuePhase, JobsPhase, DictCovers,
               NewSeeds, Results, HasResult, disk, driver
<1>16. ASSUME NEW j \in jobs, NEW o \in Outcomes, Finish(j, o)  PROVE Goal
  <2>1. ZipNamed' /\ ZipGrows' /\ ZipClosed' /\ QueuePhase' /\ JobsPhase' /\ DictCovers'
    BY <1>16 DEF Finish, SeedInv, ZipNamed, ZipGrows, ZipClosed, QueuePhase, JobsPhase,
                 DictCovers, driver
  <2>2. NewSeeds'
    BY <1>0, <1>16 DEF Finish, SeedInv, NewSeeds, driver, TypeOK
  <2>3. Results \subseteq Results'
    BY <1>0, <1>16 DEF Finish, Results, HasResult, driver, TypeOK
  <2> QED  BY <2>1, <2>2, <2>3
<1>17. CASE UNCHANGED vars
  BY <1>17 DEF vars, disk, driver, SeedInv, ZipNamed, ZipGrows, ZipClosed, QueuePhase, JobsPhase,
               DictCovers, NewSeeds, Results, HasResult
<1> QED
  <2> HIDE DEF Goal
  <2> QED
    BY <1>1, <1>2, <1>3, <1>4, <1>5, <1>6, <1>7, <1>8, <1>9, <1>10, <1>11,
       <1>12, <1>13, <1>14, <1>15, <1>16, <1>17 DEF Next, DriverStep, JobStep

\* Every combine run gets a seed that no file and no other run has.
THEOREM SeedsAreNew == KilledWhenCalm /\ Spec => []NewSeeds
<1> SUFFICES ASSUME KilledWhenCalm  PROVE Spec => []NewSeeds
  OBVIOUS
<1>1. SeedInv /\ [Next]_vars => SeedInv'
  BY StepSeedInv
<1>2. SeedInv => NewSeeds
  BY DEF SeedInv
<1> QED  BY InitSeedInv, <1>1, <1>2, PTL DEF Spec

\* Whatever fails, raises or is invoked, no toys that were thrown are lost.
THEOREM NoResultLost == KilledWhenCalm /\ Spec => ResultsKept
<1> SUFFICES ASSUME KilledWhenCalm  PROVE Spec => ResultsKept
  OBVIOUS
<1>1. SeedInv /\ [Next]_vars => SeedInv'
  BY StepSeedInv
<1>2. SeedInv /\ [Next]_vars => [Results \subseteq Results']_vars
  BY StepSeedInv
<1> QED  BY InitSeedInv, <1>1, <1>2, PTL DEF Spec, ResultsKept

-----------------------------------------------------------------------------
(* Proofs that HybridGrid implements ToyGrid, that the status file is      *)
(* honest and that no point overruns, as long as the driver is not killed  *)
(* while it fills the archive or waits for its jobs.                       *)

-----------------------------------------------------------------------------
(* Counting.                                                               *)

\* A one-to-one map onto T makes T as large as S.
LEMMA SameSize ==
  ASSUME NEW S, NEW T, IsFiniteSet(S), NEW F \in [S -> T],
         \A a, b \in S : F[a] = F[b] => a = b,
         \A t \in T : \E s \in S : F[s] = t
  PROVE  IsFiniteSet(T) /\ Cardinality(T) = Cardinality(S)
<1>1. F \in Bijection(S, T)
  BY Fun_IsBij
<1>2. ExistsBijection(S, T)
  BY <1>1 DEF ExistsBijection
<1> QED  BY <1>2, FS_Bijection

\* There are finitely many files and seeds.
LEMMA FilesFinite == IsFiniteSet(Seeds) /\ IsFiniteSet(Files)
<1>1. IsFiniteSet(Seeds)
  BY FS_Interval, BoundsAssumption DEF Seeds
<1> QED  BY <1>1, FS_Product, PointsAssumption DEF Files

\* The seeds of p that have a result.
Thrown(p) == {s \in Seeds : HasResult(<<p, s>>)}

\* Files of p with a result and their seeds are equally many.
LEMMA ThrownCount ==
  ASSUME NEW p \in Points
  PROVE  /\ Cardinality(Thrown(p)) = Cardinality({f \in Results : f[1] = p})
         /\ IsFiniteSet(Thrown(p)) /\ Cardinality(Thrown(p)) \in 0..MaxSeed
<1> DEFINE S == Thrown(p)
           T == {f \in Results : f[1] = p}
           F == [s \in S |-> <<p, s>>]
<1>1. IsFiniteSet(S)
  BY FilesFinite, FS_Subset DEF Thrown
<1>2. F \in [S -> T]
  <2>1. ASSUME NEW s \in S  PROVE <<p, s>> \in T
    BY DEF Thrown, Results, Files
  <2> QED  BY <2>1
<1>3. \A a, b \in S : F[a] = F[b] => a = b
  OBVIOUS
<1>4. ASSUME NEW t \in T  PROVE \E s \in S : F[s] = t
  <2>1. t \in Files /\ HasResult(t) /\ t[1] = p
    BY DEF Results
  <2>2. PICK s \in Seeds : t = <<p, s>>
    BY <2>1 DEF Files
  <2>3. s \in S
    BY <2>1, <2>2 DEF Thrown
  <2> QED  BY <2>2, <2>3
<1>5. Cardinality(T) = Cardinality(S)
  <2> HIDE DEF S, T, F
  <2> QED  BY <1>1, <1>2, <1>3, <1>4, SameSize
<1>6. Cardinality(S) \in 0..MaxSeed
  <2>1. Cardinality(Seeds) = MaxSeed
    BY FS_Interval, BoundsAssumption DEF Seeds
  <2>2. S \in SUBSET Seeds
    BY DEF Thrown
  <2>3. Cardinality(S) <= Cardinality(Seeds) /\ Cardinality(S) \in Nat
    BY <1>1, <2>2, FilesFinite, FS_Subset, FS_CardinalityType
  <2> QED  BY <2>1, <2>3, BoundsAssumption
<1> QED  BY <1>1, <1>5, <1>6

-----------------------------------------------------------------------------
(* The invariant: SeedInv, and where the files are that are spoken of.     *)

\* A file is in the directory or in the archive, not in both.
OnePlace == \A f \in Files : zipf[f] # "none" => local[f] = "none"
\* The driver visits files that are there.
TodoThere == pc = "collect" => \A f \in todo : local[f] # "none"
\* The dictionary says where a file is.
DictRight ==
  pc \in {"collect", "assess"} =>
    \A f \in Files : /\ dict[f] = "zip" => zipf[f] # "none"
                     /\ dict[f] = "local" => local[f] # "none"
\* Commands are for points that have had their verdict.
QueueLeft == pc = "assess" => \A f \in queue : f[1] \notin left

\* A file is there and no command or process is going to change it.
Settled(f) ==
  (local[f] # "none" \/ zipf[f] # "none") /\ f \notin queue /\ \A j \in jobs : j.file # f
\* A status entry lists such files and counts the results in them.
Listed(p, F) == {s \in Seeds : HasResult(<<p, s>>) /\ \E x \in F : x[2] = s}
Honest(p, e) ==
  e # Null => /\ \A x \in e.files : Settled(<<p, x[2]>>)
              /\ e.ntoys = Cardinality(Listed(p, e.files))
AllHonest == \A p \in Points : Honest(p, stat[p]) /\ Honest(p, stats[p])

PlaceInv == OnePlace /\ TodoThere /\ DictRight /\ QueueLeft
GridInv == SeedInv /\ PlaceInv /\ AllHonest

\* It holds at the start.
LEMMA InitGridInv == Init => GridInv
<1> SUFFICES ASSUME Init  PROVE GridInv
  OBVIOUS
<1>1. PlaceInv
  BY DEF Init, NoFiles, PlaceInv, OnePlace, TodoThere, DictRight, QueueLeft
<1>2. AllHonest
  BY DEF Init, NoStats, AllHonest, Honest
<1> QED  BY <1>1, <1>2, InitSeedInv DEF GridInv

\* No step breaks PlaceInv.
LEMMA StepPlaceInv ==
  ASSUME KilledWhenCalm, SeedInv, PlaceInv, [Next]_vars
  PROVE  PlaceInv'
<1> USE DEF PlaceInv
<1>0. TypeOK
  BY DEF SeedInv
<1>1. ASSUME NEW a \in Arguments, Start(a)  PROVE PlaceInv'
  BY <1>0, <1>1 DEF Start, disk, OnePlace, TodoThere, DictRight, QueueLeft, SeedInv, ZipClosed
<1>2. ASSUME NEW a \in Arguments, StartRaises(a)  PROVE PlaceInv'
  BY <1>2 DEF StartRaises, disk, OnePlace, TodoThere, DictRight, QueueLeft
<1>3. ASSUME NEW f \in Files, Collect(f)  PROVE PlaceInv'
  <2>1. OnePlace' /\ QueueLeft'
    BY <1>0, <1>3 DEF Collect, OnePlace, QueueLeft, TypeOK
  <2>2. TodoThere' /\ DictRight'
    BY <1>0, <1>3 DEF Collect, TodoThere, DictRight, TypeOK, TFileIsGood
  <2> QED  BY <2>1, <2>2
<1>4. ASSUME NEW f \in Files, Execute(f)  PROVE PlaceInv'
  BY <1>4 DEF Execute, disk, OnePlace, TodoThere, DictRight, QueueLeft
<1>5. CASE CloseZip
  BY <1>5 DEF CloseZip, OnePlace, TodoThere, DictRight, QueueLeft, SeedInv, QueuePhase
<1>6. ASSUME NEW p \in Points, Assess(p)  PROVE PlaceInv'
  <2>1. \A f \in queue' : f \in queue \/ f[1] = p
    BY <1>6 DEF Assess
  <2> QED  BY <1>6, <2>1 DEF Assess, disk, OnePlace, TodoThere, DictRight, QueueLeft
<1>7. ASSUME NEW how, Exit(how), archive' = archive, local' = local, zipf = archive
      PROVE  PlaceInv'
  BY <1>7 DEF Exit, OnePlace, TodoThere, DictRight, QueueLeft
<1>8. ASSUME NEW p \in Points, AssessRaises(p)  PROVE PlaceInv'
  BY <1>7, <1>8 DEF AssessRaises, disk, SeedInv, ZipClosed
<1>9. CASE FlushReturns
  BY <1>9 DEF FlushReturns, disk, OnePlace, TodoThere, DictRight, QueueLeft
<1>10. CASE FlushRaises
  BY <1>7, <1>10 DEF FlushRaises, disk, SeedInv, ZipClosed
<1>11. CASE TruncateStatus
  BY <1>11 DEF TruncateStatus, OnePlace, TodoThere, DictRight, QueueLeft
<1>12. CASE WriteStatus
  BY <1>7, <1>12 DEF WriteStatus, SeedInv, ZipClosed
<1>13. CASE EndWithoutStatus
  BY <1>7, <1>13 DEF EndWithoutStatus, disk, SeedInv, ZipClosed
<1>14. CASE Kill
  <2>1. zipf = archive
    BY <1>14 DEF Kill, KilledWhenCalm, SeedInv, ZipClosed
  <2> QED  BY <1>7, <1>14, <2>1 DEF Kill
<1>15. ASSUME NEW j \in jobs, Create(j)  PROVE PlaceInv'
  <2>1. pc = "flush" /\ zipf[j.file] = "none"
    BY <1>15 DEF SeedInv, NewSeeds, JobsPhase, ZipClosed
  <2>2. j.file \in Files
    BY <1>0 DEF TypeOK
  <2> QED  BY <1>0, <1>15, <2>1, <2>2 DEF Create, driver, OnePlace, TodoThere, DictRight, QueueLeft, TypeOK
<1>16. ASSUME NEW j \in jobs, Abort(j)  PROVE PlaceInv'
  BY <1>16 DEF Abort, driver, disk, OnePlace, TodoThere, DictRight, QueueLeft
<1>17. ASSUME NEW j \in jobs, NEW o \in Outcomes, Finish(j, o)  PROVE PlaceInv'
  <2>1. pc = "flush" /\ zipf[j.file] = "none"
    BY <1>17 DEF SeedInv, NewSeeds, JobsPhase, ZipClosed
  <2>2. j.file \in Files
    BY <1>0 DEF TypeOK
  <2> QED  BY <1>0, <1>17, <2>1, <2>2 DEF Finish, driver, OnePlace, TodoThere, DictRight, QueueLeft, TypeOK
<1>18. CASE UNCHANGED vars
  BY <1>18 DEF vars, driver, disk, OnePlace, TodoThere, DictRight, QueueLeft
<1> QED
  BY <1>1, <1>2, <1>3, <1>4, <1>5, <1>6, <1>8, <1>9, <1>10, <1>11, <1>12, <1>13,
     <1>14, <1>15, <1>16, <1>17, <1>18 DEF Next, DriverStep, JobStep

-----------------------------------------------------------------------------
(* The verdict on a point is about its results.                            *)

\* What is known of a point at its assessment.
LEMMA KnownFiles ==
  ASSUME GridInv, pc = "assess", NEW p \in Points
  PROVE  /\ \A x \in AllFiles(p) : /\ x[2] \in Seeds /\ x = <<dict[<<p, x[2]>>], x[2]>>
                                  /\ dict[<<p, x[2]>>] # "none"
         /\ \A x \in AllFiles(p) : Content(p, x) = "result" <=> HasResult(<<p, x[2]>>)
         /\ \A s \in Thrown(p) : <<dict[<<p, s>>], s>> \in GoodFiles(p)
<1>0. TypeOK /\ zipf = archive /\ todo = {}
  BY DEF GridInv, SeedInv, ZipClosed
<1>1. \A s \in Seeds : <<p, s>> \in Files
  BY DEF Files
<1>2. ASSUME NEW x \in AllFiles(p)
      PROVE x[2] \in Seeds /\ x = <<dict[<<p, x[2]>>], x[2]>> /\ dict[<<p, x[2]>>] # "none"
  <2>1. PICK s \in Known(p) : x = <<dict[<<p, s>>], s>>
    BY DEF AllFiles
  <2> QED  BY <2>1 DEF Known
<1>3. ASSUME NEW s \in Seeds, dict[<<p, s>>] # "none"
      PROVE  Content(p, <<dict[<<p, s>>], s>>) = "result" <=> HasResult(<<p, s>>)
  <2> DEFINE f == <<p, s>>
  <2>1. f \in Files /\ dict[f] \in {"zip", "local"}
    BY <1>0, <1>1, <1>3 DEF TypeOK
  <2>2. CASE dict[f] = "zip"
    <3>1. archive[f] # "none" /\ local[f] = "none"
      BY <1>0, <2>1, <2>2 DEF GridInv, PlaceInv, DictRight, OnePlace
    <3> QED  BY <1>0, <2>2, <3>1 DEF Content, HasResult
  <2>3. CASE dict[f] = "local"
    <3>1. local[f] # "none"
      BY <2>1, <2>3 DEF GridInv, PlaceInv, DictRight
    <3>2. archive[f] = "none"
      BY <1>0, <2>1, <3>1 DEF GridInv, PlaceInv, OnePlace
    <3> QED  BY <1>0, <2>3, <3>2 DEF Content, HasResult
  <2> QED  BY <2>1, <2>2, <2>3
<1>4. \A x \in AllFiles(p) : Content(p, x) = "result" <=> HasResult(<<p, x[2]>>)
  BY <1>2, <1>3
<1>5. ASSUME NEW s \in Thrown(p)  PROVE <<dict[<<p, s>>], s>> \in GoodFiles(p)
  <2>1. s \in Seeds /\ HasResult(<<p, s>>) /\ <<p, s>> \in Files
    BY <1>1 DEF Thrown
  <2>2. dict[<<p, s>>] # "none"
    BY <1>0, <2>1 DEF HasResult, GridInv, SeedInv, DictCovers
  <2>3. s \in Known(p)
    BY <2>1, <2>2 DEF Known
  <2>4. <<dict[<<p, s>>], s>> \in AllFiles(p)
    BY <2>3 DEF AllFiles
  <2>5. Content(p, <<dict[<<p, s>>], s>>) = "result"
    BY <1>3, <2>1, <2>2
  <2> QED  BY <2>4, <2>5 DEF GoodFiles, TFileIsGood
<1> QED  BY <1>2, <1>4, <1>5

\* Whatever is merged holds all the results of the point.
LEMMA MergedHoldsAll ==
  ASSUME GridInv, pc = "assess", NEW p \in Points
  PROVE  Merged(p) \subseteq AllFiles(p) /\ Listed(p, Merged(p)) = Thrown(p)
<1>1. GoodFiles(p) \subseteq Merged(p) /\ Merged(p) \subseteq AllFiles(p)
  BY DEF Merged, GoodFiles
<1>2. Thrown(p) \subseteq Listed(p, Merged(p))
  <2>1. ASSUME NEW s \in Thrown(p)  PROVE s \in Listed(p, Merged(p))
    <3>1. <<dict[<<p, s>>], s>> \in Merged(p)
      BY <1>1, KnownFiles
    <3>2. s \in Seeds /\ HasResult(<<p, s>>)
      BY DEF Thrown
    <3>3. <<dict[<<p, s>>], s>>[2] = s
      OBVIOUS
    <3> QED  BY <3>1, <3>2, <3>3 DEF Listed
  <2> QED  BY <2>1
<1>3. Listed(p, Merged(p)) \subseteq Thrown(p)
  BY DEF Listed, Thrown
<1> QED  BY <1>1, <1>2, <1>3

\* Counting files, or looking the count up in a status entry of an earlier
\* run, gives the number of results.
LEMMA VerdictIsRight ==
  ASSUME GridInv, pc = "assess", NEW p \in Points
  PROVE  ntoys(p) = Cardinality(Thrown(p))
<1>1. CASE Precomputed(p)
  <2>1. stats[p] # Null /\ stats[p].files = Merged(p)
    BY <1>1 DEF Precomputed, StatusUnchanged, Merged
  <2>2. stats[p].ntoys = Cardinality(Listed(p, stats[p].files))
    BY <2>1 DEF GridInv, AllHonest, Honest
  <2> QED  BY <1>1, <2>1, <2>2, MergedHoldsAll DEF ntoys
<1>2. CASE ~Precomputed(p)
  <2> DEFINE S == Thrown(p)
             C == {x \in Merged(p) : Content(p, x) = "result"}
             F == [s \in S |-> <<dict[<<p, s>>], s>>]
  <2>1. IsFiniteSet(S)
    BY ThrownCount
  <2>2. F \in [S -> C]
    <3>1. ASSUME NEW s \in S  PROVE <<dict[<<p, s>>], s>> \in C
      <4>1. <<dict[<<p, s>>], s>> \in GoodFiles(p)
        BY KnownFiles
      <4>2. GoodFiles(p) \subseteq Merged(p) /\ GoodFiles(p) \subseteq AllFiles(p)
        BY DEF Merged, GoodFiles
      <4>3. HasResult(<<p, s>>)
        BY DEF Thrown
      <4>4. <<dict[<<p, s>>], s>>[2] = s
        OBVIOUS
      <4>5. Content(p, <<dict[<<p, s>>], s>>) = "result"
        BY <4>1, <4>2, <4>3, <4>4, KnownFiles
      <4> QED  BY <4>1, <4>2, <4>5
    <3> QED  BY <3>1
  <2>3. \A a, b \in S : F[a] = F[b] => a = b
    OBVIOUS
  <2>4. ASSUME NEW x \in C  PROVE \E s \in S : F[s] = x
    <3>1. x \in AllFiles(p) /\ Content(p, x) = "result"
      BY MergedHoldsAll
    <3>2. x[2] \in Seeds /\ HasResult(<<p, x[2]>>) /\ x = <<dict[<<p, x[2]>>], x[2]>>
      BY <3>1, KnownFiles
    <3>3. x[2] \in S
      BY <3>2 DEF Thrown
    <3> QED  BY <3>2, <3>3
  <2>5. Cardinality(C) = Cardinality(S)
    <3> HIDE DEF S, C, F
    <3> QED  BY <2>1, <2>2, <2>3, <2>4, SameSize
  <2> QED  BY <1>2, <2>5 DEF ntoys, Combined
<1> QED  BY <1>1, <1>2

-----------------------------------------------------------------------------
(* Status entries stay honest.                                             *)

\* A step that leaves settled files as they are.
Kept == \A f \in Files : Settled(f) => Settled(f)' /\ (HasResult(f)' <=> HasResult(f))

\* Such a step keeps an entry honest.
LEMMA HonestKept ==
  ASSUME Kept, NEW p \in Points, NEW e \in Entry, Honest(p, e)
  PROVE  e # Null => /\ \A x \in e.files : Settled(<<p, x[2]>>)'
                     /\ e.ntoys = Cardinality(Listed(p, e.files)')
<1> SUFFICES ASSUME e # Null
             PROVE  /\ \A x \in e.files : Settled(<<p, x[2]>>)'
                    /\ e.ntoys = Cardinality(Listed(p, e.files)')
  OBVIOUS
<1>1. \A x \in e.files : x[2] \in Seeds /\ <<p, x[2]>> \in Files
  BY DEF Entry, Files
<1>2. \A x \in e.files : Settled(<<p, x[2]>>)' /\ (HasResult(<<p, x[2]>>)' <=> HasResult(<<p, x[2]>>))
  BY <1>1 DEF Kept, Honest
<1>3. Listed(p, e.files)' = Listed(p, e.files)
  BY <1>2 DEF Listed
<1> QED  BY <1>2, <1>3 DEF Honest

\* A step after which every entry is one that was there before.
LEMMA AllHonestKept ==
  ASSUME TypeOK, AllHonest, Kept,
         \A p \in Points : stat'[p] \in {stat[p], stats[p], Null} /\ stats'[p] \in {stat[p], stats[p], Null}
  PROVE  AllHonest'
<1>1. ASSUME NEW p \in Points, NEW e \in Entry \cup {Null}, Honest(p, e)
      PROVE  e # Null => /\ \A x \in e.files : Settled(<<p, x[2]>>)'
                         /\ e.ntoys = Cardinality(Listed(p, e.files)')
  BY <1>1, HonestKept
<1>2. \A p \in Points : stat[p] \in Entry \cup {Null} /\ stats[p] \in Entry \cup {Null}
  BY DEF TypeOK
<1> QED  BY <1>1, <1>2 DEF AllHonest, Honest

\* A driver that goes away leaves every file where it is.
LEMMA ExitKept ==
  ASSUME NEW how, Exit(how), archive' = archive, zipf = archive, local' = local, jobs' \subseteq jobs
  PROVE  Kept
  BY DEF Exit, Kept, Settled, HasResult

\* Every step leaves settled files as they are.
LEMMA StepKept ==
  ASSUME KilledWhenCalm, GridInv, [Next]_vars
  PROVE  Kept
<1>0. TypeOK
  BY DEF GridInv, SeedInv
<1>1. ASSUME NEW a \in Arguments, Start(a)  PROVE Kept
  BY <1>1 DEF Start, disk, Kept, Settled, HasResult
<1>2. ASSUME NEW a \in Arguments, StartRaises(a)  PROVE Kept
  BY <1>2 DEF StartRaises, disk, Kept, Settled, HasResult
<1>3. ASSUME NEW f \in Files, Collect(f)  PROVE Kept
  <2>1. ASSUME NEW g \in Files  PROVE HasResult(g)' <=> HasResult(g)
    <3>1. pc = "collect" /\ (dict[f] = "none" => zipf[f] = "none" /\ archive[f] = "none")
      BY <1>3 DEF Collect, GridInv, SeedInv, DictCovers, ZipGrows
    <3> QED  BY <1>0, <1>3, <3>1 DEF Collect, TypeOK, HasResult
  <2>2. ASSUME NEW g \in Files, Settled(g)  PROVE Settled(g)'
    BY <1>0, <1>3, <2>2 DEF Collect, TypeOK, TFileIsGood, Settled
  <2> QED  BY <2>1, <2>2 DEF Kept
<1>4. ASSUME NEW f \in Files, Execute(f)  PROVE Kept
  <2>1. \A j \in jobs' : j \in jobs \/ j.file = f
    BY <1>4 DEF Execute
  <2>2. f \in queue /\ queue' \subseteq queue /\ UNCHANGED <<local, archive, zipf>>
    BY <1>4 DEF Execute, disk
  <2> QED  BY <2>1, <2>2 DEF Kept, Settled, HasResult
<1>5. CASE CloseZip
  BY <1>5 DEF CloseZip, GridInv, SeedInv, ZipGrows, Kept, Settled, HasResult
<1>6. ASSUME NEW p \in Points, Assess(p)  PROVE Kept
  <2>1. UNCHANGED <<local, archive, zipf, jobs>>
    BY <1>6 DEF Assess, disk
  <2>2. ASSUME NEW f \in queue', f \notin queue  PROVE local[f] = "none" /\ zipf[f] = "none"
    <3>1. f \in {p} \X NewCycles(p) /\ f \in Files /\ pc = "assess"
      BY <1>6, <2>2 DEF Assess
    <3>2. PICK s \in NewCycles(p) : f = <<p, s>>
      BY <3>1
    <3>3. s \in Seeds
      BY <3>1, <3>2 DEF Files
    <3>4. args.cycles \in Nat
      BY <1>0, BoundsAssumption DEF TypeOK, Arguments
    <3>5. dict[f] = "none"
      BY <3>2, <3>3, <3>4, NewCyclesUnknown
    <3> QED  BY <3>1, <3>5 DEF GridInv, SeedInv, DictCovers, ZipClosed
  <2> QED  BY <2>1, <2>2 DEF Kept, Settled, HasResult
<1>7. ASSUME NEW p \in Points, AssessRaises(p)  PROVE Kept
  BY <1>7, ExitKept DEF AssessRaises, disk, GridInv, SeedInv, ZipClosed
<1>8. CASE FlushReturns
  BY <1>8 DEF FlushReturns, disk, Kept, Settled, HasResult
<1>9. CASE FlushRaises
  BY <1>9, ExitKept DEF FlushRaises, disk, GridInv, SeedInv, ZipClosed
<1>10. CASE TruncateStatus
  BY <1>10 DEF TruncateStatus, Kept, Settled, HasResult
<1>11. CASE WriteStatus
  BY <1>11, ExitKept DEF WriteStatus, GridInv, SeedInv, ZipClosed
<1>12. CASE EndWithoutStatus
  BY <1>12, ExitKept DEF EndWithoutStatus, disk, GridInv, SeedInv, ZipClosed
<1>13. CASE Kill
  <2>1. pc # "collect" /\ pc # "flush"
    BY <1>13 DEF Kill, KilledWhenCalm
  <2>2. jobs = {} /\ zipf = archive
    BY <2>1, NoJobs DEF GridInv, SeedInv, ZipClosed
  <2>3. jobs' = {} /\ archive' = archive /\ Exit("killed")
    BY <1>13, <2>2 DEF Kill
  <2> QED  BY <1>13, <2>2, <2>3, ExitKept DEF Kill
<1>14. ASSUME NEW j \in jobs, Create(j)  PROVE Kept
  <2>1. \A k \in jobs' : k \in jobs \/ k.file = j.file
    <3>1. [j EXCEPT !.phase = "writing"].file = j.file
      BY <1>0 DEF TypeOK
    <3> QED  BY <1>14, <3>1 DEF Create
  <2>2. \A f \in Files : f # j.file => local'[f] = local[f]
    BY <1>0, <1>14 DEF Create, TypeOK
  <2> QED  BY <1>14, <2>1, <2>2 DEF Create, driver, Kept, Settled, HasResult
<1>15. ASSUME NEW j \in jobs, Abort(j)  PROVE Kept
  BY <1>15 DEF Abort, disk, driver, Kept, Settled, HasResult
<1>16. ASSUME NEW j \in jobs, NEW o \in Outcomes, Finish(j, o)  PROVE Kept
  <2>1. \A f \in Files : f # j.file => local'[f] = local[f]
    BY <1>0, <1>16 DEF Finish, TypeOK
  <2> QED  BY <1>16, <2>1 DEF Finish, driver, Kept, Settled, HasResult
<1>17. CASE UNCHANGED vars
  BY <1>17 DEF vars, driver, disk, Kept, Settled, HasResult
<1> QED
  BY <1>1, <1>2, <1>3, <1>4, <1>5, <1>6, <1>7, <1>8, <1>9, <1>10, <1>11, <1>12, <1>13,
     <1>14, <1>15, <1>16, <1>17 DEF Next, DriverStep, JobStep

\* The entry an assessment stores is honest.
LEMMA NewEntryHonest ==
  ASSUME GridInv, Kept, NEW p \in Points, Assess(p)
  PROVE  Honest(p, stats[p])'
<1>0. TypeOK /\ pc = "assess" /\ jobs = {} /\ zipf = archive
  BY NoJobs DEF Assess, GridInv, SeedInv, ZipClosed
<1>1. PICK e \in Entry : e = [files |-> Merged(p), ntoys |-> ntoys(p), contours |-> NeedsContours(p)]
  BY <1>0, EntryType
<1>2. stats'[p] = e
  BY <1>0, <1>1 DEF Assess, TypeOK
<1>3. Honest(p, e)
  <2>1. ASSUME NEW x \in Merged(p)  PROVE Settled(<<p, x[2]>>)
    <3>1. x \in AllFiles(p)
      BY <1>0, MergedHoldsAll
    <3>2. x[2] \in Seeds /\ dict[<<p, x[2]>>] # "none"
      BY <1>0, <3>1, KnownFiles
    <3>3. <<p, x[2]>> \in Files
      BY <3>2 DEF Files
    <3>4. local[<<p, x[2]>>] # "none" \/ zipf[<<p, x[2]>>] # "none"
      BY <1>0, <3>2, <3>3 DEF TypeOK, GridInv, PlaceInv, DictRight
    <3>5. <<p, x[2]>> \notin queue
      BY <1>0, <3>4 DEF GridInv, SeedInv, NewSeeds
    <3> QED  BY <1>0, <3>4, <3>5 DEF Settled
  <2>2. ntoys(p) = Cardinality(Listed(p, Merged(p)))
    BY <1>0, MergedHoldsAll, VerdictIsRight
  <2>3. e.files = Merged(p) /\ e.ntoys = ntoys(p)
    BY <1>1
  <2> QED  BY <2>1, <2>2, <2>3 DEF Honest
<1>4. e # Null => /\ \A x \in e.files : Settled(<<p, x[2]>>)'
                  /\ e.ntoys = Cardinality(Listed(p, e.files)')
  BY <1>3, HonestKept
<1> QED  BY <1>2, <1>4 DEF Honest

\* No step makes an entry, on disk or in memory, say anything else than what is there.
LEMMA StepAllHonest ==
  ASSUME KilledWhenCalm, GridInv, [Next]_vars
  PROVE  AllHonest'
<1>0. TypeOK /\ AllHonest /\ Kept
  BY StepKept DEF GridInv, SeedInv
<1>1. CASE \E p \in Points : Assess(p)
  <2>1. PICK p \in Points : Assess(p)
    BY <1>1
  <2>2. Honest(p, stats[p])'
    BY <1>0, <2>1, NewEntryHonest
  <2>3. stat' = stat /\ \A q \in Points : q # p => stats'[q] = stats[q]
    BY <1>0, <2>1 DEF Assess, disk, TypeOK
  <2>4. ASSUME NEW q \in Points, NEW e \in Entry \cup {Null}, Honest(q, e)
        PROVE  e # Null => /\ \A x \in e.files : Settled(<<q, x[2]>>)'
                           /\ e.ntoys = Cardinality(Listed(q, e.files)')
    BY <1>0, <2>4, HonestKept
  <2>5. \A q \in Points : stat[q] \in Entry \cup {Null} /\ stats[q] \in Entry \cup {Null}
    BY <1>0 DEF TypeOK
  <2> QED  BY <1>0, <2>2, <2>3, <2>4, <2>5 DEF AllHonest, Honest
<1>2. CASE ~\E p \in Points : Assess(p)
  <2> DEFINE Old == \A p \in Points : /\ stat'[p] \in {stat[p], stats[p], Null}
                                      /\ stats'[p] \in {stat[p], stats[p], Null}
  <2>1. ASSUME NEW how, Exit(how), stat' = stat \/ stat' = stats  PROVE Old
    BY <2>1 DEF Exit, NoStats
  <2>2. ASSUME NEW a \in Arguments, Start(a) \/ StartRaises(a)  PROVE Old
    BY <2>2 DEF Start, StartRaises, disk
  <2>3. ASSUME NEW f \in Files, Collect(f) \/ Execute(f)  PROVE Old
    BY <2>3 DEF Collect, Execute, disk
  <2>4. ASSUME CloseZip \/ FlushReturns  PROVE Old
    BY <2>4 DEF CloseZip, FlushReturns, disk
  <2>5. ASSUME NEW p \in Points, AssessRaises(p)  PROVE Old
    BY <2>1, <2>5 DEF AssessRaises, disk
  <2>6. ASSUME FlushRaises \/ EndWithoutStatus  PROVE Old
    BY <2>1, <2>6 DEF FlushRaises, EndWithoutStatus, disk
  <2>7. ASSUME WriteStatus  PROVE Old
    BY <2>1, <2>7 DEF WriteStatus
  <2>8. ASSUME TruncateStatus  PROVE Old
    BY <2>8 DEF TruncateStatus, NoStats
  <2>9. ASSUME Kill  PROVE Old
    BY <2>1, <2>9 DEF Kill
  <2>10. ASSUME NEW j \in jobs, \/ Create(j) \/ Abort(j)
                                \/ \E o \in Outcomes : Finish(j, o)  PROVE Old
    BY <2>10 DEF Create, Abort, Finish, disk, driver
  <2>11. ASSUME UNCHANGED vars  PROVE Old
    BY <2>11 DEF vars, disk, driver
  <2>12. Old
    <3> HIDE DEF Old
    <3> QED  BY <1>2, <2>2, <2>3, <2>4, <2>5, <2>6, <2>7, <2>8, <2>9, <2>10, <2>11 DEF Next, DriverStep, JobStep
  <2> QED  BY <1>0, <2>12, AllHonestKept
<1> QED  BY <1>1, <1>2

\* GridInv is inductive.
LEMMA StepGridInv ==
  ASSUME KilledWhenCalm, GridInv, [Next]_vars
  PROVE  GridInv'
  BY StepSeedInv, StepPlaceInv, StepAllHonest DEF GridInv

\* An entry of the status file counts the toys of the files it lists.
THEOREM StatusIsHonest == KilledWhenCalm /\ Spec => []StatusHonest
<1> SUFFICES ASSUME KilledWhenCalm  PROVE Spec => []StatusHonest
  OBVIOUS
<1>1. GridInv /\ [Next]_vars => GridInv'
  BY StepGridInv
<1>2. GridInv => StatusHonest
  BY DEF GridInv, AllHonest, Honest, Listed, StatusHonest
<1> QED  BY InitGridInv, <1>1, <1>2, PTL DEF Spec

-----------------------------------------------------------------------------
(* Every step is one of ToyGrid.                                           *)

\* ToyGrid counts as HybridGrid does.
LEMMA SameCardinality == \A S : Abstract!Cardinality(S) = Cardinality(S)
  BY Zenon DEF Abstract!Cardinality, Cardinality

Pending == queue \cup {j.file : j \in jobs}

\* A batch is of new seeds, for a point that has not enough toys and no command
\* or process, and no larger than an invocation may ask for.
LEMMA AssessCommissions ==
  ASSUME GridInv, NEW p \in Points, Assess(p)
  PROVE  Abstract!Withdraw \/ Abstract!Commission(p)
<1> DEFINE new == {p} \X NewCycles(p)
<1>0. TypeOK /\ pc = "assess" /\ jobs = {} /\ zipf = archive /\ p \in left
  BY NoJobs DEF Assess, GridInv, SeedInv, ZipClosed
<1>1. Results' = Results /\ jobs' = jobs /\ Pending = queue /\ Pending' = queue'
  <2>1. UNCHANGED <<local, archive, zipf, jobs>>
    BY <1>0 DEF Assess, disk
  <2> QED  BY <1>0, <2>1 DEF Results, HasResult, Pending
<1>2. CASE queue' = queue
  BY <1>1, <1>2 DEF Abstract!Withdraw, Pending
<1>3. CASE queue' # queue
  <2>1. /\ queue' = queue \cup new /\ new \subseteq Files
        /\ ~((Precomputed(p) \/ Merged(p) # {}) /\ Enough(p, ntoys(p)))
    BY <1>3 DEF Assess
  <2>2. \A f \in queue : f[1] # p
    BY <1>0 DEF GridInv, PlaceInv, QueueLeft
  <2>3. args.cycles \in 0..MaxCycles /\ args.cycles \in Nat
    BY <1>0, BoundsAssumption DEF TypeOK, Arguments
  <2>4. ASSUME NEW f \in new
        PROVE  f \in {p} \X Seeds /\ f \notin queue /\ ~HasResult(f)
    <3>1. PICK s \in NewCycles(p) : f = <<p, s>>
      OBVIOUS
    <3>2. f \in Files /\ s \in Seeds
      BY <2>1, <3>1 DEF Files
    <3>3. dict[f] = "none"
      BY <2>3, <3>1, <3>2, NewCyclesUnknown
    <3>4. zipf[f] = "none" /\ local[f] = "none"
      BY <1>0, <3>1, <3>2, <3>3 DEF GridInv, SeedInv, DictCovers, ZipClosed
    <3> QED  BY <1>0, <2>2, <3>1, <3>2, <3>4 DEF HasResult
  <2>5. Pending' \ Pending = new
    BY <1>1, <2>1, <2>4
  <2>6. Cardinality(new) <= MaxCycles
    <3>1. LastSeed(p) \in Nat
      <4>1. CASE Known(p) = {}
        BY <4>1 DEF LastSeed
      <4>2. CASE Known(p) # {}
        <5>1. Known(p) \in SUBSET Seeds
          BY DEF Known
        <5>2. \E m \in Known(p) : \A t \in Known(p) : t <= m
          BY <4>2, <5>1, LargestSeed
        <5> QED  BY <4>2, <5>1, <5>2 DEF LastSeed, Seeds
      <4> QED  BY <4>1, <4>2
    <3> DEFINE C == NewCycles(p)
               F == [s \in C |-> <<p, s>>]
    <3>2. IsFiniteSet(C) /\ Cardinality(C) <= MaxCycles
      <4>1. LastSeed(p) + 1 \in Int /\ LastSeed(p) + args.cycles \in Int
        BY <2>3, <3>1
      <4>2. IsFiniteSet(C) /\ Cardinality(C) =
              IF LastSeed(p) + 1 > LastSeed(p) + args.cycles THEN 0
              ELSE (LastSeed(p) + args.cycles) - (LastSeed(p) + 1) + 1
        BY <4>1, FS_Interval DEF NewCycles
      <4> QED  BY <2>3, <3>1, <4>2, BoundsAssumption
    <3>3. F \in [C -> new]
      OBVIOUS
    <3>4. \A a, b \in C : F[a] = F[b] => a = b
      OBVIOUS
    <3>5. \A x \in new : \E s \in C : F[s] = x
      OBVIOUS
    <3>6. Cardinality(new) = Cardinality(C)
      <4> HIDE DEF C, F, new
      <4> QED  BY <3>2, <3>3, <3>4, <3>5, SameSize
    <3> QED  BY <3>2, <3>6
  <2>7. ~Enough(p, Cardinality(Abstract!Of(p, Results)))
    <3>1. Cardinality(Abstract!Of(p, Results)) = ntoys(p)
      BY <1>0, ThrownCount, VerdictIsRight DEF Abstract!Of
    <3>2. CASE Precomputed(p) \/ Merged(p) # {}
      BY <2>1, <3>1, <3>2
    <3>3. CASE ~Precomputed(p) /\ Merged(p) = {}
      <4>1. {x \in Merged(p) : Content(p, x) = "result"} = {}
        BY <3>3
      <4>2. ntoys(p) = 0
        BY <3>3, <4>1, FS_EmptySet DEF ntoys, Combined
      <4> QED  BY <3>1, <4>2, ToysAssumption DEF Enough
    <3> QED  BY <3>2, <3>3
  <2>8. <<p, Cardinality(Abstract!Of(p, Results))>>
          \notin {x \in Points \X (0..MaxSeed) : Enough(x[1], x[2])}
    BY <2>7
  <2>9. Abstract!Of(p, Pending) = {}
    BY <1>1, <2>2 DEF Abstract!Of
  <2>10. new \subseteq ({p} \X Seeds) \ Results
    BY <2>4 DEF Results
  <2> HIDE DEF new
  <2>11. Pending \subseteq Pending' /\ Pending' # Pending
    BY <1>1, <1>3, <2>1
  <2>12. Abstract!Cardinality(Pending' \ Pending) <= MaxCycles
    BY <2>5, <2>6, SameCardinality
  <2>13. Pending' \ Pending \subseteq ({p} \X Seeds) \ Results
    BY <2>5, <2>10
  <2>14. <<p, Abstract!Cardinality(Abstract!Of(p, Results))>>
           \notin {x \in Points \X (0..MaxSeed) : Enough(x[1], x[2])}
    BY <2>8, SameCardinality
  <2> QED
    BY <1>1, <2>9, <2>11, <2>12, <2>13, <2>14 DEF Abstract!Commission, Pending
<1> QED  BY <1>2, <1>3

\* A process that ends with a result delivers its file, any other withdraws it.
LEMMA FinishDelivers ==
  ASSUME GridInv, NEW j \in jobs, NEW o \in Outcomes, Finish(j, o)
  PROVE  Abstract!Withdraw \/ Abstract!Deliver(j.file)
<1>0. TypeOK /\ NewSeeds /\ pc = "flush" /\ zipf = archive /\ j.file \in Files
  BY DEF GridInv, SeedInv, JobsPhase, ZipClosed, TypeOK
<1>1. Pending' = Pending \ {j.file}
  <2>1. jobs' = jobs \ {j} /\ queue' = queue
    BY DEF Finish, driver
  <2>2. j.file \notin queue /\ \A k \in jobs \ {j} : k.file # j.file
    BY <1>0 DEF NewSeeds
  <2> QED  BY <2>1, <2>2 DEF Pending
<1>2. UNCHANGED <<archive, zipf>> /\ \A f \in Files : f # j.file => local'[f] = local[f]
  BY <1>0 DEF Finish, driver, TypeOK
<1>3. ~HasResult(j.file)
  BY <1>0 DEF NewSeeds, HasResult
<1>4. CASE local'[j.file] = "result"
  <2>1. Results' = Results \cup {j.file}
    BY <1>0, <1>2, <1>4 DEF Results, HasResult
  <2>2. j.file \in Pending
    BY DEF Pending
  <2> QED  BY <1>1, <2>1, <2>2 DEF Abstract!Deliver, Pending
<1>5. CASE local'[j.file] # "result"
  <2>1. Results' = Results
    BY <1>0, <1>2, <1>3, <1>5 DEF Results, HasResult
  <2> QED  BY <1>1, <2>1 DEF Abstract!Withdraw, Pending
<1> QED  BY <1>4, <1>5

\* A driver that goes away forgets its commands and no file.
LEMMA ExitWithdraws ==
  ASSUME NEW how, Exit(how), archive' = archive, zipf = archive, local' = local,
         jobs' = jobs
  PROVE  Abstract!Withdraw
<1>1. Results' = Results
  BY DEF Exit, Results, HasResult
<1> QED  BY <1>1 DEF Exit, Abstract!Withdraw

\* Every step of the driver, its jobs or a kill is one of the grid's.
LEMMA StepRefines ==
  ASSUME KilledWhenCalm, GridInv, [Next]_vars
  PROVE  \/ Abstract!Withdraw
         \/ \E p \in Points : Abstract!Commission(p)
         \/ \E f \in Pending : Abstract!Deliver(f)
<1> DEFINE W == Abstract!Withdraw
           Goal == \/ W \/ \E p \in Points : Abstract!Commission(p)
                   \/ \E f \in Pending : Abstract!Deliver(f)
<1>0. TypeOK
  BY DEF GridInv, SeedInv
<1>1. ASSUME local' = local, archive' = archive, zipf' = zipf, jobs' = jobs, queue' \subseteq queue
      PROVE  W
  BY <1>1 DEF Abstract!Withdraw, Results, HasResult
<1>2. ASSUME NEW a \in Arguments, Start(a) \/ StartRaises(a)  PROVE W
  BY <1>1, <1>2 DEF Start, StartRaises, disk
<1>3. ASSUME NEW f \in Files, Collect(f)  PROVE W
  <2>1. ASSUME NEW g \in Files  PROVE HasResult(g)' <=> HasResult(g)
    <3>1. pc = "collect" /\ (dict[f] = "none" => zipf[f] = "none" /\ archive[f] = "none")
      BY <1>3 DEF Collect, GridInv, SeedInv, DictCovers, ZipGrows
    <3> QED  BY <1>0, <1>3, <3>1 DEF Collect, TypeOK, HasResult
  <2>2. Results' = Results
    BY <2>1 DEF Results
  <2> QED  BY <1>3, <2>2 DEF Collect, Abstract!Withdraw
<1>4. ASSUME NEW f \in Files, Execute(f)  PROVE W
  <2>1. Results' = Results
    BY <1>4 DEF Execute, disk, Results, HasResult
  <2>2. Pending' \subseteq Pending
    <3>1. \A j \in jobs' : j \in jobs \/ j.file = f
      BY <1>4 DEF Execute
    <3> QED  BY <1>4, <3>1 DEF Execute, Pending
  <2> QED  BY <2>1, <2>2 DEF Abstract!Withdraw, Pending
<1>5. ASSUME CloseZip  PROVE W
  <2>1. Results' = Results
    BY <1>5 DEF CloseZip, GridInv, SeedInv, ZipGrows, Results, HasResult
  <2> QED  BY <1>5, <2>1 DEF CloseZip, Abstract!Withdraw
<1>6. ASSUME NEW p \in Points, Assess(p)  PROVE W \/ Abstract!Commission(p)
  BY <1>6, AssessCommissions
<1>7. ASSUME NEW p \in Points, AssessRaises(p)  PROVE W
  BY <1>7, ExitWithdraws DEF AssessRaises, disk, GridInv, SeedInv, ZipClosed
<1>8. ASSUME FlushReturns  PROVE W
  BY <1>1, <1>8 DEF FlushReturns, disk
<1>9. ASSUME FlushRaises  PROVE W
  BY <1>9, ExitWithdraws DEF FlushRaises, disk, GridInv, SeedInv, ZipClosed
<1>10. ASSUME TruncateStatus  PROVE W
  BY <1>1, <1>10 DEF TruncateStatus
<1>11. ASSUME WriteStatus  PROVE W
  BY <1>11, ExitWithdraws DEF WriteStatus, GridInv, SeedInv, ZipClosed
<1>12. ASSUME EndWithoutStatus  PROVE W
  BY <1>12, ExitWithdraws DEF EndWithoutStatus, disk, GridInv, SeedInv, ZipClosed
<1>13. ASSUME Kill  PROVE W
  <2>1. pc # "collect" /\ pc # "flush"
    BY <1>13 DEF Kill, KilledWhenCalm
  <2>2. jobs = {} /\ zipf = archive
    BY <2>1, NoJobs DEF GridInv, SeedInv, ZipClosed
  <2>3. jobs' = jobs /\ archive' = archive /\ Exit("killed")
    BY <1>13, <2>2 DEF Kill
  <2> QED  BY <1>13, <2>2, <2>3, ExitWithdraws DEF Kill
<1>14. ASSUME NEW j \in jobs, Create(j)  PROVE W
  <2>1. j.file \in Files /\ ~HasResult(j.file) /\ zipf = archive /\ archive[j.file] = "none"
    BY <1>0 DEF TypeOK, GridInv, SeedInv, NewSeeds, JobsPhase, ZipClosed, HasResult
  <2>2. ASSUME NEW g \in Files  PROVE HasResult(g)' <=> HasResult(g)
    BY <1>0, <1>14, <2>1 DEF Create, driver, TypeOK, HasResult
  <2>3. Results' = Results
    BY <2>2 DEF Results
  <2>4. Pending' \subseteq Pending
    <3>1. [j EXCEPT !.phase = "writing"].file = j.file
      BY <1>0 DEF TypeOK
    <3>2. \A k \in jobs' : k \in jobs \/ k.file = j.file
      BY <1>14, <3>1 DEF Create
    <3> QED  BY <1>14, <3>2 DEF Create, driver, Pending
  <2> QED  BY <2>3, <2>4 DEF Abstract!Withdraw, Pending
<1>15. ASSUME NEW j \in jobs, Abort(j)  PROVE W
  BY <1>15 DEF Abort, disk, driver, Abstract!Withdraw, Results, HasResult
<1>16. ASSUME NEW j \in jobs, NEW o \in Outcomes, Finish(j, o)
       PROVE  W \/ \E f \in Pending : Abstract!Deliver(f)
  BY <1>16, FinishDelivers DEF Pending
<1>17. ASSUME UNCHANGED vars  PROVE W
  BY <1>1, <1>17 DEF vars, disk, driver
<1> QED
  <2> HIDE DEF W
  <2> QED
    BY <1>2, <1>3, <1>4, <1>5, <1>6, <1>7, <1>8, <1>9, <1>10, <1>11, <1>12, <1>13,
       <1>14, <1>15, <1>16, <1>17 DEF Next, DriverStep, JobStep, W

\* The driver, its archive, status file and processes implement the grid that
\* orders toys only where they are needed and never loses one.
THEOREM GridRefined == KilledWhenCalm /\ Spec => ImplementsToyGrid
<1> SUFFICES ASSUME KilledWhenCalm  PROVE Spec => ImplementsToyGrid
  OBVIOUS
<1>1. Init => Abstract!Init
  BY DEF Init, NoFiles, Abstract!Init, Results, HasResult
<1>2. GridInv /\ [Next]_vars => [Abstract!Next]_(Abstract!gridVars)
  BY StepRefines DEF Abstract!Next, Pending
<1>3. GridInv /\ [Next]_vars => GridInv'
  BY StepGridInv
<1> QED  BY InitGridInv, <1>1, <1>2, <1>3, PTL DEF Spec, ImplementsToyGrid, Abstract!Spec

-----------------------------------------------------------------------------
(* No overrun, from the steps of the grid.                                 *)

\* Results and pending files of a point, together, stay below the bound.
Spoken(p) == {f \in Results \cup Pending : f[1] = p}
SpokenBound == \A p \in Points : Cardinality(Spoken(p)) < MaxToys + MaxCycles

\* These sets are finite.
LEMMA SpokenFinite ==
  ASSUME TypeOK, NEW p \in Points
  PROVE  IsFiniteSet(Spoken(p)) /\ Cardinality(Spoken(p)) \in Nat
<1>1. Spoken(p) \in SUBSET Files
  BY DEF TypeOK, Spoken, Results, Pending
<1> QED  BY <1>1, FilesFinite, FS_Subset, FS_CardinalityType

\* A step that adds nothing to what is spoken of keeps the bound.
LEMMA SpokenLess ==
  ASSUME TypeOK, NEW p \in Points, Cardinality(Spoken(p)) < MaxToys + MaxCycles,
         Spoken(p)' \subseteq Spoken(p)
  PROVE  Cardinality(Spoken(p)') < MaxToys + MaxCycles
<1>1. IsFiniteSet(Spoken(p)) /\ Cardinality(Spoken(p)) \in Nat
  BY SpokenFinite
<1>2. Cardinality(Spoken(p)') <= Cardinality(Spoken(p)) /\ Cardinality(Spoken(p)') \in Nat
  BY <1>1, FS_Subset, FS_CardinalityType
<1> QED  BY <1>1, <1>2, ToysAssumption, BoundsAssumption

\* Every step of the grid keeps the bound: a batch is ordered below max_toys only.
LEMMA StepSpokenBound ==
  ASSUME KilledWhenCalm, GridInv, SpokenBound, [Next]_vars
  PROVE  SpokenBound'
<1> SUFFICES ASSUME NEW p \in Points  PROVE Cardinality(Spoken(p)') < MaxToys + MaxCycles
  BY DEF SpokenBound
<1>0. TypeOK /\ Cardinality(Spoken(p)) < MaxToys + MaxCycles
  BY DEF GridInv, SeedInv, SpokenBound
<1>1. CASE Abstract!Withdraw
  <2>1. Spoken(p)' \subseteq Spoken(p)
    BY <1>1 DEF Abstract!Withdraw, Spoken, Pending
  <2> QED  BY <1>0, <2>1, SpokenLess
<1>2. ASSUME NEW q \in Points, Abstract!Commission(q)
      PROVE  Cardinality(Spoken(p)') < MaxToys + MaxCycles
  <2> DEFINE new == Pending' \ Pending
             S == {f \in Results : f[1] = p}
  <2>1. /\ Results' = Results /\ Pending \subseteq Pending'
        /\ new \subseteq ({q} \X Seeds) \ Results
    BY <1>2 DEF Abstract!Commission, Pending
  <2>2. CASE q # p
    <3>1. Spoken(p)' \subseteq Spoken(p)
      BY <2>1, <2>2 DEF Spoken
    <3> QED  BY <1>0, <3>1, SpokenLess
  <2>3. CASE q = p
    <3>1. Abstract!Of(p, Pending) = {}
      BY <1>2, <2>3 DEF Abstract!Commission, Pending
    <3>2. Spoken(p)' \subseteq S \cup new
      BY <2>1, <3>1 DEF Spoken, Abstract!Of
    <3>3. IsFiniteSet(S) /\ Cardinality(S) \in 0..MaxSeed
      <4>1. S \in SUBSET Files
        BY DEF Results
      <4> QED  BY <4>1, ThrownCount, FilesFinite, FS_Subset
    <3>4. IsFiniteSet(new)
      <4>1. new \in SUBSET Files
        BY <2>1, <2>3 DEF Files
      <4> QED  BY <4>1, FilesFinite, FS_Subset
    <3>5. Cardinality(new) <= MaxCycles /\ Cardinality(new) \in Nat
      <4>1. Abstract!Cardinality(new) <= MaxCycles
        BY <1>2 DEF Abstract!Commission, Pending
      <4> HIDE DEF new
      <4> QED  BY <3>4, <4>1, SameCardinality, FS_CardinalityType
    <3>6. Cardinality(S) < MaxToys
      <4>1. <<p, Abstract!Cardinality(Abstract!Of(p, Results))>>
              \notin {x \in Points \X (0..MaxSeed) : Enough(x[1], x[2])}
        BY <1>2, <2>3 DEF Abstract!Commission
      <4>2. Abstract!Cardinality(Abstract!Of(p, Results)) = Cardinality(S)
        BY SameCardinality DEF Abstract!Of
      <4>3. ~Enough(p, Cardinality(S))
        <5> HIDE DEF S
        <5> QED  BY <3>3, <4>1, <4>2
      <4> HIDE DEF S
      <4> QED  BY <3>3, <4>3, ToysAssumption, BoundsAssumption DEF Enough
    <3>7. Cardinality(S \cup new) <= Cardinality(S) + Cardinality(new)
          /\ IsFiniteSet(S \cup new) /\ Cardinality(S \cup new) \in Nat
      <4> HIDE DEF S, new
      <4>1. /\ IsFiniteSet(S \cup new) /\ Cardinality(S \cup new) \in Nat
            /\ IsFiniteSet(S \cap new) /\ Cardinality(S \cap new) \in Nat
        BY <3>3, <3>4, FS_Union, FS_Intersection, FS_CardinalityType
      <4>2. Cardinality(S \cup new) =
              Cardinality(S) + Cardinality(new) - Cardinality(S \cap new)
        BY <3>3, <3>4, FS_Union
      <4> QED  BY <3>3, <3>5, <4>1, <4>2
    <3>8. Cardinality(Spoken(p)') <= Cardinality(S \cup new) /\ Cardinality(Spoken(p)') \in Nat
      <4> HIDE DEF S, new
      <4> QED  BY <3>2, <3>7, FS_Subset, FS_CardinalityType
    <3> HIDE DEF S, new
    <3> QED  BY <3>3, <3>5, <3>6, <3>7, <3>8, ToysAssumption, BoundsAssumption
  <2> QED  BY <2>2, <2>3
<1>3. ASSUME NEW f \in Pending, Abstract!Deliver(f)
      PROVE  Cardinality(Spoken(p)') < MaxToys + MaxCycles
  <2>1. Spoken(p)' \subseteq Spoken(p)
    BY <1>3 DEF Abstract!Deliver, Spoken, Pending
  <2> QED  BY <1>0, <2>1, SpokenLess
<1> QED  BY <1>1, <1>2, <1>3, StepRefines

\* A point never has more than one batch of cycles beyond max_toys.
THEOREM NeverOverrun == KilledWhenCalm /\ Spec => []NoOverrun
<1> SUFFICES ASSUME KilledWhenCalm  PROVE Spec => []NoOverrun
  OBVIOUS
<1>1. Init => SpokenBound
  <2> SUFFICES ASSUME Init, NEW p \in Points  PROVE Cardinality(Spoken(p)) < MaxToys + MaxCycles
    BY DEF SpokenBound
  <2>1. Spoken(p) = {}
    BY DEF Init, NoFiles, Spoken, Results, HasResult, Pending
  <2> QED  BY <2>1, FS_EmptySet, ToysAssumption, BoundsAssumption
<1>2. GridInv /\ SpokenBound /\ [Next]_vars => GridInv' /\ SpokenBound'
  BY StepGridInv, StepSpokenBound
<1>3. GridInv /\ SpokenBound => NoOverrun
  <2> SUFFICES ASSUME GridInv, SpokenBound, NEW p \in Points
               PROVE Cardinality({f \in Results : f[1] = p}) < MaxToys + MaxCycles
    BY DEF NoOverrun
  <2> DEFINE S == {f \in Results : f[1] = p}
  <2>1. IsFiniteSet(Spoken(p)) /\ Cardinality(Spoken(p)) \in Nat
    BY SpokenFinite DEF GridInv, SeedInv
  <2>2. S \in SUBSET Spoken(p)
    BY DEF Spoken
  <2>3. Cardinality(S) <= Cardinality(Spoken(p)) /\ Cardinality(S) \in Nat
    <3> HIDE DEF S
    <3> QED  BY <2>1, <2>2, FS_Subset, FS_CardinalityType
  <2>4. Cardinality(Spoken(p)) < MaxToys + MaxCycles
    BY DEF SpokenBound
  <2> QED  BY <2>1, <2>3, <2>4, ToysAssumption, BoundsAssumption
<1> QED  BY InitGridInv, <1>1, <1>2, <1>3, PTL DEF Spec
=============================================================================
