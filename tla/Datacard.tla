------------------------------- MODULE Datacard -------------------------------
(***************************************************************************)
(* WriteDatacard and ParseDatacard: a client writes cards of an instance   *)
(* into one root file, per mass or all together, and parses them into one  *)
(* new instance.  Histograms and rates are the identity of the object they *)
(* were taken from, so that a card read back can be compared with what was *)
(* written.  The name of a process is a sequence of parts, because the     *)
(* paths of histograms are joined from names and masses.                   *)
(*                                                                         *)
(* Left out: RooFit objects and the workspaces they live in, formulas and  *)
(* extArg lines, line widths, numbers, the rest of the metadata.  The Up   *)
(* and Down histograms of a systematic are one.                            *)
(***************************************************************************)
EXTENDS Integers, Sequences, FiniteSets, SequencesExt

CONSTANTS
  Inputs,   \* instances: [obs, procs, systs, params, auto]
  Masses,   \* the masses that are numbers
  MaxCards  \* bound on the cards of one root file

Observation == [bin : STRING, hist : BOOLEAN]
Process == [bin : STRING, process : Seq(STRING), signal : BOOLEAN, mass : STRING, hist : BOOLEAN]
Systematic == [bin : STRING, process : Seq(STRING), signal : BOOLEAN, mass : STRING,
               name : STRING, type : STRING, hist : BOOLEAN]

ASSUME InputsAssumption == \A C \in Inputs :
  /\ C.obs \in Seq(Observation) /\ C.procs \in Seq(Process) /\ C.systs \in Seq(Systematic)
  /\ \A s \in ToSet(C.systs) :
       s.name \in DOMAIN C.params /\ C.params[s.name].err \in BOOLEAN
       /\ IsFiniteSet(C.params[s.name].groups)

\* "*" is the wildcard of masses, shape rules and the bins of a rateParam line,
\* data_obs the name of the data.
ASSUME NamesAssumption ==
  /\ "*" \notin Masses /\ \A C \in Inputs : \A s \in ToSet(C.systs) : s.bin # "*"
  /\ \A C \in Inputs : \A q \in ToSet(C.procs) : q.process \notin {<<"*">>, <<"data_obs">>}

VARIABLES
  cb, allow_missing,               \* the client's instance and flag
  root, text, complete,            \* the root file, the cards, the finished ones
  pc,                              \* what is running
  key, cmb, is_open,               \* WriteDatacard: the card, this, the root file
  p, p_ids, sig_id, bkg_id, todo,  \* its loops
  mass, i, hist_mapping, columns, base, groups,   \* ParseDatacard
  read, parsed                     \* the instance parsed into, the cards parsed

disk == <<root, text, complete>>
writer == <<key, cmb, is_open>>
ids == <<p, p_ids, sig_id, bkg_id>>
reader == <<mass, i, hist_mapping, columns, base, groups>>
vars == <<cb, allow_missing, disk, pc, writer, ids, todo, reader, read, parsed>>

-----------------------------------------------------------------------------
ShapeTypes == {"shape", "shapeN", "shapeU"}
NuisanceTypes == {"lnN", "lnU"} \cup ShapeTypes
Ident(q) == <<q.bin, q.process, q.mass>>

\* The elements of s at the positions K, in their order.
Kept(s, K) ==
  [n \in 1..Cardinality(K) |-> s[CHOOSE k \in K : Cardinality({j \in K : j <= k}) = n]]

\* cp().mass(F): the objects with one of the masses; data have the wildcard,
\* which every F that a client uses has.
Select(C, F) ==
  LET With(s) == {k \in DOMAIN s : s[k].mass \in F}
  IN  [obs |-> C.obs, params |-> C.params, auto |-> C.auto,
       procs |-> Kept(C.procs, With(C.procs)), systs |-> Kept(C.systs, With(C.systs))]

Named(C, types) == {s.name : s \in {x \in ToSet(C.systs) : x.type \in types}}
param_set(C) == Named(C, {"param"})
rateparam_set(C) == Named(C, {"rateParam"})
sys_set(C) == Named(C, NuisanceTypes)
bin_set(C) == {q.bin : q \in ToSet(C.procs)}
all_bins(C) == bin_set(C) \cup {o.bin : o \in ToSet(C.obs)} \cup {s.bin : s \in ToSet(C.systs)}
MatchingProcess(s, q) ==
  s.bin = q.bin /\ s.process = q.process /\ s.mass = q.mass /\ s.signal = q.signal

-----------------------------------------------------------------------------
(* Shape rules.                                                             *)
HistBin(C, b) == \/ \E q \in ToSet(C.procs) : q.bin = b /\ q.hist /\ ~q.signal
                 \/ \E o \in ToSet(C.obs) : o.bin = b /\ o.hist
CountingBin(C, b) == \E q \in ToSet(C.procs) \cup ToSet(C.obs) : q.bin = b /\ ~q.hist
HistSignals(C) == {q \in ToSet(C.procs) : q.signal /\ q.hist}
ManyMasses(C) == \E q, x \in HistSignals(C) :
                   q.bin = x.bin /\ q.process = x.process /\ q.mass # x.mass

Mapping(process, category, rule) == [process |-> process, category |-> category, rule |-> rule]

\* Mutant: the rule of a signal does not use its mass.
MappingsOfSignals(C) ==
  {Mapping(<<"*">>, b, "$PROCESS") : b \in {x \in all_bins(C) : HistBin(C, x)}}
  \cup {Mapping(<<"*">>, b, "FAKE") :
          b \in {x \in all_bins(C) : ~HistBin(C, x) /\ CountingBin(C, x)}}
  \cup {Mapping(q.process, q.bin, "$PROCESS") :
          q \in {x \in HistSignals(C) : x.mass \in Masses}}

Mappings(C) ==
  {Mapping(<<"*">>, b, "$PROCESS") : b \in {x \in all_bins(C) : HistBin(C, x)}}
  \cup {Mapping(<<"*">>, b, "FAKE") :
          b \in {x \in all_bins(C) : ~HistBin(C, x) /\ CountingBin(C, x)}}
  \cup {Mapping(q.process, q.bin, "$PROCESS$MASS") :
          q \in {x \in HistSignals(C) : x.mass \in Masses}}

\* The mappings for a process in a bin; the set has at most one element.
ResolveMapping(maps, process, b) ==
  LET At(pr, c) == {m \in maps : m.process = pr /\ m.category = c}
      attempts == <<At(process, b), At(<<"*">>, b), At(process, "*"), At(<<"*">>, "*")>>
      hits == {a \in 1..4 : attempts[a] # {}}
  IN  IF hits = {} THEN {} ELSE attempts[Min(hits)]

\* The path of a histogram; suffix is empty, or "_" and the systematic.
Path(m, b, process, ms, suffix) ==
  IF m.rule = "FAKE" THEN <<>>
  ELSE <<b>> \o process \o (IF m.rule = "$PROCESS$MASS" THEN <<ms>> ELSE <<>>) \o suffix
Suffix(name) == <<"_", name>>

\* Where WriteHistToFile puts the histogram of q: nowhere without a mapping.
Paths(C, q, suffix) ==
  {Path(m, q.bin, q.process, q.mass, suffix) : m \in ResolveMapping(Mappings(C), q.process, q.bin)}

\* WriteToTFile for numbered objects: the first object at a path stays.
WriteToTFile(file, C, objects, suffix) ==
  LET At(x) == {k \in DOMAIN objects : x \in Paths(C, objects[k], suffix)}
      new == UNION {Paths(C, objects[k], suffix) : k \in DOMAIN objects}
  IN  [x \in DOMAIN file \cup new |->
         IF x \in DOMAIN file THEN file[x] ELSE Ident(objects[Min(At(x))]) \o suffix]

\* The objects of a sequence that have a histogram.
WithHist(s) == [k \in {j \in DOMAIN s : s[j].hist} |-> s[k]]

-----------------------------------------------------------------------------
(* Lines.  A card is a sequence of them; "shapes" stands for all rules.      *)
ShapesLine(C) == [kind |-> "shapes", mappings |-> Mappings(C)]
ObservationLine(C) == [kind |-> "observation", bins |-> [k \in DOMAIN C.obs |-> C.obs[k].bin]]
RateLine(C) ==
  [kind |-> "rate",
   columns |-> [k \in DOMAIN C.procs |->
                  [bin |-> C.procs[k].bin, process |-> C.procs[k].process,
                   id |-> p_ids[C.procs[k].process], from |-> Ident(C.procs[k])]]]

\* "param" lines: of constrained parameters that are no other systematic, and
\* of the entries whose parameter is also a rateParam.
ParamLines(C) ==
  LET Line(n) == [kind |-> "param", name |-> n]
      alone == {n \in param_set(C) \ sys_set(C) : C.params[n].err}
      both == Kept(C.systs, {k \in DOMAIN C.systs : /\ C.systs[k].type = "param"
                                                   /\ C.systs[k].name \in rateparam_set(C)})
  IN  SetToSeq({Line(n) : n \in alone}) \o [k \in DOMAIN both |-> Line(both[k].name)]

\* The entries for nuisance n and column k that WriteDatacard looks at: it
\* stops at the first that has all it needs.
Seen(C, n, k) ==
  LET S == {j \in DOMAIN C.systs : /\ C.systs[j].name = n /\ C.systs[j].type \in NuisanceTypes
                                   /\ MatchingProcess(C.systs[j], C.procs[k])}
      stops == {j \in S : C.systs[j].type \notin ShapeTypes \/ C.systs[j].hist}
  IN  {j \in S : \A l \in stops : j <= l}
LastSeen(C, n, k) == C.systs[Max(Seen(C, n, k))]
SeenTypes(C, n) == UNION {{C.systs[j].type : j \in Seen(C, n, k)} : k \in DOMAIN C.procs}
\* Columns with a shape uncertainty that has no shapes.
Missing(C, n) == {k \in DOMAIN C.procs : \E j \in Seen(C, n, k) :
                    C.systs[j].type \in ShapeTypes /\ ~C.systs[j].hist}

\* Mutant: a nuisance with shapes is one for all its processes.
DeducedShape(T) ==
  IF "shapeN" \in T THEN "shapeN" ELSE IF "shapeU" \in T THEN "shapeU"
  ELSE IF "lnU" \in T THEN "lnU" ELSE IF "shape" \in T THEN "shape" ELSE "lnN"

\* Mutant: a nuisance with a number is a number for all its processes.
DeducedNumber(T) ==
  IF "shapeN" \in T THEN "shapeN" ELSE IF "shapeU" \in T THEN "shapeU"
  ELSE IF "lnU" \in T THEN "lnU" ELSE IF "lnN" \in T THEN "lnN" ELSE "shape"

\* The type of a line, from the types of its entries.
Deduced(T) ==
  IF "shapeN" \in T THEN "shapeN" ELSE IF "shapeU" \in T THEN "shapeU"
  ELSE IF "lnU" \in T THEN "lnU"
  ELSE IF T = {"lnN"} THEN "lnN" ELSE IF T = {"shape"} THEN "shape" ELSE "shape?"

NuisanceLine(C, n) ==
  [kind |-> "nuisance", name |-> n, type |-> Deduced(SeenTypes(C, n)),
   entries |-> [k \in DOMAIN C.procs |->
                  IF Seen(C, n, k) = {} THEN <<>> ELSE Ident(LastSeen(C, n, k))]]
\* The entries with shapes of nuisance n in the columns K.
NuisanceShapes(C, n, K) ==
  LET With(k) == Seen(C, n, k) # {} /\ LastSeen(C, n, k).type \in ShapeTypes /\ LastSeen(C, n, k).hist
  IN  [k \in {l \in K : With(l)} |-> LastSeen(C, n, k)]

\* rateParam lines: one for all bins, where every bin of the process has it.
RateParamLines(C) ==
  LET rp == {s \in ToSet(C.systs) : s.type = "rateParam"}
      bins_rp(n, pr) == {s.bin : s \in {x \in rp : x.name = n /\ x.process = pr}}
      bins_all(pr) == {o.bin : o \in ToSet(C.obs)}
                      \cup {q.bin : q \in {x \in ToSet(C.procs) \cup ToSet(C.systs) : x.process = pr}}
      Star(s) == Cardinality(bins_rp(s.name, s.process)) = Cardinality(bins_all(s.process))
  IN  {[kind |-> "rateParam", name |-> s.name,
        bin |-> IF Star(s) THEN "*" ELSE s.bin, process |-> s.process] : s \in rp}
FreezeLines(C) == {[kind |-> "freeze", name |-> n] :
                     n \in {x \in rateparam_set(C) : C.params[x].frozen}}
AutoLines(C) == {[kind |-> "autoMCStats", bin |-> b] : b \in C.auto \cap bin_set(C)}
GroupLines(C) ==
  LET np == {n \in sys_set(C) : C.params[n].err}
  IN  {[kind |-> "group", name |-> g, members |-> {n \in np : g \in C.params[n].groups}] :
         g \in UNION {C.params[n].groups : n \in np}}

-----------------------------------------------------------------------------
(* WriteDatacard.                                                           *)
Nothing == [obs |-> <<>>, procs |-> <<>>, systs |-> <<>>, params |-> <<>>, auto |-> {}]

Init ==
  /\ cb \in Inputs /\ allow_missing \in BOOLEAN
  /\ root = <<>> /\ text = <<>> /\ complete = {}
  /\ pc = "client"
  /\ key = {} /\ cmb = Nothing /\ is_open = FALSE
  /\ p = 1 /\ p_ids = <<>> /\ sig_id = 0 /\ bkg_id = 1 /\ todo = {}
  /\ mass = "" /\ i = 1 /\ hist_mapping = {} /\ columns = <<>> /\ base = Nothing
  /\ groups = {}
  /\ read = Nothing /\ parsed = {}

\* What the client filters on: one mass and the wildcard, or nothing.
Filters == {{m, "*"} : m \in Masses} \cup {Masses \cup {"*", ""}}

Append1(line) == text' = [text EXCEPT ![key] = Append(@, line)]
AppendAll(lines) == text' = [text EXCEPT ![key] = @ \o lines]
Throw == pc' = "client"

\* Mutant: the nuisances are those of the whole instance.
WriteDatacardAll(F, open) ==
  /\ pc = "client" /\ F \notin DOMAIN text /\ Cardinality(DOMAIN text) < MaxCards
  /\ LET C == Select(cb, F) IN
       /\ open \/ \A q \in ToSet(C.procs) \cup ToSet(C.obs) : ~q.hist
       /\ cmb' = C /\ todo' = sys_set(cb)
  /\ key' = F /\ is_open' = open
  /\ text' = [x \in DOMAIN text \cup {F} |-> IF x = F THEN <<>> ELSE text[x]]
  /\ pc' = "mappings"
  /\ UNCHANGED <<cb, allow_missing, root, complete, ids, reader, read, parsed>>

\* The text file is created, or truncated.  With a root file that is not open
\* it throws before, unless nothing has a shape.
WriteDatacard(F, open) ==
  /\ pc = "client" /\ F \notin DOMAIN text /\ Cardinality(DOMAIN text) < MaxCards
  /\ LET C == Select(cb, F) IN
       /\ open \/ \A q \in ToSet(C.procs) \cup ToSet(C.obs) : ~q.hist
       /\ cmb' = C /\ todo' = sys_set(C)
  /\ key' = F /\ is_open' = open
  /\ text' = [x \in DOMAIN text \cup {F} |-> IF x = F THEN <<>> ELSE text[x]]
  /\ pc' = "mappings"
  /\ UNCHANGED <<cb, allow_missing, root, complete, ids, reader, read, parsed>>

FillHistMappings ==
  /\ pc = "mappings"
  /\ IF ManyMasses(cmb)
     THEN Throw /\ UNCHANGED text
     ELSE Append1(ShapesLine(cmb)) /\ pc' = "observations"
  /\ UNCHANGED <<cb, allow_missing, root, complete, writer, ids, todo, reader, read, parsed>>

\* data_obs as an object of a bin.
DataObs(o) ==
  [bin |-> o.bin, process |-> <<"data_obs">>, signal |-> FALSE, mass |-> "*", hist |-> o.hist]
Data(C) == [k \in DOMAIN C.obs |-> DataObs(C.obs[k])]
Put(objects, suffix) ==
  root' = IF is_open THEN WriteToTFile(root, cmb, objects, suffix) ELSE root

WriteObservations ==
  /\ pc = "observations" /\ pc' = "processes"
  /\ Put(WithHist(Data(cmb)), <<>>)
  /\ IF cmb.obs = <<>> THEN UNCHANGED text ELSE Append1(ObservationLine(cmb))
  /\ UNCHANGED <<cb, allow_missing, complete, writer, ids, todo, reader, read, parsed>>

WriteProcesses ==
  /\ pc = "processes" /\ pc' = "background"
  /\ Put(WithHist(cmb.procs), <<>>)
  /\ p' = 1 /\ p_ids' = <<>> /\ sig_id' = 0 /\ bkg_id' = 1
  /\ UNCHANGED <<cb, allow_missing, text, complete, writer, todo, reader, read, parsed>>

\* The loop that numbers processes: backgrounds from the front ...
NumberBackground ==
  LET q == cmb.procs[p] IN
  /\ pc = "background" /\ p <= Len(cmb.procs)
  /\ IF q.signal
     THEN pc' = "signal" /\ UNCHANGED <<p_ids, bkg_id>>
     ELSE IF q.process \notin DOMAIN p_ids
     THEN /\ p_ids' = [x \in DOMAIN p_ids \cup {q.process} |->
                         IF x = q.process THEN bkg_id ELSE p_ids[x]]
          /\ bkg_id' = bkg_id + 1 /\ pc' = "signal"
     ELSE /\ IF p_ids[q.process] <= 0 THEN Throw ELSE pc' = "signal"
          /\ UNCHANGED <<p_ids, bkg_id>>
  /\ UNCHANGED <<cb, allow_missing, disk, writer, p, sig_id, todo, reader, read, parsed>>

\* Mutant: the id of the next signal is not counted down.
NumberSignalZero ==
  LET q == cmb.procs[Len(cmb.procs) + 1 - p] IN
  /\ pc = "signal" /\ p' = p + 1
  /\ IF ~q.signal
     THEN pc' = "background" /\ UNCHANGED <<p_ids, sig_id>>
     ELSE IF q.process \notin DOMAIN p_ids
     THEN /\ p_ids' = [x \in DOMAIN p_ids \cup {q.process} |->
                         IF x = q.process THEN sig_id ELSE p_ids[x]]
          /\ pc' = "background" /\ UNCHANGED sig_id
     ELSE /\ IF p_ids[q.process] > 0 THEN Throw ELSE pc' = "background"
          /\ UNCHANGED <<p_ids, sig_id>>
  /\ UNCHANGED <<cb, allow_missing, disk, writer, bkg_id, todo, reader, read, parsed>>

\* ... and signals from the back.  sig_id is unsigned in the code; what is
\* stored is its value as an int.
NumberSignal ==
  LET q == cmb.procs[Len(cmb.procs) + 1 - p] IN
  /\ pc = "signal" /\ p' = p + 1
  /\ IF ~q.signal
     THEN pc' = "background" /\ UNCHANGED <<p_ids, sig_id>>
     ELSE IF q.process \notin DOMAIN p_ids
     THEN /\ p_ids' = [x \in DOMAIN p_ids \cup {q.process} |->
                         IF x = q.process THEN sig_id ELSE p_ids[x]]
          /\ sig_id' = sig_id - 1 /\ pc' = "background"
     ELSE /\ IF p_ids[q.process] > 0 THEN Throw ELSE pc' = "background"
          /\ UNCHANGED <<p_ids, sig_id>>
  /\ UNCHANGED <<cb, allow_missing, disk, writer, bkg_id, todo, reader, read, parsed>>

WriteRates ==
  /\ pc = "background" /\ p > Len(cmb.procs) /\ pc' = "nuisances"
  /\ AppendAll(<<RateLine(cmb)>> \o ParamLines(cmb))
  /\ UNCHANGED <<cb, allow_missing, root, complete, writer, ids, todo, reader, read, parsed>>

\* One nuisance of sys_set.  It throws at the first column whose shapes are
\* missing, or at the end if no process has the nuisance.
WriteNuisance(n) ==
  /\ pc = "nuisances" /\ n \in todo /\ todo' = todo \ {n}
  /\ IF n \in param_set(cmb)
     THEN UNCHANGED <<text, root, pc>>
     ELSE LET stop == ~allow_missing /\ Missing(cmb, n) # {}
              K == IF stop THEN 1..(Min(Missing(cmb, n)) - 1) ELSE DOMAIN cmb.procs
          IN  /\ Put(NuisanceShapes(cmb, n, K), Suffix(n))
              /\ IF stop \/ SeenTypes(cmb, n) = {}
                 THEN Throw /\ UNCHANGED text
                 ELSE Append1(NuisanceLine(cmb, n)) /\ UNCHANGED pc
  /\ UNCHANGED <<cb, allow_missing, complete, writer, ids, reader, read, parsed>>

WriteTail ==
  /\ pc = "nuisances" /\ todo = {} /\ pc' = "client"
  /\ AppendAll(SetToSeq(RateParamLines(cmb)) \o SetToSeq(FreezeLines(cmb))
               \o SetToSeq(AutoLines(cmb)) \o SetToSeq(GroupLines(cmb)))
  /\ complete' = complete \cup {key}
  /\ UNCHANGED <<cb, allow_missing, root, writer, ids, todo, reader, read, parsed>>

-----------------------------------------------------------------------------
(* ParseDatacard.                                                           *)
Loaded(ok, hist, from) == [ok |-> ok, hist |-> hist, from |-> from]
AtPath(x, from) == IF x \in DOMAIN root THEN Loaded(TRUE, TRUE, root[x])
                   ELSE Loaded(FALSE, FALSE, from)

\* LoadShapes of an observation or a process whose line says `from': without
\* mappings, or with a FAKE one, there is no shape.
LoadShapes(b, process, from) ==
  LET M == ResolveMapping(hist_mapping, process, b)
      m == CHOOSE x \in M : TRUE
  IN  IF hist_mapping = {} THEN Loaded(TRUE, FALSE, from)
      ELSE IF M = {} THEN Loaded(FALSE, FALSE, from)
      ELSE IF m.rule = "FAKE" THEN Loaded(TRUE, FALSE, from)
      ELSE AtPath(Path(m, b, process, mass, <<>>), from)

\* LoadShapes of a systematic: it needs the histogram of the process too.
LoadSystShapes(b, process, n, from) ==
  LET M == ResolveMapping(hist_mapping, process, b)
      m == CHOOSE x \in M : TRUE
  IN  IF M = {} \/ m.rule = "FAKE" THEN Loaded(FALSE, FALSE, from)
      ELSE IF Path(m, b, process, mass, <<>>) \notin DOMAIN root
      THEN Loaded(FALSE, FALSE, from)
      ELSE AtPath(Path(m, b, process, mass, Suffix(n)), from)

\* The client knows the mass of the card.
ParseDatacard(F, m) ==
  /\ pc = "client" /\ F \in complete \ parsed
  /\ \A q \in ToSet(Select(cb, F).procs) : q.mass \in {m, "*"}
  /\ pc' = "parse" /\ key' = F /\ mass' = m /\ i' = 1 /\ columns' = <<>>
  /\ hist_mapping' = text[F][1].mappings /\ groups' = {} /\ base' = read
  /\ parsed' = parsed \cup {F}
  /\ UNCHANGED <<cb, allow_missing, disk, cmb, is_open, ids, todo, read>>

Line == text[key][i]
Reading(kind) == pc = "parse" /\ i <= Len(text[key]) /\ Line.kind = kind
Skip == i' = i + 1 /\ UNCHANGED pc
Fail == pc' = "client" /\ UNCHANGED i
Rest == UNCHANGED <<cb, allow_missing, disk, writer, ids, todo, mass, hist_mapping, base, parsed>>

\* What a loop over columns pushes: all, or those before the first that throws.
Good(n, loaded) ==
  LET bad == {k \in 1..n : ~loaded[k].ok}
  IN  IF bad = {} THEN n ELSE Min(bad) - 1

ReadShapes == Reading("shapes") /\ Skip /\ Rest /\ UNCHANGED <<columns, groups, read>>

ReadObservations ==
  /\ Reading("observation")
  /\ LET b == Line.bins
         loaded == [k \in DOMAIN b |-> LoadShapes(b[k], <<"data_obs">>, <<b[k], <<"data_obs">>, "*">>)]
         n == Good(Len(b), loaded)
     IN /\ read' = [read EXCEPT !.obs = @ \o [k \in 1..n |->
                      [bin |-> b[k], hist |-> loaded[k].hist, from |-> loaded[k].from]]]
        /\ IF n = Len(b) THEN Skip ELSE Fail
  /\ Rest /\ UNCHANGED <<columns, groups>>

ReadRates ==
  /\ Reading("rate")
  /\ LET c == Line.columns
         loaded == [k \in DOMAIN c |-> LoadShapes(c[k].bin, c[k].process, c[k].from)]
         n == Good(Len(c), loaded)
     IN /\ read' = [read EXCEPT !.procs = @ \o [k \in 1..n |->
                      [bin |-> c[k].bin, process |-> c[k].process, signal |-> c[k].id <= 0,
                       mass |-> mass, hist |-> loaded[k].hist, from |-> loaded[k].from]]]
        /\ IF n = Len(c) THEN Skip /\ columns' = c ELSE Fail /\ UNCHANGED columns
  /\ Rest /\ UNCHANGED groups

Param(err) == [err |-> err, frozen |-> FALSE, groups |-> {}]
SetParam(n, v) == [x \in DOMAIN read.params \cup {n} |-> IF x = n THEN v ELSE read.params[x]]
\* SetupRateParamVar and the errors set after it.
WithErr(n, err) ==
  SetParam(n, IF n \in DOMAIN read.params THEN [read.params[n] EXCEPT !.err = err] ELSE Param(err))
\* CreateParameterIfEmpty; lnU and shapeU take the constraint away.
Created(n, type) ==
  IF type \in {"lnU", "shapeU"} THEN WithErr(n, FALSE)
  ELSE IF n \in DOMAIN read.params THEN read.params ELSE SetParam(n, Param(TRUE))

\* Lines after the rate line, which a card without processes does not have.
Scanning(kind) == Reading(kind) /\ columns # <<>>
Ignored ==
  /\ pc = "parse" /\ i <= Len(text[key]) /\ columns = <<>>
  /\ Line.kind \notin {"shapes", "observation", "rate"}
  /\ Skip /\ Rest /\ UNCHANGED <<columns, groups, read>>

Entry(c, n, type, hist, from) ==
  [bin |-> c.bin, process |-> c.process, signal |-> c.id <= 0, mass |-> mass,
   name |-> n, type |-> type, hist |-> hist, from |-> from]
NoColumn == [bin |-> "", process |-> <<>>, id |-> 1]

ReadParam ==
  /\ Scanning("param") /\ Skip
  /\ read' = [read EXCEPT !.params = WithErr(Line.name, TRUE),
                          !.systs = Append(@, Entry(NoColumn, Line.name, "param", FALSE, <<>>))]
  /\ Rest /\ UNCHANGED <<columns, groups>>

\* Entry k of a nuisance line: what LoadShapes gives for its type.
LoadEntry(k) ==
  LET c == columns[k]
      e == Line.entries[k]
      shapes == LoadSystShapes(c.bin, c.process, Line.name, e)
  IN  IF Line.type \in {"lnN", "lnU"} THEN Loaded(TRUE, FALSE, e)
      ELSE IF Line.type = "shape?" THEN [shapes EXCEPT !.ok = TRUE]
      ELSE shapes
TypeRead(hist) ==
  IF Line.type # "shape?" THEN Line.type ELSE IF hist THEN "shape" ELSE "lnN"

\* Mutant: the parameter is created when the line has been read.
ReadNuisanceFirst ==
  /\ Scanning("nuisance")
  /\ LET K == Kept([k \in DOMAIN columns |-> k], {k \in DOMAIN columns : Line.entries[k] # <<>>})
         loaded == [j \in DOMAIN K |-> LoadEntry(K[j])]
         n == Good(Len(K), loaded)
     IN /\ read' = [read EXCEPT
              !.systs = @ \o [j \in 1..n |-> Entry(columns[K[j]], Line.name,
                                  TypeRead(loaded[j].hist), loaded[j].hist, loaded[j].from)],
              !.params = IF n = Len(K) THEN Created(Line.name, Line.type) ELSE @]
        /\ IF n = Len(K) THEN Skip ELSE Fail
  /\ Rest /\ UNCHANGED <<columns, groups>>

ReadNuisance ==
  /\ Scanning("nuisance")
  /\ LET K == Kept([k \in DOMAIN columns |-> k], {k \in DOMAIN columns : Line.entries[k] # <<>>})
         loaded == [j \in DOMAIN K |-> LoadEntry(K[j])]
         n == Good(Len(K), loaded)
     IN /\ read' = [read EXCEPT
              !.systs = @ \o [j \in 1..n |-> Entry(columns[K[j]], Line.name,
                                  TypeRead(loaded[j].hist), loaded[j].hist, loaded[j].from)],
              !.params = IF n = 0 THEN @ ELSE Created(Line.name, Line.type)]
        /\ IF n = Len(K) THEN Skip ELSE Fail
  /\ Rest /\ UNCHANGED <<columns, groups>>

ReadRateParam ==
  /\ Scanning("rateParam") /\ Skip
  /\ LET K == Kept(columns, {k \in DOMAIN columns : /\ Line.bin \in {"*", columns[k].bin}
                                                    /\ Line.process = columns[k].process})
     IN read' = [read EXCEPT
          !.params = WithErr(Line.name, FALSE),
          !.systs = @ \o [j \in DOMAIN K |-> Entry(K[j], Line.name, "rateParam", FALSE, <<>>)]]
  /\ Rest /\ UNCHANGED <<columns, groups>>

\* "nuisance edit freeze x" has four words, as many as the line of a nuisance
\* in a card with two columns: there it is read as one, of the type "edit".
ReadFreeze ==
  /\ Scanning("freeze")
  /\ IF Len(columns) = 2 THEN Fail ELSE Skip
  /\ Rest /\ UNCHANGED <<columns, groups, read>>

ReadAutoMCStats ==
  /\ Scanning("autoMCStats") /\ Skip
  /\ read' = [read EXCEPT !.auto = @ \cup {Line.bin}]
  /\ Rest /\ UNCHANGED <<columns, groups>>

ReadGroup ==
  /\ Scanning("group") /\ Skip
  /\ groups' = groups \cup {[name |-> Line.name, members |-> Line.members]}
  /\ Rest /\ UNCHANGED <<columns, read>>

\* SetGroup for every group of the card; its patterns are names here.
GroupsSet(params) ==
  [n \in DOMAIN params |->
     [params[n] EXCEPT !.groups = @ \cup {g.name : g \in {x \in groups : n \in x.members}}]]

EndParse ==
  /\ pc = "parse" /\ i > Len(text[key]) /\ pc' = "parsed"
  /\ read' = [read EXCEPT !.params = GroupsSet(@)]
  /\ UNCHANGED <<cb, allow_missing, disk, writer, ids, todo, reader, parsed>>

Return ==
  /\ pc = "parsed" /\ pc' = "client"
  /\ UNCHANGED <<cb, allow_missing, disk, writer, ids, todo, reader, read, parsed>>

Next ==
  \/ \E F \in Filters, open \in BOOLEAN : WriteDatacard(F, open)
  \/ FillHistMappings \/ WriteObservations \/ WriteProcesses
  \/ NumberBackground \/ NumberSignal \/ WriteRates
  \/ (\E n \in todo : WriteNuisance(n)) \/ WriteTail
  \/ \E F \in complete, m \in Masses : ParseDatacard(F, m)
  \/ ReadShapes \/ ReadObservations \/ ReadRates \/ Ignored
  \/ ReadParam \/ ReadNuisance \/ ReadRateParam \/ ReadFreeze
  \/ ReadAutoMCStats \/ ReadGroup \/ EndParse \/ Return

Spec == Init /\ [][Next]_vars

-----------------------------------------------------------------------------
(* Properties.                                                              *)
Phases == {"client", "mappings", "observations", "processes", "background", "signal",
           "nuisances", "parse", "parsed"}

\* Ids are integers, only cards of finished calls are complete and parsed, and
\* what is left of sys_set was in it.
TypeOK ==
  /\ allow_missing \in BOOLEAN /\ is_open \in BOOLEAN /\ pc \in Phases
  /\ p \in Nat \ {0} /\ sig_id \in Int /\ bkg_id \in Int
  /\ \A x \in DOMAIN p_ids : p_ids[x] \in Int
  /\ complete \subseteq DOMAIN text /\ parsed \subseteq complete
  /\ todo \subseteq sys_set(cmb)

\* The processes of a card have ids of their own, zero or negative for signals
\* and positive for backgrounds: a reader tells them apart by nothing else
\* (the loop of WriteDatacard that fills p_ids from both ends).
ProcessIdsSound ==
  pc = "nuisances" =>
    /\ \A q \in ToSet(cmb.procs) : (p_ids[q.process] <= 0) <=> q.signal
    /\ \A q, x \in ToSet(cmb.procs) :
         p_ids[q.process] = p_ids[x.process] => q.process = x.process

(* What a card can express.  In each bin, everything but the signals with a *)
(* rule of their own has a histogram, or nothing has; a name is one kind of *)
(* systematic, of one type or lnN and shape, once per process; shapes are   *)
(* there, and only where the process has one; the errors of a parameter are *)
(* those it was created with.                                               *)
UniformBins(C) ==
  \A b \in all_bins(C) :
    LET own == {q \in HistSignals(C) : q.mass \in Masses}
        others == {q \in (ToSet(C.procs) \ own) \cup ToSet(C.obs) : q.bin = b}
    IN  \/ \A q \in others : ~q.hist
        \/ HistBin(C, b) /\ \A q \in others : q.hist
DistinctColumns(C) ==
  \A k, l \in DOMAIN C.procs :
    C.procs[k].bin = C.procs[l].bin /\ C.procs[k].process = C.procs[l].process => k = l
OneKind(C) ==
  \A n \in sys_set(C) :
    LET T == {s.type : s \in {x \in ToSet(C.systs) : x.name = n}}
    IN  T \subseteq {"lnN", "shape"} \/ Cardinality(T) = 1
OncePerProcess(C) ==
  \A k, l \in DOMAIN C.systs :
    LET s == C.systs[k]
        x == C.systs[l]
    IN  s.name = x.name /\ s.bin = x.bin /\ s.process = x.process /\ s.type \in NuisanceTypes => k = l
ShapesThere(C) ==
  \A s \in ToSet(C.systs) : s.type \in NuisanceTypes =>
    /\ s.hist <=> s.type \in ShapeTypes
    /\ s.hist => \A q \in ToSet(C.procs) : MatchingProcess(s, q) => q.hist
ErrorsAsCreated(C) ==
  \A s \in ToSet(C.systs) :
    C.params[s.name].err <=> IF s.name \in rateparam_set(C) THEN FALSE
                             ELSE s.type \notin {"lnU", "shapeU"}
Expressible(C) ==
  /\ UniformBins(C) /\ DistinctColumns(C) /\ OneKind(C) /\ OncePerProcess(C)
  /\ ShapesThere(C) /\ ErrorsAsCreated(C)

\* A signal with a mass of its own has a rule of its own; the rule of another
\* object may or may not be that of a signal with its name.
PathsOf(C, x, suffix) ==
  LET own == /\ x.signal /\ x.mass \in Masses
             /\ \E q \in ToSet(C.procs) : q.hist /\ MatchingProcess(x, q)
      ms == IF own THEN {<<x.mass>>} ELSE {<<>>, <<x.mass>>}
  IN  {<<x.bin>> \o x.process \o m \o suffix : m \in ms}

\* The objects with histograms, each with its suffix.
Hists(C) ==
  {<<q, <<>>>> : q \in {x \in ToSet(C.procs) \cup ToSet(Data(C)) : x.hist}}
  \cup {<<s, Suffix(s.name)>> : s \in {x \in ToSet(C.systs) : x.hist}}
\* No two that differ may be written to one path, and none where the reader looks
\* for the shape of a nuisance that is a number.
OnePath(C) ==
  \A h \in Hists(C) :
    /\ \A g \in Hists(C) : PathsOf(C, h[1], h[2]) \cap PathsOf(C, g[1], g[2]) # {} =>
         Ident(h[1]) \o h[2] = Ident(g[1]) \o g[2]
    /\ \A s \in ToSet(C.systs) : s.type \in NuisanceTypes /\ ~s.hist =>
         PathsOf(C, h[1], h[2]) \cap PathsOf(C, s, Suffix(s.name)) = {}

NotFrozen == \A n \in rateparam_set(cb) : ~cb.params[n].frozen
Faithful == OnePath(cb) /\ \A F \in parsed : Expressible(Select(cb, F))

\* A card that WriteDatacard has finished can be parsed, if it can express
\* what was written (LoadShapes throws for shapes it does not find, and
\* ParseDatacard for types it does not know).
WrittenCardsParse ==
  [][pc = "parse" /\ pc' = "client" => ~(Faithful /\ NotFrozen)]_vars

ReadBack == pc = "parsed" /\ Faithful
Source == Select(cb, key)
New(f) == SubSeq(read[f], Len(base[f]) + 1, Len(read[f]))

\* The processes and the data of a card read back are those of the instance,
\* in their order, with their own histograms, also when cards of other masses
\* were written into the same root file.
ProcessesReadBack ==
  ReadBack =>
    /\ New("procs") = [k \in DOMAIN Source.procs |->
         LET q == Source.procs[k]
         IN  [bin |-> q.bin, process |-> q.process, signal |-> q.signal, mass |-> mass,
              hist |-> q.hist, from |-> Ident(q)]]
    /\ New("obs") = [k \in DOMAIN Source.obs |->
         LET o == Source.obs[k]
         IN  [bin |-> o.bin, hist |-> o.hist, from |-> Ident(DataObs(o))]]

\* Each nuisance reads back on the processes it was on, with its type, also
\* where numbers and shapes share one line of the type "shape?", and its own
\* shapes, and keeps its groups and whether it is constrained; so do the "param"
\* entries, if the card has a process.  A rateParam reads back on exactly the processes and bins it was
\* on, though a line for all bins stands for them where it can.
NuisancesReadBack ==
  ReadBack =>
    /\ {s \in ToSet(New("systs")) : s.type \in NuisanceTypes} =
       {[bin |-> s.bin, process |-> s.process, signal |-> s.signal, mass |-> mass,
         name |-> s.name, type |-> s.type, hist |-> s.hist,
         from |-> Ident(s) \o IF s.hist THEN Suffix(s.name) ELSE <<>>] :
          s \in {x \in ToSet(Source.systs) :
                   x.type \in NuisanceTypes /\ \E q \in ToSet(Source.procs) : MatchingProcess(x, q)}}
    /\ \A s \in ToSet(New("systs")) : s.type \in NuisanceTypes =>
         /\ read.params[s.name].err = cb.params[s.name].err
         /\ read.params[s.name].err => read.params[s.name].groups = cb.params[s.name].groups
    /\ {s.name : s \in {x \in ToSet(New("systs")) : x.type = "param"}} =
         (IF Source.procs = <<>> THEN {} ELSE param_set(Source))
    /\ {<<s.name, s.bin, s.process>> : s \in {x \in ToSet(New("systs")) : x.type = "rateParam"}} =
       {<<s.name, s.bin, s.process>> :
          s \in {x \in ToSet(Source.systs) :
                   x.type = "rateParam"
                   /\ \E q \in ToSet(Source.procs) : x.bin = q.bin /\ x.process = q.process}}

\* Whatever is parsed, and wherever parsing throws, every systematic has its
\* parameter (later evaluations look it up and throw if it is not there).
ReadSystsHaveParams == \A s \in ToSet(read.systs) : s.name \in DOMAIN read.params
=============================================================================
