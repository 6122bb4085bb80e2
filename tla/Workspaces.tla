------------------------------ MODULE Workspaces ------------------------------
(***************************************************************************)
(* The workspaces behind ch::CombineHarvester.  An instance owns the       *)
(* RooWorkspace copies in wspaces_ by shared pointers, and its processes,  *)
(* systematics and parameters hold raw pointers to what is inside them: a  *)
(* pdf, a normalisation, the RooRealVars a Parameter drives.  cp() shares  *)
(* the workspaces and the objects, deep() copies both and has to point the *)
(* copied objects at the copied workspaces.                                *)
(*                                                                         *)
(* A family is an instance together with its shallow copies, of which one  *)
(* at a time is kept here, the view.  As in ParseCombineWorkspace, what is *)
(* created through a view has the instance itself as its target.           *)
(***************************************************************************)
EXTENDS Integers, FiniteSets, FiniteSetsExt

CONSTANTS
  Fams,        \* families: the first instance and its deep copies
  Root,        \* the family of the first instance
  Sources,     \* workspaces in files or memory, each with a UUID of its own
  NameOf,      \* NameOf[s]: the name of the workspace s
  Pdfs,        \* Pdfs[s]: processes the workspace s has a pdf for
  Norms,       \* Norms[s]: processes it has a normalisation function for
  Start,       \* Start[s]: the value of its parameter
  SystPdfs,    \* sources that also hold the pdfs of a systematic, up and down
  Unmapped,    \* sources whose "pdfs" are functions, or normalisations variables
  Procs,       \* processes
  Par,         \* the parameter of all pdfs and normalisations
  RatePars,    \* names of rateParams; Par may be one of them
  Vals,        \* values of parameters, 0 among them
  Ids,         \* RooWorkspace objects (bounds the live ones)
  MaxName,     \* bound on the number in a new workspace name
  MaxCalls,    \* bound on changes, and on calls once there is a deep copy
  None

Pars == RatePars \cup {Par}
RateParams == "_rateParams"     \* the name, and here the source, of that one

ASSUME FamsAssumption == Root \in Fams
ASSUME SourcesAssumption ==
  /\ RateParams \notin Sources
  /\ NameOf \in [Sources -> STRING] /\ \A s \in Sources : NameOf[s] # RateParams
  /\ Pdfs \in [Sources -> SUBSET Procs] /\ Norms \in [Sources -> SUBSET Procs]
  /\ Start \in [Sources -> Vals]
  /\ SystPdfs \subseteq Sources /\ Unmapped \subseteq Sources
ASSUME ValsAssumption == 0 \in Vals
ASSUME BoundsAssumption == MaxName \in Nat /\ MaxCalls \in Nat

VARIABLES
  main,     \* main[f]: the instance of the family: its wspaces_, and whether
            \* it has auto_stats_settings_
  view,     \* the shallow copy kept beside one of them: its family, wspaces_,
            \* processes and keys of params_
  obj,      \* obj[f][p]: the Process p of the family: pdf_ and norm_
  syst,     \* syst[f]: a Systematic: its name and the workspace of its pdfs
  par,      \* par[f][v]: the Parameter v: val_, the workspaces of its vars_
            \* and frozen_
  ws,       \* ws[i]: the RooWorkspace i: source, values of its variables, and
            \* the systematic that the names of its varied pdfs contain
  late,     \* parameters <<f, v>> that got a link to a variable with another
            \* value, or had a variable set in its workspace, and were not
            \* set since, or only while frozen (history)
  last,     \* how the last call ended (history)
  calls     \* counter for MaxCalls

vars == <<main, view, obj, syst, par, ws, late, last, calls>>

-----------------------------------------------------------------------------
Names == ({NameOf[s] : s \in Sources} \X (0..MaxName)) \cup {<<RateParams, 0>>}

Store == [Names -> Ids \cup {None}]
Instance == [store : Store, auto : BOOLEAN]
View == [fam : Fams, store : Store, procs : SUBSET Procs, params : SUBSET Pars]
Process == [pdf : Ids \cup {None}, norm : Ids \cup {None}]
Systematic == [name : {"syst", "renamed"}, pdfs : Ids \cup {None}]
Parameter == [val : Vals, links : SUBSET Ids, frozen : BOOLEAN]
Workspace == [src : Sources \cup {RateParams}, val : [Pars -> Vals \cup {None}],
              up : {"syst", "renamed", None}]
ASSUME NoneAssumption ==
  None \notin Ids \cup Vals \cup Instance \cup View \cup Process \cup Systematic
            \cup Parameter \cup Workspace

Live == {f \in Fams : main[f] # None}
Wss(store) == {store[n] : n \in Names} \ {None}
FreshIds == Ids \ UNION {Wss(main[f].store) : f \in Live}
NewId == CHOOSE i \in FreshIds : TRUE          \* which one makes no difference
Present(f) == {p \in Procs : obj[f][p] # None}
Params(f) == {v \in Pars : par[f][v] # None}

\* A workspace as it comes from its source.
Fresh(s) ==
  [src |-> s,
   val |-> [v \in Pars |-> IF s # RateParams /\ v = Par THEN Start[s] ELSE None],
   up |-> IF s \in SystPdfs THEN "syst" ELSE None]

\* SetupWorkspace 1: the workspace with the UUID of s.
Recycled(f, s) == {i \in Wss(main[f].store) : ws[i].src = s}

\* SetupWorkspace 2 to 4: the name is free, or gets the number after the
\* largest one in use.
Numbers(f, s) == {n[2] : n \in {m \in Names : m[1] = NameOf[s] /\ main[f].store[m] # None}}
InUse(f, s) == main[f].store[<<NameOf[s], 0>>] # None

\* Mutant: the largest number itself.
NewNameTaken(f, s) ==
  <<NameOf[s], IF InUse(f, s) THEN Max(Numbers(f, s)) ELSE 0>>

NewName(f, s) ==
  <<NameOf[s], IF InUse(f, s) THEN 1 + Max(Numbers(f, s)) ELSE 0>>

\* SetupWorkspace: what it returns, the store and the workspaces after it.
Setups(f, s) ==
  IF Recycled(f, s) # {}
  THEN {[id |-> i, store |-> main[f].store, heap |-> ws] : i \in Recycled(f, s)}
  ELSE IF FreshIds = {} \/ NewName(f, s) \notin Names THEN {}
  ELSE {[id |-> NewId,
         store |-> [main[f].store EXCEPT ![NewName(f, s)] = NewId],
         heap |-> [ws EXCEPT ![NewId] = Fresh(s)]]}

\* The Parameter o with the variable of the workspace i linked, or a new one
\* with this variable and value.
Linked(o, i, x) ==
  IF o = None THEN [val |-> x, links |-> {i}, frozen |-> FALSE]
  ELSE [o EXCEPT !.links = @ \cup {i}]

\* Mutant: the new Parameter is not given the value of the variable.
ImportedWithoutValue(f, i, heap) == [par[f] EXCEPT ![Par] = Linked(@, i, None)]

\* ImportParameters: the variable Par of the workspace i.  A Parameter that
\* exists gets the link and keeps its value, and so does the variable.
Imported(f, i, heap) == [par[f] EXCEPT ![Par] = Linked(@, i, heap[i].val[Par])]
LateIf(f, v, i, heap) ==
  IF par[f][v] # None /\ i \notin par[f][v].links /\ heap[i].val[v] # par[f][v].val
  THEN late \cup {<<f, v>>} ELSE late

\* Parameter::set_val returns when the Parameter is frozen: of the parameters V
\* of params_ = P it sets these.
Settable(P, V) == {v \in V : ~P[v].frozen}
Valued(P, V, value) ==
  [v \in Pars |-> IF v \in Settable(P, V) THEN [P[v] EXCEPT !.val = value[v]] ELSE P[v]]

\* Mutant: only the first variable of a Parameter is set.
DrivenFirst(P, heap, V, value) ==
  [i \in Ids |-> IF heap[i] = None THEN None ELSE
     [heap[i] EXCEPT !.val = [v \in Pars |->
        IF v \in Settable(P, V) /\ P[v].links # {} /\ i = (CHOOSE j \in P[v].links : TRUE)
        THEN value[v] ELSE @[v]]]]

\* The workspaces after it: all variables linked to them have the value.
Driven(P, heap, V, value) ==
  [i \in Ids |-> IF heap[i] = None THEN None ELSE
     [heap[i] EXCEPT !.val = [v \in Pars |->
        IF v \in Settable(P, V) /\ i \in P[v].links THEN value[v] ELSE @[v]]]]

-----------------------------------------------------------------------------
(* Operations.                                                             *)

Init ==
  /\ main = [f \in Fams |->
       IF f = Root THEN [store |-> [n \in Names |-> None], auto |-> FALSE] ELSE None]
  /\ view = None
  /\ obj = [f \in Fams |-> [p \in Procs |-> None]]
  /\ syst = [f \in Fams |-> None]
  /\ par = [f \in Fams |-> [v \in Pars |-> None]]
  /\ ws = [i \in Ids |-> None]
  /\ late = {} /\ last = "ok" /\ calls = 0

Throw(how) == last' = how /\ UNCHANGED <<main, view, obj, syst, par, ws, late>>

\* InsertProcess, AddProcesses: a process without a shape.
AddProcess(f, p) ==
  /\ f \in Live /\ obj[f][p] = None
  /\ obj' = [obj EXCEPT ![f][p] = [pdf |-> None, norm |-> None]]
  /\ last' = "ok" /\ UNCHANGED <<main, view, syst, par, ws, late>>

AddWorkspace(f, s, can_rename) ==
  /\ f \in Live
  /\ \/ /\ Recycled(f, s) = {} /\ InUse(f, s) /\ ~can_rename
        /\ Throw("threw")
     \/ /\ Recycled(f, s) # {} \/ ~InUse(f, s) \/ can_rename
        /\ \E r \in Setups(f, s) :
             main' = [main EXCEPT ![f].store = r.store] /\ ws' = r.heap
        /\ last' = "ok" /\ UNCHANGED <<view, obj, syst, par, late>>

\* LoadShapes(Process): the pdf of p and its normalisation in the workspace i,
\* which keeps what it has not.  With a rule for the normalisation the name is
\* not the one of the pdf and "_norm": in a card that rule is the pattern of
\* the systematics, which names no normalisation.
Loaded(o, p, i, src, rule) ==
  [pdf |-> IF p \in Pdfs[src] THEN i ELSE o.pdf,
   norm |-> IF p \in Norms[src] /\ ~rule THEN i ELSE o.norm]

\* ExtractPdfs of the instance, or of its view with the instance as target.
ExtractPdfs(f, n, store, procs) ==
  LET i == store[n]
      todo == {p \in procs : obj[f][p].pdf = None}
      src == ws[i].src
  IN /\ i # None /\ src # RateParams
     /\ obj' = [obj EXCEPT ![f] = [p \in Procs |->
          IF p \in todo THEN Loaded(@[p], p, i, src, FALSE) ELSE @[p]]]
     /\ IF todo \cap (Pdfs[src] \cup Norms[src]) = {} THEN UNCHANGED <<par, late>>
        ELSE /\ par' = [par EXCEPT ![f] = Imported(f, i, ws)]
             /\ late' = LateIf(f, Par, i, ws)
     /\ last' = "ok" /\ UNCHANGED <<main, view, syst, ws>>
Extract(f) ==
  /\ f \in Live
  /\ \E n \in Names :
       \/ ExtractPdfs(f, n, main[f].store, Present(f))
       \/ /\ view # None /\ view.fam = f
          /\ ExtractPdfs(f, n, view.store, view.procs)

\* ParseDatacard of a card with the processes of s, its shapes line with or
\* without a pattern for systematics.
ParseCard(f, s, rule) ==
  /\ f \in Live /\ Pdfs[s] # {} /\ Pdfs[s] \cap Present(f) = {}
  /\ \E r \in Setups(f, s) :
       /\ main' = [main EXCEPT ![f].store = r.store] /\ ws' = r.heap
       /\ obj' = [obj EXCEPT ![f] = [p \in Procs |->
            IF p \in Pdfs[s] THEN Loaded([pdf |-> None, norm |-> None], p, r.id, s, rule)
            ELSE @[p]]]
       /\ par' = [par EXCEPT ![f] = Imported(f, r.id, r.heap)]
       /\ late' = LateIf(f, Par, r.id, r.heap)
       /\ IF rule /\ s \in SystPdfs
          THEN /\ syst[f] = None /\ r.heap[r.id].up = "syst"
               /\ syst' = [syst EXCEPT ![f] = [name |-> "syst", pdfs |-> r.id]]
          ELSE UNCHANGED syst
  /\ last' = "ok" /\ UNCHANGED view

\* SetupRateParamVar, for AddSyst of a rateParam, AddSystVar and extArg lines.
\* A variable that is not there is made with the value 0, and a Parameter as
\* well; set_val at the end brings both to x, unless the Parameter is frozen.
WithVariable(w, v) == [w EXCEPT !.val[v] = IF @ = None THEN 0 ELSE @]
RateParam(f, v, x) ==
  LET s == RateParams
      old == main[f].store[<<s, 0>>]
      i == IF old = None THEN NewId ELSE old
      heap == [ws EXCEPT ![i] = WithVariable(IF old = None THEN Fresh(s) ELSE @, v)]
      params == [par[f] EXCEPT ![v] = Linked(@, i, 0)]
      value == [u \in Pars |-> x]
  IN /\ f \in Live
     /\ old # None \/ FreshIds # {}
     /\ main' = [main EXCEPT ![f].store[<<s, 0>>] = i]
     /\ par' = [par EXCEPT ![f] = Valued(params, {v}, value)]
     /\ ws' = Driven(params, heap, {v}, value)
     /\ late' = LateIf(f, v, i, heap) \ ({f} \X Settable(params, {v}))
     /\ last' = "ok" /\ UNCHANGED <<view, obj, syst>>

\* GetParameter(v)->set_val(x), UpdateParameters.
SetVal(f, v, x) ==
  LET value == [u \in Pars |-> x]
  IN /\ f \in Live /\ v \in Params(f)
     /\ par' = [par EXCEPT ![f] = Valued(@, {v}, value)]
     /\ ws' = Driven(par[f], ws, {v}, value)
     /\ late' = late \ ({f} \X Settable(par[f], {v}))
     /\ last' = "ok" /\ UNCHANGED <<main, view, obj, syst>>

\* GetParameter(v)->set_frozen(b).
SetFrozen(f, v, b) ==
  /\ f \in Live /\ v \in Params(f)
  /\ par' = [par EXCEPT ![f][v].frozen = b]
  /\ last' = "ok" /\ UNCHANGED <<main, view, obj, syst, ws, late>>

\* setParInWs: the variables, not the Parameter.
SetParInWs(f, v, x) ==
  /\ f \in Live
  /\ ws' = [i \in Ids |->
       IF i \in Wss(main[f].store) /\ ws[i].val[v] # None
       THEN [ws[i] EXCEPT !.val[v] = x] ELSE ws[i]]
  /\ late' = late \cup {<<f, v>>}
  /\ last' = "ok" /\ UNCHANGED <<main, view, obj, syst, par>>

\* GetUncertainty and its kind: every parameter of the instance is moved and
\* set back to what it was, by set_val, so the frozen ones are neither.
Evaluate(f, V) ==
  /\ f \in Live
  /\ ws' = Driven(par[f], ws, V,
                  [v \in Pars |-> IF par[f][v] = None THEN None ELSE par[f][v].val])
  /\ late' = late \ ({f} \X Settable(par[f], V))
  /\ last' = "ok" /\ UNCHANGED <<main, view, obj, syst, par>>
GetUncertainty(f) ==
  \/ Evaluate(f, Params(f))
  \/ view # None /\ view.fam = f /\ Evaluate(f, view.params)

\* Systematic::set_name renames the pdfs as well, in their workspace.
RenameSystematic(f, name) ==
  /\ f \in Live /\ syst[f] # None /\ name # syst[f].name
  /\ syst[f].pdfs # None          \* a dangling pointer: undefined behaviour
  /\ syst' = [syst EXCEPT ![f].name = name]
  /\ ws' = [ws EXCEPT ![syst[f].pdfs].up = IF @ = syst[f].name THEN name ELSE @]
  /\ last' = "ok" /\ UNCHANGED <<main, view, obj, par, late>>

SetAutoMCStats(f) ==
  /\ f \in Live /\ ~main[f].auto
  /\ main' = [main EXCEPT ![f].auto = TRUE]
  /\ last' = "ok" /\ UNCHANGED <<view, obj, syst, par, ws, late>>

Cp(f) ==
  /\ f \in Live /\ view = None
  /\ view' = [fam |-> f, store |-> main[f].store, procs |-> Present(f), params |-> Params(f)]
  /\ last' = "ok" /\ UNCHANGED <<main, obj, syst, par, ws, late>>
DropView ==
  /\ view # None /\ view' = None
  /\ last' = "ok" /\ UNCHANGED <<main, obj, syst, par, ws, late>>

-----------------------------------------------------------------------------
(* deep().                                                                 *)

Pdf(f, p) == obj[f][p].pdf
Norm(f, p) == obj[f][p].norm

\* Mutant: the pdfs of the systematic are looked up as well.
ResolvesSysts(f, store, procs, params) ==
  /\ \A p \in procs : {Pdf(f, p), Norm(f, p)} \subseteq
       {i \in Wss(store) : ws[i].src \notin Unmapped} \cup {None}
  /\ \A v \in params : par[f][v].links \subseteq Wss(store)
  /\ syst[f] # None => syst[f].pdfs \in Wss(store)

\* What the lookups with .at find: pdfs and functions of the workspaces of
\* this instance, and the variables of its parameters.
Resolves(f, store, procs, params) ==
  /\ \A p \in procs : {Pdf(f, p), Norm(f, p)} \subseteq
       {i \in Wss(store) : ws[i].src \notin Unmapped} \cup {None}
  /\ \A v \in params : par[f][v].links \subseteq Wss(store)

\* Mutant: the copy has the workspaces of the original.
SharedCopies(store) == {[i \in Wss(store) |-> i]}

\* A fresh object for each workspace of the store.
Copies(store) ==
  {m \in [Wss(store) -> FreshIds] : \A i, j \in Wss(store) : m[i] = m[j] => i = j}
Remap(m, i) == IF i = None THEN None ELSE m[i]

\* A Process with its pointers in the copied workspaces.
CopiedProcess(o, m) == [pdf |-> Remap(m, o.pdf), norm |-> Remap(m, o.norm)]

\* The copy of the instance (or view) with these containers is the family g.
\* The pdfs of its systematic are still those of the original.
DeepCopy(f, g, store, procs, params) ==
  LET m == CHOOSE c \in Copies(store) : TRUE    \* which one makes no difference
  IN /\ Copies(store) # {}
     /\ main' = [main EXCEPT ![g] =
          [store |-> [n \in Names |-> Remap(m, store[n])], auto |-> FALSE]]
     /\ obj' = [obj EXCEPT ![g] = [p \in Procs |-> 
          IF p \notin procs THEN None ELSE CopiedProcess(obj[f][p], m)]]
     /\ syst' = [syst EXCEPT ![g] = syst[f]]
     /\ par' = [par EXCEPT ![g] = [v \in Pars |->
          IF v \notin params THEN None
          ELSE [par[f][v] EXCEPT !.links = {m[i] : i \in @}]]]
     /\ ws' = [j \in Ids |->
          IF \E i \in Wss(store) : m[i] = j
          THEN ws[CHOOSE i \in Wss(store) : m[i] = j] ELSE ws[j]]
     /\ late' = late \cup {<<g, v>> : v \in {u \in params : <<f, u>> \in late}}
     /\ last' = "ok" /\ UNCHANGED view

Deep(f) ==
  /\ f \in Live
  /\ \/ ~Resolves(f, main[f].store, Present(f), Params(f)) /\ Throw("no deep copy")
     \/ /\ Resolves(f, main[f].store, Present(f), Params(f))
        /\ \E g \in Fams \ Live : DeepCopy(f, g, main[f].store, Present(f), Params(f))
DeepOfView ==
  /\ view # None
  /\ LET r == Resolves(view.fam, view.store, view.procs, view.params)
     IN \/ ~r /\ Throw("threw")
        \/ r /\ \E g \in Fams \ Live :
                  DeepCopy(view.fam, g, view.store, view.procs, view.params)

\* The instance goes out of scope, after its views.  A pointer to one of its
\* workspaces that is left in a copy dangles.
Destroy(f) ==
  LET gone == Wss(main[f].store) \ UNION {Wss(main[g].store) : g \in Live \ {f}}
  IN /\ f \in Live /\ (view # None => view.fam # f)
     /\ main' = [main EXCEPT ![f] = None]
     /\ obj' = [obj EXCEPT ![f] = [p \in Procs |-> None]]
     /\ syst' = [g \in Fams |->
          IF g = f \/ syst[g] = None THEN None
          ELSE [syst[g] EXCEPT !.pdfs = IF @ \in gone THEN None ELSE @]]
     /\ par' = [par EXCEPT ![f] = [v \in Pars |-> None]]
     /\ ws' = [i \in Ids |-> IF i \in gone THEN None ELSE ws[i]]
     /\ late' = {x \in late : x[1] # f}
     /\ last' = "ok" /\ UNCHANGED view

Build ==
  \/ \E f \in Fams :
       \/ \E p \in Procs : AddProcess(f, p)
       \/ \E s \in Sources, b \in BOOLEAN : AddWorkspace(f, s, b) \/ ParseCard(f, s, b)
       \/ Extract(f) \/ GetUncertainty(f) \/ Deep(f) \/ Destroy(f)
  \/ DropView \/ DeepOfView
Change ==
  \E f \in Fams :
    \/ \E v \in RatePars, x \in Vals : RateParam(f, v, x)
    \/ \E v \in Pars, x \in Vals : SetVal(f, v, x) \/ SetParInWs(f, v, x)
    \/ \E v \in Pars, b \in BOOLEAN : SetFrozen(f, v, b)
    \/ RenameSystematic(f, "renamed") \/ SetAutoMCStats(f) \/ Cp(f)
Next ==
  \/ Live = {Root} /\ Build /\ UNCHANGED calls
  \/ Live # {Root} /\ Build /\ calls < MaxCalls /\ calls' = calls + 1
  \/ Change /\ calls < MaxCalls /\ calls' = calls + 1

Spec == Init /\ [][Next]_vars

-----------------------------------------------------------------------------
(* Properties.                                                             *)

TypeOK ==
  /\ main \in [Fams -> Instance \cup {None}] /\ view \in View \cup {None}
  /\ obj \in [Fams -> [Procs -> Process \cup {None}]]
  /\ syst \in [Fams -> Systematic \cup {None}]
  /\ par \in [Fams -> [Pars -> Parameter \cup {None}]]
  /\ ws \in [Ids -> Workspace \cup {None}]
  /\ late \subseteq Fams \X Pars
  /\ last \in {"ok", "threw", "no deep copy"} /\ calls \in 0..MaxCalls

\* What an instance's processes and parameters point to is in a workspace of
\* its own, under one name: the cards it writes name that workspace, and its
\* deep copies and its destruction take it along.
LinksOwn ==
  \A f \in Live :
    /\ \A p \in Present(f) : {Pdf(f, p), Norm(f, p)} \subseteq Wss(main[f].store) \cup {None}
    /\ \A v \in Params(f) : par[f][v].links \subseteq Wss(main[f].store)
    /\ \A i \in Wss(main[f].store) : ws[i] # None
    /\ \A m, n \in Names : main[f].store[m] = main[f].store[n] /\ m # n => main[f].store[m] = None

\* The value of the normalisation of p.
Rate(f, p) == IF Norm(f, p) = None THEN None ELSE ws[Norm(f, p)].val[Par]
Observed(f) ==
  <<[p \in Present(f) |-> Rate(f, p)],
    [v \in Params(f) |-> <<par[f][v].val, {ws[i].val[v] : i \in par[f][v].links}>>]>>

\* "This makes it completely independent of the original instance": a deep copy
\* is a twin when it is made, of the whole instance or the view, in rates,
\* parameters and late links (not in autoMCStats settings, which it loses);
\* and whatever is done with an instance or a view of it later, no rate and no
\* parameter of another family moves.  (The names of the pdfs of a systematic
\* may, see LinksOwn.)
Twin(f, g) ==
  /\ Present(g)' \subseteq Present(f) /\ Params(g)' \subseteq Params(f)
  /\ \A p \in Present(g)' : Rate(g, p)' = Rate(f, p)
  /\ \A v \in Params(g)' : Observed(g)'[2][v] = Observed(f)[2][v]
DeepIndependent ==
  [][/\ \A g \in Fams : main[g] = None /\ main'[g] # None => \E f \in Live : Twin(f, g)
     /\ \A f, g \in Live : f # g /\ main'[f] # None /\ main'[g] # None =>
          Observed(f)' = Observed(f) \/ Observed(g)' = Observed(g)]_vars

\* deep() of an instance (not of a view, which may be older than a workspace its
\* processes point to) throws for one reason: a process whose "pdf" is a plain
\* function, or whose normalisation is a plain variable.
DeepWorks ==
  last = "no deep copy" =>
    \E f \in Live : \E p \in Present(f), i \in Ids :
      i \in {Pdf(f, p), Norm(f, p)} /\ ws[i].src \in Unmapped

\* No call leaves the variables of a Parameter without its value, in copies and
\* after any evaluation too, unless one was linked that had another or was set
\* alone: then the next set_val or evaluation brings them together, or, if the
\* Parameter is frozen (which a new rateParam variable meets with its 0), the
\* next one after it is released.
Agree(f, v) == \A i \in par[f][v].links : ws[i].val[v] = par[f][v].val
Synced ==
  [][\A f \in Live' : \A v \in Params(f)' : <<f, v>> \notin late' => Agree(f, v)']_vars

\* "It will also contain a pointer to a RooAbsReal object for the normalisation
\* [when one] can be found by appending the suffix _norm to the same pattern."
NormFound ==
  \A f \in Live : \A p \in Present(f) :
    Pdf(f, p) # None /\ p \in Norms[ws[Pdf(f, p)].src] => Norm(f, p) # None
=============================================================================
