------------------------------- MODULE Harvester -------------------------------
(***************************************************************************)
(* The object store behind ch::CombineHarvester.  An instance owns three   *)
(* containers of shared pointers, procs_, systs_ and params_ (a map from   *)
(* a name to a Parameter).  cp() copies the containers and shares what     *)
(* they point to, deep() clones what they point to, the filters shrink the *)
(* containers of one instance, and the creation and renaming calls write   *)
(* through the shared pointers.  The module is about what the instances of *)
(* one program can do to each other through the objects they share.        *)
(*                                                                         *)
(* A call on a filtered temporary, `cb.cp().process(Q).Op(target, ..)', is *)
(* one action Op(i, Q, j, ..): the temporary dies with its statement.      *)
(***************************************************************************)
EXTENDS Naturals, FiniteSets, Functions

CONSTANTS
  Insts,     \* names of the CombineHarvester variables of the program
  Root,      \* the one that exists at the start
  Names,     \* parameter and systematic names, in the key order of std::map
  Procs,     \* processes, told apart by MatchingProcess
  Vals,      \* parameter values
  ParamIds,  \* heap cells for Parameter objects   (bounds the live ones)
  SystIds,   \* heap cells for Systematic objects  (bounds the live ones)
  Null,
  Careful    \* TRUE: the client renames Parameters and Systematics that it
             \* holds alone, and clones onto names that have a Parameter

ASSUME InstsAssumption == Root \in Insts
ASSUME NamesAssumption ==   \* finitely many totally ordered keys
  /\ Names \subseteq Nat /\ Names # {}
  /\ \A K \in SUBSET Names : K # {} => \E k \in K : \A l \in K : l <= k
ASSUME NullAssumption ==
  Null \notin Names \cup Procs \cup Vals \cup ParamIds \cup SystIds
ASSUME ValsAssumption == 0 \in Vals
ASSUME CarefulAssumption == Careful \in BOOLEAN

VARIABLES
  live,      \* instances in scope
  fam,       \* fam[i]: the instance whose deep() began i's lineage (history)
  procs,     \* procs[i]: procs_ of i
  systs,     \* systs[i]: systs_ of i, the Systematic cells it points to
  params,    \* params[i]: params_ of i, a partial map Names -> ParamIds
  pname, pval, pfrozen,   \* name_, val_, frozen_ of each Parameter cell
  sname, sproc,           \* name_ and process properties of each Systematic
  ub         \* an iterator into a reallocated vector was used

cells == <<pname, pval, pfrozen, sname, sproc>>
vars == <<live, fam, procs, systs, params, cells, ub>>

-----------------------------------------------------------------------------
\* Undefined behaviour ends every guarantee, so nothing is called after it.
Callable(i) == i \in live /\ ~ub

Tags == Procs \cup {Null}   \* Null: an entry with no process, see AddSystVar
Key(i) == {n \in Names : params[i][n] # Null}
ParamsOf(i) == {params[i][n] : n \in Key(i)}
FreshParams == ParamIds \ UNION {ParamsOf(i) : i \in live}
FreshSysts == SystIds \ UNION {systs[i] : i \in live}

\* Systematic entries a view cp().process(Q).syst_name({o}) of i points to.
Named(i, Q, o) == {s \in systs[i] : sproc[s] \in Q /\ sname[s] = o}

\* GetRateInternal finds a Parameter for every Systematic it applies.
Evaluable(i) ==
  \A s \in systs[i] : sproc[s] \in procs[i] => params[i][sname[s]] # Null

\* Mutant: the new Parameter() never gets its name.
CreateParameterUnnamed(j, n) ==
  IF params[j][n] # Null
  THEN UNCHANGED <<params, pname, pval, pfrozen>>
  ELSE \E p \in FreshParams :
         /\ params' = [params EXCEPT ![j][n] = p]
         /\ pname' = [pname EXCEPT ![p] = Null]
         /\ pval' = [pval EXCEPT ![p] = 0]
         /\ pfrozen' = [pfrozen EXCEPT ![p] = FALSE]

\* CreateParameterIfEmpty as a relation on params_ of j and the heap.
CreateParameterIfEmpty(j, n) ==
  IF params[j][n] # Null
  THEN UNCHANGED <<params, pname, pval, pfrozen>>
  ELSE \E p \in FreshParams :
         /\ params' = [params EXCEPT ![j][n] = p]
         /\ pname' = [pname EXCEPT ![p] = n]
         /\ pval' = [pval EXCEPT ![p] = 0]
         /\ pfrozen' = [pfrozen EXCEPT ![p] = FALSE]

\* InsertSystematic into j of one new cell per element of DOMAIN name.
InsertSystematics(j, name, proc) ==
  /\ systs' = [systs EXCEPT ![j] = @ \cup DOMAIN name]
  /\ sname' = [s \in SystIds |-> IF s \in DOMAIN name THEN name[s] ELSE sname[s]]
  /\ sproc' = [s \in SystIds |-> IF s \in DOMAIN name THEN proc[s] ELSE sproc[s]]

\* Mutant: set_val without its early return.
WrittenWhenFrozen(val, p, v) == [val EXCEPT ![p] = v]

\* Parameter::set_val of cell p on a value map.
Written(val, p, v) == IF pfrozen[p] THEN val ELSE [val EXCEPT ![p] = v]

-----------------------------------------------------------------------------
(* Instances: copies, destruction, filters.                                *)

Init ==
  /\ live = {Root}
  /\ fam = [i \in Insts |-> Root]
  /\ procs = [i \in Insts |-> IF i = Root THEN Procs ELSE {}]
  /\ systs = [i \in Insts |-> {}]
  /\ params = [i \in Insts |-> [n \in Names |-> Null]]
  /\ pname = [p \in ParamIds |-> CHOOSE n \in Names : TRUE]
  /\ pval = [p \in ParamIds |-> 0]
  /\ pfrozen = [p \in ParamIds |-> FALSE]
  /\ sname = [s \in SystIds |-> CHOOSE n \in Names : TRUE]
  /\ sproc = [s \in SystIds |-> Null]
  /\ ub = FALSE

cp(i, j) ==
  /\ Callable(i) /\ j \notin live
  /\ live' = live \cup {j}
  /\ fam' = [fam EXCEPT ![j] = fam[i]]
  /\ procs' = [procs EXCEPT ![j] = procs[i]]
  /\ systs' = [systs EXCEPT ![j] = systs[i]]
  /\ params' = [params EXCEPT ![j] = params[i]]
  /\ UNCHANGED <<cells, ub>>

\* Mutant: a deep() that copies the pointers in params_.
deepSharingParams(i, j) ==
  /\ Callable(i) /\ j \notin live
  /\ live' = live \cup {j}
  /\ \E f \in Insts \ {fam[k] : k \in live} : fam' = [fam EXCEPT ![j] = f]
  /\ procs' = [procs EXCEPT ![j] = procs[i]]
  /\ params' = [params EXCEPT ![j] = params[i]]
  /\ UNCHANGED <<systs, cells, ub>>

\* The clones: cell s of the copy is a clone of so[s], the Parameter under the
\* key n a clone of the one under n, whatever name that one carries.
CloneObjects(i, j, so, m) ==
  LET newP == {m[n] : n \in Key(i)}
      From(p) == params[i][CHOOSE n \in Key(i) : m[n] = p]
  IN /\ systs' = [systs EXCEPT ![j] = DOMAIN so]
     /\ sname' = [s \in SystIds |-> IF s \in DOMAIN so THEN sname[so[s]] ELSE sname[s]]
     /\ sproc' = [s \in SystIds |-> IF s \in DOMAIN so THEN sproc[so[s]] ELSE sproc[s]]
     /\ params' = [params EXCEPT ![j] =
                     [n \in Names |-> IF n \in Key(i) THEN m[n] ELSE Null]]
     /\ pname' = [p \in ParamIds |-> IF p \in newP THEN pname[From(p)] ELSE pname[p]]
     /\ pval' = [p \in ParamIds |-> IF p \in newP THEN pval[From(p)] ELSE pval[p]]
     /\ pfrozen' = [p \in ParamIds |-> IF p \in newP THEN pfrozen[From(p)] ELSE pfrozen[p]]

\* Every Systematic and Parameter is cloned into a cell of its own.
deep(i, j) ==
  /\ Callable(i) /\ j \notin live
  /\ live' = live \cup {j}
  /\ \E f \in Insts \ {fam[k] : k \in live} : fam' = [fam EXCEPT ![j] = f]
  /\ procs' = [procs EXCEPT ![j] = procs[i]]
  /\ \E new \in SUBSET FreshSysts : \E so \in Bijection(new, systs[i]),
        m \in Injection(Key(i), FreshParams) : CloneObjects(i, j, so, m)
  /\ UNCHANGED ub

\* The destructor: the shared pointers of i go away.
Destroy(i) ==
  /\ Callable(i) /\ i # Root
  /\ live' = live \ {i}
  /\ procs' = [procs EXCEPT ![i] = {}]
  /\ systs' = [systs EXCEPT ![i] = {}]
  /\ params' = [params EXCEPT ![i] = [n \in Names |-> Null]]
  /\ fam' = [fam EXCEPT ![i] = Root]
  /\ UNCHANGED <<cells, ub>>

process(i, Q) ==
  /\ Callable(i)
  /\ procs' = [procs EXCEPT ![i] = @ \cap Q]
  /\ systs' = [systs EXCEPT ![i] = {s \in @ : sproc[s] \in Q}]
  /\ UNCHANGED <<live, fam, params, cells, ub>>

syst_name(i, o, cond) ==
  /\ Callable(i)
  /\ systs' = [systs EXCEPT ![i] = {s \in @ : (sname[s] = o) = cond}]
  /\ UNCHANGED <<live, fam, procs, params, cells, ub>>

-----------------------------------------------------------------------------
(* Creating entries.                                                       *)

\* Mutant: the Parameter is created in the view, not in the target.
AddSystParamInView(i, Q, j, n) ==
  /\ Callable(i) /\ j \in live
  /\ procs[i] \cap Q # {}
  /\ \E new \in SUBSET FreshSysts : \E proc \in Bijection(new, procs[i] \cap Q) :
       InsertSystematics(j, [s \in new |-> n], proc)
  /\ CreateParameterIfEmpty(i, n)
  /\ UNCHANGED <<live, fam, procs, ub>>

\* One Systematic per process of the view, all in the target j.
AddSyst(i, Q, j, n) ==
  /\ Callable(i) /\ j \in live
  /\ procs[i] \cap Q # {}
  /\ \E new \in SUBSET FreshSysts : \E proc \in Bijection(new, procs[i] \cap Q) :
       InsertSystematics(j, [s \in new |-> n], proc)
  /\ CreateParameterIfEmpty(j, n)
  /\ UNCHANGED <<live, fam, procs, ub>>

\* A "param" line: the Systematic matches no process, the Parameter is
\* created on demand and then set.
AddSystVar(i, n, v) ==
  /\ Callable(i)
  /\ \E s \in FreshSysts : InsertSystematics(i, [t \in {s} |-> n], [t \in {s} |-> Null])
  /\ IF params[i][n] # Null
     THEN /\ pval' = Written(pval, params[i][n], v)
          /\ UNCHANGED <<params, pname, pfrozen>>
     ELSE \E p \in FreshParams :
            /\ params' = [params EXCEPT ![i][n] = p]
            /\ pname' = [pname EXCEPT ![p] = n]
            /\ pval' = [pval EXCEPT ![p] = v]
            /\ pfrozen' = [pfrozen EXCEPT ![p] = FALSE]
  /\ UNCHANGED <<live, fam, procs, ub>>

\* CloneSysts(i.cp().process(Q).syst_name({o}), j, rename to n).
CloneSysts(i, Q, o, j, n) ==
  /\ Callable(i) /\ j \in live
  /\ Named(i, Q, o) # {}
  /\ Careful => params[j][n] # Null
  /\ \E new \in SUBSET FreshSysts : \E so \in Bijection(new, Named(i, Q, o)) :
       InsertSystematics(j, [s \in new |-> n], [s \in new |-> sproc[so[s]]])
  /\ UNCHANGED <<live, fam, procs, params, pname, pval, pfrozen, ub>>

\* CloneSysts(i, i, ..): ForEachSyst holds iterators into systs_ while the
\* insertion grows it.  A reallocation leaves them dangling.
CloneSystsOntoSelf(i) ==
  /\ Callable(i) /\ systs[i] # {}
  /\ ub' = TRUE
  /\ UNCHANGED <<live, fam, procs, systs, params, cells>>

-----------------------------------------------------------------------------
(* Renaming.                                                               *)

\* Mutant: the key moves, the Parameter is not renamed.
RenameParameterKeyOnly(i, o, n) ==
  /\ Callable(i)
  /\ params[i][o] # Null
  /\ params' = [params EXCEPT ![i] =
                  [m \in Names |-> IF m = o THEN Null
                                   ELSE IF m = n THEN params[i][o] ELSE @[m]]]
  /\ UNCHANGED <<live, fam, procs, systs, cells, ub>>

\* The key moves in the map of i alone, the name changes in the shared cell.
\* The old key is erased last, also when it is the new one.
RenameParameter(i, o, n) ==
  /\ Callable(i)
  /\ params[i][o] # Null
  /\ Careful => /\ \A k \in live \ {i} : params[i][o] \notin ParamsOf(k)
                /\ \A s \in systs[i] : sname[s] # o
  /\ params' = [params EXCEPT ![i] =
                  [m \in Names |-> IF m = o THEN Null
                                   ELSE IF m = n THEN params[i][o] ELSE @[m]]]
  /\ pname' = [pname EXCEPT ![params[i][o]] = n]
  /\ UNCHANGED <<live, fam, procs, systs, pval, pfrozen, sname, sproc, ub>>

RenameSystematic(i, Q, j, o, n) ==
  /\ Callable(i) /\ j \in live
  /\ Named(i, Q, o) # {}
  /\ Careful => \A k \in live \ {j} : systs[k] \cap Named(i, Q, o) = {}
  /\ sname' = [s \in SystIds |-> IF s \in Named(i, Q, o) THEN n ELSE sname[s]]
  /\ CreateParameterIfEmpty(j, n)
  /\ UNCHANGED <<live, fam, procs, systs, sproc, ub>>

\* The copies: first clones Named(i, Tags, o) as n1, second clones src as n2.
SplitInto(i, o, n1, n2, so1, so2) ==
  LET first == DOMAIN so1
      second == DOMAIN so2
      Origin(s) == IF s \in first THEN so1[s]
                   ELSE IF so2[s] \in first THEN so1[so2[s]] ELSE so2[s]
  IN /\ sname' = [s \in SystIds |-> IF s \in first THEN n1
                                    ELSE IF s \in second THEN n2 ELSE sname[s]]
     /\ sproc' = [s \in SystIds |-> IF s \in first \cup second
                                    THEN sproc[Origin(s)] ELSE sproc[s]]
     /\ systs' = [systs EXCEPT ![i] = {s \in @ \cup first \cup second : sname'[s] # o}]

\* Two renamed copies of every Systematic called o, then o is filtered out.
\* The second round of copies also sees the first if that kept the name o.
SplitSyst(i, o, n1, n2) ==
  /\ Callable(i)
  /\ Named(i, Tags, o) # {}
  /\ Careful => params[i][n1] # Null /\ params[i][n2] # Null
  /\ \E first \in SUBSET FreshSysts : \E so1 \in Bijection(first, Named(i, Tags, o)) :
     \E second \in SUBSET (FreshSysts \ first) :
     \E so2 \in Bijection(second, Named(i, Tags, o) \cup (IF n1 = o THEN first ELSE {})) :
       SplitInto(i, o, n1, n2, so1, so2)
  /\ UNCHANGED <<live, fam, procs, params, pname, pval, pfrozen, ub>>

-----------------------------------------------------------------------------
(* Parameter values.                                                       *)

SetFrozen(i, n, b) ==
  /\ Callable(i) /\ n \in Key(i)
  /\ pfrozen' = [pfrozen EXCEPT ![params[i][n]] = b]
  /\ UNCHANGED <<live, fam, procs, systs, params, pname, pval, sname, sproc, ub>>

\* UpdateParameters(fit): looked up by key.  fit[n] = Null: n does not float.
UpdateParameters(i, fit) ==
  /\ Callable(i)
  /\ pval' = [p \in ParamIds |->
       IF ~pfrozen[p] /\ \E n \in Key(i) : params[i][n] = p /\ fit[n] # Null
       THEN fit[CHOOSE n \in Key(i) : params[i][n] = p /\ fit[n] # Null]
       ELSE pval[p]]
  /\ UNCHANGED <<live, fam, procs, systs, params, pname, pfrozen, sname, sproc, ub>>

\* Keys of i whose backup copy carries the name n, see GetParameters.
BackupKeys(i, n) == {k \in Key(i) : pname[params[i][k]] = n}
LastKey(K) == CHOOSE k \in K : \A l \in K : l <= k

\* Mutant: no UpdateParameters(backup) after the sampling loop.
LeftUnrestored(i, n, fit) ==
  IF fit[n] # Null THEN fit[n] ELSE pval[params[i][n]]

\* The value a parameter is left with by a sampling evaluation of i: the fit
\* is sampled by key, the backup is put back by the name each copy carries,
\* in key order, so the last one of a name wins.
Left(i, n, fit) ==
  IF BackupKeys(i, n) # {} THEN pval[params[i][LastKey(BackupKeys(i, n))]]
  ELSE IF fit[n] # Null THEN fit[n]
  ELSE pval[params[i][n]]

\* GetUncertainty(fit, n), GetShapeWithUncertainty(fit, n), GetRateCovariance:
\* the nominal evaluation comes first and throws if a Parameter is missing.
EvaluateFit(i, fit) ==
  /\ Callable(i)
  /\ Evaluable(i)
  /\ pval' = [p \in ParamIds |->
       IF ~pfrozen[p] /\ p \in ParamsOf(i)
       THEN Left(i, CHOOSE n \in Key(i) : params[i][n] = p, fit)
       ELSE pval[p]]
  /\ UNCHANGED <<live, fam, procs, systs, params, pname, pfrozen, sname, sproc, ub>>

Fits == [Names -> Vals \cup {Null}]

Next ==
  \/ \E i, j \in Insts : cp(i, j) \/ deep(i, j)
  \/ \E i \in Insts : Destroy(i) \/ CloneSystsOntoSelf(i)
  \/ \E i \in Insts, Q \in SUBSET Tags : process(i, Q)
  \/ \E i \in Insts, n \in Names, b \in BOOLEAN : syst_name(i, n, b) \/ SetFrozen(i, n, b)
  \/ \E i, j \in Insts, Q \in SUBSET Tags, n \in Names : AddSyst(i, Q, j, n)
  \/ \E i \in Insts, n \in Names, v \in Vals : AddSystVar(i, n, v)
  \/ \E i, j \in Insts, Q \in SUBSET Tags, o, n \in Names :
       CloneSysts(i, Q, o, j, n) \/ RenameSystematic(i, Q, j, o, n)
  \/ \E i \in Insts, o, n \in Names : RenameParameter(i, o, n)
  \/ \E i \in Insts, o, n1, n2 \in Names : SplitSyst(i, o, n1, n2)
  \/ \E i \in Insts, fit \in Fits : UpdateParameters(i, fit) \/ EvaluateFit(i, fit)

Spec == Init /\ [][Next]_vars

-----------------------------------------------------------------------------
(* Properties.                                                             *)

TypeOK ==
  /\ live \subseteq Insts /\ Root \in live
  /\ fam \in [Insts -> Insts]
  /\ procs \in [Insts -> SUBSET Procs]
  /\ systs \in [Insts -> SUBSET SystIds]
  /\ params \in [Insts -> [Names -> ParamIds \cup {Null}]]
  /\ pname \in [ParamIds -> Names] /\ pval \in [ParamIds -> Vals]
  /\ pfrozen \in [ParamIds -> BOOLEAN]
  /\ sname \in [SystIds -> Names] /\ sproc \in [SystIds -> Tags]
  /\ ub \in BOOLEAN

\* The key of a Parameter in params_ is the name the Parameter carries: what
\* UpdateParameters(GetParameters()) and the datacard writer rely on.
KeyIsName ==
  \A i \in live : \A n \in Key(i) : pname[params[i][n]] = n

\* Every Systematic of an instance finds its Parameter there, so that
\* GetRateInternal and GetShapeInternal never throw "Parameter not found".
SystsHaveParams ==
  \A i \in live : \A s \in systs[i] : params[i][sname[s]] # Null

\* Instances separated by a deep() never come to share a Parameter or a
\* Systematic, whatever calls pass one of them as the target of the other.
FamiliesDisjoint ==
  \A i, j \in live : fam[i] # fam[j] =>
    ParamsOf(i) \cap ParamsOf(j) = {} /\ systs[i] \cap systs[j] = {}

\* A sampling evaluation leaves every Parameter with the value it had.
EvaluationRestores ==
  [][pval' # pval => \A i \in Insts, fit \in Fits : ~EvaluateFit(i, fit)]_vars

\* A frozen Parameter keeps its value, whichever of the instances that share
\* it is updated, evaluated or extended.
FrozenHolds ==
  [][\A i \in live \cap live' : \A p \in ParamsOf(i) \cap ParamsOf(i)' :
       pfrozen[p] /\ pfrozen'[p] => pval'[p] = pval[p]]_vars

\* "Completely independent" deep copies: one call never writes objects of two
\* instances that a deep() separates.
Touched(i) ==
  \/ \E p \in ParamsOf(i) : <<pname[p], pval[p], pfrozen[p]>>' # <<pname[p], pval[p], pfrozen[p]>>
  \/ \E s \in systs[i] : <<sname[s], sproc[s]>>' # <<sname[s], sproc[s]>>
DeepCopiesIndependent ==
  [][\A i, j \in live : fam[i] # fam[j] => ~(Touched(i) /\ Touched(j))]_vars
=============================================================================
