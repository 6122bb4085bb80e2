--------------------------- MODULE HarvesterProofs ---------------------------
(***************************************************************************)
(* Theorems about Harvester, for any number of instances, names, processes *)
(* and heap cells.                                                         *)
(***************************************************************************)
EXTENDS Harvester, TLAPS

-----------------------------------------------------------------------------
(* Lemmas about the operators the calls are built from.                    *)

\* A bijection is a function between the two sets.
LEMMA BijectionType ==
  ASSUME NEW S, NEW T, NEW f \in Bijection(S, T)
  PROVE  /\ f \in [S -> T]
         /\ \A t \in T : \E s \in S : f[s] = t
BY DEF Bijection, Injection, Surjection, IsInjective

\* An injection is a one-to-one function.
LEMMA InjectionType ==
  ASSUME NEW S, NEW T, NEW f \in Injection(S, T)
  PROVE  /\ f \in [S -> T]
         /\ \A a, b \in S : f[a] = f[b] => a = b
BY DEF Injection, IsInjective

\* Null is no heap cell.
LEMMA NullOutside == Null \notin ParamIds /\ Null \notin SystIds
BY NullAssumption

\* CreateParameterIfEmpty keeps the types of what it writes.
LEMMA CreateParameterType ==
  ASSUME TypeOK, NEW j \in Insts, NEW n \in Names, CreateParameterIfEmpty(j, n)
  PROVE  /\ params' \in [Insts -> [Names -> ParamIds \cup {Null}]]
         /\ pname' \in [ParamIds -> Names]
         /\ pval' \in [ParamIds -> Vals]
         /\ pfrozen' \in [ParamIds -> BOOLEAN]
<1>1. CASE params[j][n] # Null
  BY <1>1 DEF CreateParameterIfEmpty, TypeOK
<1>2. CASE params[j][n] = Null
  <2>1. PICK p \in FreshParams :
           /\ params' = [params EXCEPT ![j][n] = p]
           /\ pname' = [pname EXCEPT ![p] = n]
           /\ pval' = [pval EXCEPT ![p] = 0]
           /\ pfrozen' = [pfrozen EXCEPT ![p] = FALSE]
    BY <1>2 DEF CreateParameterIfEmpty
  <2>2. p \in ParamIds
    BY DEF FreshParams
  <2>3. params' \in [Insts -> [Names -> ParamIds \cup {Null}]]
    BY <2>1, <2>2 DEF TypeOK
  <2>4. pname' \in [ParamIds -> Names]
    BY <2>1, <2>2 DEF TypeOK
  <2>5. pval' \in [ParamIds -> Vals]
    BY <2>1, <2>2, ValsAssumption DEF TypeOK
  <2>6. pfrozen' \in [ParamIds -> BOOLEAN]
    BY <2>1, <2>2 DEF TypeOK
  <2> QED
    BY <2>3, <2>4, <2>5, <2>6
<1> QED
  BY <1>1, <1>2

\* InsertSystematics keeps the types of what it writes.
LEMMA InsertSystematicsType ==
  ASSUME TypeOK, NEW j \in Insts, NEW new \in SUBSET SystIds,
         NEW name \in [new -> Names], NEW proc \in [new -> Tags],
         InsertSystematics(j, name, proc)
  PROVE  /\ systs' \in [Insts -> SUBSET SystIds]
         /\ sname' \in [SystIds -> Names]
         /\ sproc' \in [SystIds -> Tags]
<1>0. DOMAIN name = new
  OBVIOUS
<1>1. systs' \in [Insts -> SUBSET SystIds]
  BY <1>0 DEF InsertSystematics, TypeOK
<1>2. sname' \in [SystIds -> Names]
  BY <1>0 DEF InsertSystematics, TypeOK
<1>3. sproc' \in [SystIds -> Tags]
  BY <1>0 DEF InsertSystematics, TypeOK
<1> QED
  BY <1>1, <1>2, <1>3

\* The objects deep() clones are those of the source.
LEMMA CloneObjectsType ==
  ASSUME TypeOK, NEW i \in Insts, NEW j \in Insts,
         NEW new \in SUBSET FreshSysts, NEW so \in Bijection(new, systs[i]),
         NEW m \in Injection(Key(i), FreshParams), CloneObjects(i, j, so, m)
  PROVE  /\ systs' \in [Insts -> SUBSET SystIds]
         /\ sname' \in [SystIds -> Names] /\ sproc' \in [SystIds -> Tags]
         /\ params' \in [Insts -> [Names -> ParamIds \cup {Null}]]
         /\ pname' \in [ParamIds -> Names] /\ pval' \in [ParamIds -> Vals]
         /\ pfrozen' \in [ParamIds -> BOOLEAN]
<1> DEFINE newP == {m[n] : n \in Key(i)}
           From(p) == params[i][CHOOSE n \in Key(i) : m[n] = p]
<1>1. /\ so \in [new -> SystIds] /\ DOMAIN so = new /\ new \subseteq SystIds
  BY BijectionType DEF TypeOK, FreshSysts
<1>2. m \in [Key(i) -> ParamIds]
  BY InjectionType DEF FreshParams
<1>3. ASSUME NEW p \in newP PROVE From(p) \in ParamIds
  <2>1. PICK n \in Key(i) : m[n] = p
    OBVIOUS
  <2>2. (CHOOSE k \in Key(i) : m[k] = p) \in Key(i)
    BY <2>1
  <2>3. \A k \in Key(i) : params[i][k] \in ParamIds
    BY DEF Key, TypeOK
  <2> QED
    BY <2>2, <2>3
<1>4. /\ systs' = [systs EXCEPT ![j] = DOMAIN so]
      /\ sname' = [s \in SystIds |-> IF s \in DOMAIN so THEN sname[so[s]] ELSE sname[s]]
      /\ sproc' = [s \in SystIds |-> IF s \in DOMAIN so THEN sproc[so[s]] ELSE sproc[s]]
      /\ params' = [params EXCEPT ![j] =
                      [n \in Names |-> IF n \in Key(i) THEN m[n] ELSE Null]]
      /\ pname' = [p \in ParamIds |-> IF p \in newP THEN pname[From(p)] ELSE pname[p]]
      /\ pval' = [p \in ParamIds |-> IF p \in newP THEN pval[From(p)] ELSE pval[p]]
      /\ pfrozen' = [p \in ParamIds |-> IF p \in newP THEN pfrozen[From(p)] ELSE pfrozen[p]]
  BY DEF CloneObjects
<1> HIDE DEF newP, From
<1>5. systs' \in [Insts -> SUBSET SystIds]
  BY <1>1, <1>4 DEF TypeOK
<1>6. sname' \in [SystIds -> Names] /\ sproc' \in [SystIds -> Tags]
  BY <1>1, <1>4 DEF TypeOK
<1>7. params' \in [Insts -> [Names -> ParamIds \cup {Null}]]
  BY <1>2, <1>4 DEF TypeOK
<1>8. pname' \in [ParamIds -> Names]
  BY <1>3, <1>4 DEF TypeOK
<1>9. pval' \in [ParamIds -> Vals]
  BY <1>3, <1>4 DEF TypeOK
<1>10. pfrozen' \in [ParamIds -> BOOLEAN]
  BY <1>3, <1>4 DEF TypeOK
<1> QED
  BY <1>5, <1>6, <1>7, <1>8, <1>9, <1>10

\* A fresh cell is no cell of a live instance.
LEMMA FreshNotUsed ==
  ASSUME NEW i \in live
  PROVE  /\ FreshParams \subseteq ParamIds /\ FreshParams \cap ParamsOf(i) = {}
         /\ FreshSysts \subseteq SystIds /\ FreshSysts \cap systs[i] = {}
BY DEF FreshParams, FreshSysts

\* The last key in map order is one of the keys.
LEMMA LastKeyMember ==
  ASSUME NEW K \in SUBSET Names, K # {}
  PROVE  LastKey(K) \in K
BY NamesAssumption DEF LastKey

-----------------------------------------------------------------------------
(* Type correctness.                                                       *)

\* The constructed Root has the right types.
LEMMA InitType == Init => TypeOK
<1>1. (CHOOSE n \in Names : TRUE) \in Names
  BY NamesAssumption
<1> SUFFICES ASSUME Init PROVE TypeOK
  OBVIOUS
<1>2. /\ live \subseteq Insts /\ Root \in live /\ fam \in [Insts -> Insts]
      /\ procs \in [Insts -> SUBSET Procs] /\ ub \in BOOLEAN
  BY InstsAssumption DEF Init
<1>3. /\ systs \in [Insts -> SUBSET SystIds]
      /\ params \in [Insts -> [Names -> ParamIds \cup {Null}]]
  BY DEF Init
<1>4. /\ pname \in [ParamIds -> Names] /\ sname \in [SystIds -> Names]
      /\ pval \in [ParamIds -> Vals] /\ pfrozen \in [ParamIds -> BOOLEAN]
      /\ sproc \in [SystIds -> Tags]
  BY <1>1, ValsAssumption DEF Init, Tags
<1> QED
  BY <1>2, <1>3, <1>4 DEF TypeOK

\* Every call keeps the types.
LEMMA NextType == TypeOK /\ [Next]_vars => TypeOK'
<1> SUFFICES ASSUME TypeOK, [Next]_vars PROVE TypeOK'
  OBVIOUS
<1> USE DEF Callable
<1>1. ASSUME NEW i \in Insts, NEW j \in Insts, cp(i, j) PROVE TypeOK'
  BY <1>1 DEF cp, cells, TypeOK
<1>2. ASSUME NEW i \in Insts, NEW j \in Insts, deep(i, j) PROVE TypeOK'
  <2>1. PICK new \in SUBSET FreshSysts : \E so \in Bijection(new, systs[i]),
               m \in Injection(Key(i), FreshParams) : CloneObjects(i, j, so, m)
    BY <1>2 DEF deep
  <2>2. PICK so \in Bijection(new, systs[i]), m \in Injection(Key(i), FreshParams) :
          CloneObjects(i, j, so, m)
    BY <2>1
  <2>3. /\ live' \subseteq Insts /\ Root \in live'
        /\ fam' \in [Insts -> Insts] /\ procs' \in [Insts -> SUBSET Procs]
        /\ ub' \in BOOLEAN
    BY <1>2 DEF deep, TypeOK
  <2> QED
    BY <2>2, <2>3, CloneObjectsType DEF TypeOK
<1>3. ASSUME NEW i \in Insts, Destroy(i) PROVE TypeOK'
  BY <1>3, InstsAssumption DEF Destroy, cells, TypeOK
<1>4. ASSUME NEW i \in Insts, CloneSystsOntoSelf(i) PROVE TypeOK'
  BY <1>4 DEF CloneSystsOntoSelf, cells, TypeOK
<1>5. ASSUME NEW i \in Insts, NEW Q \in SUBSET Tags, process(i, Q) PROVE TypeOK'
  BY <1>5 DEF process, cells, TypeOK
<1>6. ASSUME NEW i \in Insts, NEW n \in Names, NEW b \in BOOLEAN, syst_name(i, n, b)
      PROVE TypeOK'
  BY <1>6 DEF syst_name, cells, TypeOK
<1>7. ASSUME NEW i \in Insts, NEW n \in Names, NEW b \in BOOLEAN, SetFrozen(i, n, b)
      PROVE TypeOK'
  BY <1>7 DEF SetFrozen, TypeOK
<1>8. ASSUME NEW i \in Insts, NEW j \in Insts, NEW Q \in SUBSET Tags, NEW n \in Names,
             AddSyst(i, Q, j, n)
      PROVE TypeOK'
  <2>1. PICK new \in SUBSET FreshSysts : \E proc \in Bijection(new, procs[i] \cap Q) :
          InsertSystematics(j, [s \in new |-> n], proc)
    BY <1>8 DEF AddSyst
  <2>2. PICK proc \in Bijection(new, procs[i] \cap Q) :
          InsertSystematics(j, [s \in new |-> n], proc)
    BY <2>1
  <2>3. new \subseteq SystIds /\ proc \in [new -> procs[i] \cap Q]
    BY BijectionType DEF FreshSysts
  <2>4. proc \in [new -> Tags] /\ [s \in new |-> n] \in [new -> Names]
    BY <2>3 DEF Tags
  <2>5. /\ systs' \in [Insts -> SUBSET SystIds]
        /\ sname' \in [SystIds -> Names] /\ sproc' \in [SystIds -> Tags]
    BY <2>2, <2>3, <2>4, InsertSystematicsType
  <2>6. CreateParameterIfEmpty(j, n) /\ UNCHANGED <<live, fam, procs, ub>>
    BY <1>8 DEF AddSyst
  <2> QED
    BY <2>5, <2>6, CreateParameterType DEF TypeOK
<1>9. ASSUME NEW i \in Insts, NEW n \in Names, NEW v \in Vals, AddSystVar(i, n, v)
      PROVE TypeOK'
  <2>1. PICK s \in FreshSysts :
          InsertSystematics(i, [t \in {s} |-> n], [t \in {s} |-> Null])
    BY <1>9 DEF AddSystVar
  <2>2. {s} \in SUBSET SystIds /\ [t \in {s} |-> Null] \in [{s} -> Tags]
    BY DEF FreshSysts, Tags
  <2>3. /\ systs' \in [Insts -> SUBSET SystIds]
        /\ sname' \in [SystIds -> Names] /\ sproc' \in [SystIds -> Tags]
    BY <2>1, <2>2, InsertSystematicsType
  <2>4. /\ params' \in [Insts -> [Names -> ParamIds \cup {Null}]]
        /\ pname' \in [ParamIds -> Names] /\ pval' \in [ParamIds -> Vals]
        /\ pfrozen' \in [ParamIds -> BOOLEAN]
    <3>1. CASE params[i][n] # Null
      BY <1>9, <3>1 DEF AddSystVar, Written, TypeOK
    <3>2. CASE params[i][n] = Null
      <4>1. PICK p \in FreshParams :
              /\ params' = [params EXCEPT ![i][n] = p]
              /\ pname' = [pname EXCEPT ![p] = n]
              /\ pval' = [pval EXCEPT ![p] = v]
              /\ pfrozen' = [pfrozen EXCEPT ![p] = FALSE]
        BY <1>9, <3>2 DEF AddSystVar
      <4>2. p \in ParamIds
        BY DEF FreshParams
      <4> QED
        BY <4>1, <4>2 DEF TypeOK
    <3> QED
      BY <3>1, <3>2
  <2>5. UNCHANGED <<live, fam, procs, ub>>
    BY <1>9 DEF AddSystVar
  <2> QED
    BY <2>3, <2>4, <2>5 DEF TypeOK
<1>10. ASSUME NEW i \in Insts, NEW j \in Insts, NEW Q \in SUBSET Tags,
              NEW o \in Names, NEW n \in Names, CloneSysts(i, Q, o, j, n)
       PROVE TypeOK'
  <2>1. PICK new \in SUBSET FreshSysts : \E so \in Bijection(new, Named(i, Q, o)) :
          InsertSystematics(j, [s \in new |-> n], [s \in new |-> sproc[so[s]]])
    BY <1>10 DEF CloneSysts
  <2>2. PICK so \in Bijection(new, Named(i, Q, o)) :
          InsertSystematics(j, [s \in new |-> n], [s \in new |-> sproc[so[s]]])
    BY <2>1
  <2>3. new \subseteq SystIds /\ so \in [new -> SystIds]
    BY BijectionType DEF FreshSysts, Named, TypeOK
  <2>4. [s \in new |-> sproc[so[s]]] \in [new -> Tags] /\ [s \in new |-> n] \in [new -> Names]
    BY <2>3 DEF TypeOK
  <2>5. /\ systs' \in [Insts -> SUBSET SystIds]
        /\ sname' \in [SystIds -> Names] /\ sproc' \in [SystIds -> Tags]
    BY <2>2, <2>3, <2>4, InsertSystematicsType
  <2> QED
    BY <1>10, <2>5 DEF CloneSysts, TypeOK
<1>11. ASSUME NEW i \in Insts, NEW j \in Insts, NEW Q \in SUBSET Tags,
              NEW o \in Names, NEW n \in Names, RenameSystematic(i, Q, j, o, n)
       PROVE TypeOK'
  <2>1. CreateParameterIfEmpty(j, n)
    BY <1>11 DEF RenameSystematic
  <2>2. sname' \in [SystIds -> Names]
    BY <1>11 DEF RenameSystematic, TypeOK
  <2> QED
    BY <1>11, <2>1, <2>2, CreateParameterType DEF RenameSystematic, TypeOK
<1>12. ASSUME NEW i \in Insts, NEW o \in Names, NEW n \in Names, RenameParameter(i, o, n)
       PROVE TypeOK'
  <2>1. params[i][o] \in ParamIds
    BY <1>12 DEF RenameParameter, TypeOK
  <2> QED
    BY <1>12, <2>1 DEF RenameParameter, TypeOK
<1>13. ASSUME NEW i \in Insts, NEW o \in Names, NEW n1 \in Names, NEW n2 \in Names,
              SplitSyst(i, o, n1, n2)
       PROVE TypeOK'
  <2>1. PICK first \in SUBSET FreshSysts : \E so1 \in Bijection(first, Named(i, Tags, o)) :
          \E second \in SUBSET (FreshSysts \ first) :
          \E so2 \in Bijection(second, Named(i, Tags, o) \cup (IF n1 = o THEN first ELSE {})) :
            SplitInto(i, o, n1, n2, so1, so2)
    BY <1>13 DEF SplitSyst
  <2>2. PICK so1 \in Bijection(first, Named(i, Tags, o)) :
          \E second \in SUBSET (FreshSysts \ first) :
          \E so2 \in Bijection(second, Named(i, Tags, o) \cup (IF n1 = o THEN first ELSE {})) :
            SplitInto(i, o, n1, n2, so1, so2)
    BY <2>1
  <2>3. PICK second \in SUBSET (FreshSysts \ first) :
          \E so2 \in Bijection(second, Named(i, Tags, o) \cup (IF n1 = o THEN first ELSE {})) :
            SplitInto(i, o, n1, n2, so1, so2)
    BY <2>2
  <2>4. PICK so2 \in Bijection(second, Named(i, Tags, o) \cup (IF n1 = o THEN first ELSE {})) :
          SplitInto(i, o, n1, n2, so1, so2)
    BY <2>3
  <2>5. /\ so1 \in [first -> SystIds] /\ DOMAIN so1 = first /\ first \subseteq SystIds
        /\ so2 \in [second -> SystIds] /\ DOMAIN so2 = second /\ second \subseteq SystIds
    <3>1. first \subseteq SystIds /\ second \subseteq SystIds /\ Named(i, Tags, o) \subseteq SystIds
      BY DEF FreshSysts, Named, TypeOK
    <3>2. Named(i, Tags, o) \cup (IF n1 = o THEN first ELSE {}) \subseteq SystIds
      BY <3>1
    <3>3. so1 \in [first -> Named(i, Tags, o)]
      BY BijectionType
    <3>4. so2 \in [second -> Named(i, Tags, o) \cup (IF n1 = o THEN first ELSE {})]
      BY BijectionType
    <3> QED
      BY <3>1, <3>2, <3>3, <3>4
  <2>6. sname' \in [SystIds -> Names]
    BY <2>4, <2>5 DEF SplitInto, TypeOK
  <2>7. sproc' \in [SystIds -> Tags]
    <3>1. ASSUME NEW s \in SystIds PROVE sproc'[s] \in Tags
      BY <2>4, <2>5 DEF SplitInto, TypeOK
    <3>2. sproc' = [s \in SystIds |-> sproc'[s]]
      BY <2>4 DEF SplitInto
    <3> QED
      BY <3>1, <3>2
  <2>8. systs' \in [Insts -> SUBSET SystIds]
    BY <2>4, <2>5 DEF SplitInto, TypeOK
  <2> QED
    BY <1>13, <2>6, <2>7, <2>8 DEF SplitSyst, TypeOK
<1>14. ASSUME NEW i \in Insts, NEW fit \in Fits, UpdateParameters(i, fit)
       PROVE TypeOK'
  <2>1. ASSUME NEW p \in ParamIds PROVE pval'[p] \in Vals
    <3>1. CASE ~pfrozen[p] /\ \E n \in Key(i) : params[i][n] = p /\ fit[n] # Null
      <4> DEFINE k == CHOOSE n \in Key(i) : params[i][n] = p /\ fit[n] # Null
      <4>1. k \in Key(i) /\ fit[k] # Null
        BY <3>1
      <4>2. fit[k] \in Vals
        BY <4>1 DEF Key, Fits
      <4> QED
        BY <1>14, <3>1, <4>2 DEF UpdateParameters
    <3>2. CASE ~(~pfrozen[p] /\ \E n \in Key(i) : params[i][n] = p /\ fit[n] # Null)
      <4>1. pval'[p] = pval[p]
        BY <1>14, <3>2 DEF UpdateParameters
      <4> QED
        BY <4>1 DEF TypeOK
    <3> QED
      BY <3>1, <3>2
  <2>2. pval' \in [ParamIds -> Vals]
    BY <1>14, <2>1 DEF UpdateParameters
  <2> QED
    BY <1>14, <2>2 DEF UpdateParameters, TypeOK
<1>15. ASSUME NEW i \in Insts, NEW fit \in Fits, EvaluateFit(i, fit)
       PROVE TypeOK'
  <2>1. ASSUME NEW n \in Key(i) PROVE Left(i, n, fit) \in Vals
    <3>1. \A k \in Key(i) : params[i][k] \in ParamIds
      BY DEF Key, TypeOK
    <3>2. CASE BackupKeys(i, n) # {}
      <4>1. LastKey(BackupKeys(i, n)) \in Key(i)
        BY <3>2, LastKeyMember DEF BackupKeys, Key
      <4> QED
        BY <3>1, <3>2, <4>1 DEF Left, TypeOK
    <3>3. CASE BackupKeys(i, n) = {}
      <4>1. n \in Names
        BY DEF Key
      <4> QED
        BY <3>1, <3>3, <4>1 DEF Left, Fits, TypeOK
    <3> QED
      BY <3>2, <3>3
  <2>2. ASSUME NEW p \in ParamIds PROVE pval'[p] \in Vals
    <3>1. CASE ~pfrozen[p] /\ p \in ParamsOf(i)
      <4>1. (CHOOSE n \in Key(i) : params[i][n] = p) \in Key(i)
        BY <3>1 DEF ParamsOf
      <4> QED
        BY <1>15, <2>1, <3>1, <4>1 DEF EvaluateFit
    <3>2. CASE ~(~pfrozen[p] /\ p \in ParamsOf(i))
      BY <1>15, <3>2 DEF EvaluateFit, TypeOK
    <3> QED
      BY <3>1, <3>2
  <2>3. pval' \in [ParamIds -> Vals]
    BY <1>15, <2>2 DEF EvaluateFit
  <2> QED
    BY <1>15, <2>3 DEF EvaluateFit, TypeOK
<1>16. CASE UNCHANGED vars
  BY <1>16 DEF vars, cells, TypeOK
<1> QED
  BY <1>1, <1>2, <1>3, <1>4, <1>5, <1>6, <1>7, <1>8, <1>9, <1>10, <1>11, <1>12,
     <1>13, <1>14, <1>15, <1>16 DEF Next

\* The containers and cells keep their types under every call.
THEOREM TypeCorrect == Spec => []TypeOK
BY InitType, NextType, PTL DEF Spec

-----------------------------------------------------------------------------
(* Keys and names: what a client that renames through the only holder of an *)
(* object can rely on.                                                      *)

\* A call that adds at most one fresh, correctly named Parameter to j.
LEMMA CreateParameterKeys ==
  ASSUME TypeOK, NEW j \in live, NEW n \in Names, CreateParameterIfEmpty(j, n)
  PROVE  /\ params'[j][n] # Null
         /\ \A k \in live, l \in Names :
              /\ params[k][l] # Null => params'[k][l] = params[k][l]
              /\ params'[k][l] # Null /\ params[k][l] = Null => k = j /\ l = n
         /\ KeyIsName /\ live' = live => KeyIsName'
<1>1. CASE params[j][n] # Null
  BY <1>1 DEF CreateParameterIfEmpty, KeyIsName, Key
<1>2. CASE params[j][n] = Null
  <2>1. PICK p \in FreshParams :
           /\ params' = [params EXCEPT ![j][n] = p]
           /\ pname' = [pname EXCEPT ![p] = n]
    BY <1>2 DEF CreateParameterIfEmpty
  <2>2. p \in ParamIds /\ p # Null /\ \A k \in live : p \notin ParamsOf(k)
    BY NullOutside DEF FreshParams
  <2>3. params'[j][n] # Null
    BY <2>1, <2>2 DEF TypeOK
  <2>4. ASSUME NEW k \in live, NEW l \in Names
        PROVE  /\ params[k][l] # Null => params'[k][l] = params[k][l]
               /\ params'[k][l] # Null /\ params[k][l] = Null => k = j /\ l = n
               /\ ~(k = j /\ l = n) => params'[k][l] = params[k][l]
    BY <1>2, <2>1 DEF TypeOK
  <2>5. ASSUME KeyIsName, NEW k \in live, NEW l \in Names, params'[k][l] # Null
        PROVE  pname'[params'[k][l]] = l
    <3>1. CASE k = j /\ l = n
      <4>1. params'[k][l] = p
        BY <2>1, <3>1 DEF TypeOK
      <4> QED
        BY <2>1, <2>2, <3>1, <4>1 DEF TypeOK
    <3>2. CASE ~(k = j /\ l = n)
      <4>1. params'[k][l] = params[k][l]
        BY <2>4, <3>2
      <4>2. params[k][l] \in ParamsOf(k) /\ pname[params[k][l]] = l
        BY <2>5, <4>1 DEF ParamsOf, Key, KeyIsName
      <4> QED
        BY <2>1, <2>2, <4>1, <4>2 DEF TypeOK
    <3> QED
      BY <3>1, <3>2
  <2> QED
    BY <2>3, <2>4, <2>5 DEF KeyIsName, Key
<1> QED
  BY <1>1, <1>2

\* The copy made by deep() has the keys of the source and its own cells.
LEMMA CloneObjectsKeys ==
  ASSUME TypeOK, NEW i \in live, NEW j \in Insts \ live, NEW new \in SUBSET FreshSysts,
         NEW so \in Bijection(new, systs[i]),
         NEW m \in Injection(Key(i), FreshParams), CloneObjects(i, j, so, m)
  PROVE  /\ \A n \in Names : params'[j][n] # Null =>
              /\ n \in Key(i) /\ params'[j][n] \in FreshParams
              /\ pname'[params'[j][n]] = pname[params[i][n]]
         /\ \A n \in Key(i) : params'[j][n] # Null
         /\ \A k \in live : params'[k] = params[k] /\ systs'[k] = systs[k]
         /\ \A k \in live : \A p \in ParamsOf(k) : pname'[p] = pname[p]
         /\ \A k \in live : \A s \in systs[k] : sname'[s] = sname[s]
         /\ \A s \in systs'[j] : s \in FreshSysts /\ \E t \in systs[i] : sname'[s] = sname[t]
<1>0. m \in [Key(i) -> FreshParams] /\ \A a, b \in Key(i) : m[a] = m[b] => a = b
  BY InjectionType
<1>1. so \in [new -> systs[i]] /\ DOMAIN so = new
  BY BijectionType
<1>2. FreshParams \subseteq ParamIds /\ FreshSysts \subseteq SystIds
  BY DEF FreshParams, FreshSysts
<1> DEFINE newP == {m[n] : n \in Key(i)}
           From(p) == params[i][CHOOSE n \in Key(i) : m[n] = p]
<1>3. /\ systs' = [systs EXCEPT ![j] = new]
      /\ sname' = [s \in SystIds |-> IF s \in new THEN sname[so[s]] ELSE sname[s]]
      /\ params' = [params EXCEPT ![j] =
                      [n \in Names |-> IF n \in Key(i) THEN m[n] ELSE Null]]
      /\ pname' = [p \in ParamIds |-> IF p \in newP THEN pname[From(p)] ELSE pname[p]]
  BY <1>1 DEF CloneObjects
<1>4. ASSUME NEW n \in Key(i) PROVE m[n] \in newP /\ From(m[n]) = params[i][n]
  <2>1. (CHOOSE k \in Key(i) : m[k] = m[n]) = n
    BY <1>0
  <2> QED
    BY <2>1
<1>5. newP \subseteq FreshParams
  BY <1>0
<1> HIDE DEF newP, From
<1>6. ASSUME NEW n \in Names
      PROVE  /\ n \in Key(i) => params'[j][n] = m[n] /\ m[n] \in FreshParams
             /\ n \notin Key(i) => params'[j][n] = Null
  BY <1>0, <1>3 DEF TypeOK
<1>7. ASSUME NEW n \in Key(i) PROVE pname'[m[n]] = pname[params[i][n]]
  BY <1>0, <1>2, <1>3, <1>4
<1>8. ASSUME NEW k \in live PROVE params'[k] = params[k] /\ systs'[k] = systs[k]
  BY <1>3 DEF TypeOK
<1>9. ASSUME NEW k \in live, NEW p \in ParamsOf(k) PROVE pname'[p] = pname[p]
  <2>1. p \in ParamIds
    BY DEF ParamsOf, Key, TypeOK
  <2>2. p \notin newP
    BY <1>5, FreshNotUsed
  <2> QED
    BY <1>3, <2>1, <2>2
<1>10. ASSUME NEW k \in live, NEW s \in systs[k] PROVE sname'[s] = sname[s]
  <2>1. s \in SystIds /\ s \notin new
    BY FreshNotUsed DEF TypeOK
  <2> QED
    BY <1>3, <2>1
<1>11. ASSUME NEW s \in systs'[j]
       PROVE  s \in FreshSysts /\ \E t \in systs[i] : sname'[s] = sname[t]
  <2>1. s \in new
    BY <1>3 DEF TypeOK
  <2>2. so[s] \in systs[i] /\ sname'[s] = sname[so[s]]
    BY <1>1, <1>2, <1>3, <2>1
  <2> QED
    BY <2>1, <2>2
<1>12. ASSUME NEW n \in Names, params'[j][n] # Null
       PROVE  /\ n \in Key(i) /\ params'[j][n] \in FreshParams
              /\ pname'[params'[j][n]] = pname[params[i][n]]
  BY <1>6, <1>7, <1>12
<1>13. ASSUME NEW n \in Key(i) PROVE params'[j][n] # Null
  <2>1. n \in Names
    BY DEF Key
  <2> QED
    BY <1>2, <1>6, <2>1, NullOutside
<1> QED
  BY <1>8, <1>9, <1>10, <1>11, <1>12, <1>13

\* The same of the action itself.
LEMMA DeepCopies ==
  ASSUME TypeOK, NEW i \in Insts, NEW j \in Insts, deep(i, j)
  PROVE  /\ i \in live /\ j \notin live /\ live' = live \cup {j}
         /\ \A n \in Names : params'[j][n] # Null =>
              /\ n \in Key(i) /\ params'[j][n] \in FreshParams
              /\ pname'[params'[j][n]] = pname[params[i][n]]
         /\ \A n \in Key(i) : params'[j][n] # Null
         /\ \A k \in live : params'[k] = params[k] /\ systs'[k] = systs[k]
         /\ \A k \in live : \A p \in ParamsOf(k) : pname'[p] = pname[p]
         /\ \A k \in live : \A s \in systs[k] : sname'[s] = sname[s]
         /\ \A s \in systs'[j] : s \in FreshSysts /\ \E t \in systs[i] : sname'[s] = sname[t]
<1>1. PICK new \in SUBSET FreshSysts : \E so \in Bijection(new, systs[i]),
             m \in Injection(Key(i), FreshParams) : CloneObjects(i, j, so, m)
  BY DEF deep
<1>2. PICK so \in Bijection(new, systs[i]), m \in Injection(Key(i), FreshParams) :
        CloneObjects(i, j, so, m)
  BY <1>1
<1>3. i \in live /\ j \in Insts \ live /\ live' = live \cup {j}
  BY DEF deep, Callable
<1> QED
  BY <1>2, <1>3, CloneObjectsKeys

\* No key moves and no Parameter is renamed.
LEMMA KeysUnchanged ==
  ASSUME KeyIsName, live' \subseteq live, UNCHANGED pname,
         \A k \in live' : params'[k] = params[k]
  PROVE  KeyIsName'
BY DEF KeyIsName, Key

\* One call of a client that renames only Parameters nobody else holds.
LEMMA KeyIsNameStep ==
  ASSUME Careful, TypeOK, KeyIsName, [Next]_vars
  PROVE  KeyIsName'
<1> USE DEF Callable
<1>1. ASSUME NEW i \in Insts, NEW j \in Insts, cp(i, j) PROVE KeyIsName'
  BY <1>1 DEF cp, cells, KeyIsName, Key, TypeOK
<1>2. ASSUME NEW i \in Insts, NEW j \in Insts, deep(i, j) PROVE KeyIsName'
  <2>1. i \in live /\ live' = live \cup {j}
    BY <1>2, DeepCopies
  <2>2. ASSUME NEW k \in live', NEW n \in Names, params'[k][n] # Null
        PROVE  pname'[params'[k][n]] = n
    <3>1. CASE k = j
      <4>1. n \in Key(i) /\ pname'[params'[j][n]] = pname[params[i][n]]
        BY <1>2, <2>2, <3>1, DeepCopies
      <4> QED
        BY <2>1, <3>1, <4>1 DEF KeyIsName
    <3>2. CASE k \in live
      <4>1. params'[k] = params[k]
        BY <1>2, <3>2, DeepCopies
      <4>2. n \in Key(k) /\ params[k][n] \in ParamsOf(k)
        BY <2>2, <4>1 DEF Key, ParamsOf
      <4>3. pname'[params[k][n]] = pname[params[k][n]]
        BY <1>2, <3>2, <4>2, DeepCopies
      <4> QED
        BY <3>2, <4>1, <4>2, <4>3 DEF KeyIsName
    <3> QED
      BY <2>1, <3>1, <3>2
  <2> QED
    BY <2>2 DEF KeyIsName, Key
<1>3. ASSUME NEW i \in Insts, Destroy(i) PROVE KeyIsName'
  BY <1>3, KeysUnchanged DEF Destroy, cells, TypeOK
<1>4. ASSUME NEW i \in Insts, NEW j \in Insts, NEW Q \in SUBSET Tags, NEW n \in Names,
             AddSyst(i, Q, j, n)
      PROVE KeyIsName'
  BY <1>4, CreateParameterKeys DEF AddSyst
<1>5. ASSUME NEW i \in Insts, NEW n \in Names, NEW v \in Vals, AddSystVar(i, n, v)
      PROVE KeyIsName'
  <2>1. CASE params[i][n] # Null
    BY <1>5, <2>1, KeysUnchanged DEF AddSystVar
  <2>2. CASE params[i][n] = Null
    <3>1. PICK p \in FreshParams : /\ params' = [params EXCEPT ![i][n] = p]
                                  /\ pname' = [pname EXCEPT ![p] = n]
      BY <1>5, <2>2 DEF AddSystVar
    <3>2. p \in ParamIds /\ \A k \in live : p \notin ParamsOf(k)
      BY DEF FreshParams
    <3>3. ASSUME NEW k \in live, NEW l \in Names, params'[k][l] # Null
          PROVE  pname'[params'[k][l]] = l
      <4>1. CASE k = i /\ l = n
        BY <3>1, <3>2, <4>1 DEF TypeOK
      <4>2. CASE ~(k = i /\ l = n)
        <5>1. params'[k][l] = params[k][l]
          BY <3>1, <4>2 DEF TypeOK
        <5>2. params[k][l] \in ParamsOf(k) /\ pname[params[k][l]] = l
          BY <3>3, <5>1 DEF ParamsOf, Key, KeyIsName
        <5> QED
          BY <3>1, <3>2, <5>1, <5>2 DEF TypeOK
      <4> QED
        BY <4>1, <4>2
    <3> QED
      BY <1>5, <3>3 DEF AddSystVar, KeyIsName, Key
  <2> QED
    BY <2>1, <2>2
<1>6. ASSUME NEW i \in Insts, NEW j \in Insts, NEW Q \in SUBSET Tags,
             NEW o \in Names, NEW n \in Names, RenameSystematic(i, Q, j, o, n)
      PROVE KeyIsName'
  BY <1>6, CreateParameterKeys DEF RenameSystematic
<1>7. ASSUME NEW i \in Insts, NEW o \in Names, NEW n \in Names, RenameParameter(i, o, n)
      PROVE KeyIsName'
  <2> DEFINE P == params[i][o]
  <2>1. /\ i \in live /\ live' = live /\ P \in ParamIds /\ pname[P] = o
        /\ \A k \in live \ {i} : P \notin ParamsOf(k)
        /\ params' = [params EXCEPT ![i] =
             [m \in Names |-> IF m = o THEN Null ELSE IF m = n THEN P ELSE params[i][m]]]
        /\ pname' = [pname EXCEPT ![P] = n]
    BY <1>7 DEF RenameParameter, KeyIsName, Key, TypeOK
  <2> HIDE DEF P
  <2>2. ASSUME NEW k \in live, NEW l \in Names, params'[k][l] # Null
        PROVE  pname'[params'[k][l]] = l
    <3>1. CASE k # i
      <4>1. params'[k][l] = params[k][l]
        BY <2>1, <3>1 DEF TypeOK
      <4>2. params[k][l] # P /\ params[k][l] \in ParamIds /\ pname[params[k][l]] = l
        BY <2>1, <2>2, <3>1, <4>1 DEF ParamsOf, Key, KeyIsName, TypeOK
      <4> QED
        BY <2>1, <4>1, <4>2 DEF TypeOK
    <3>2. CASE k = i /\ l = n
      <4>1. params'[k][l] = P
        BY <2>1, <2>2, <3>2 DEF TypeOK
      <4> QED
        BY <2>1, <3>2, <4>1 DEF TypeOK
    <3>3. CASE k = i /\ l # n
      <4>1. l # o /\ params'[k][l] = params[k][l]
        BY <2>1, <2>2, <3>3 DEF TypeOK
      <4>2. params[k][l] # P /\ params[k][l] \in ParamIds /\ pname[params[k][l]] = l
        BY <2>1, <2>2, <3>3, <4>1 DEF Key, KeyIsName, TypeOK
      <4> QED
        BY <2>1, <4>1, <4>2 DEF TypeOK
    <3> QED
      BY <3>1, <3>2, <3>3
  <2> QED
    BY <2>1, <2>2 DEF KeyIsName, Key
<1>8. ASSUME UNCHANGED <<live, params, pname>> PROVE KeyIsName'
  BY <1>8, KeysUnchanged
<1>9. CASE \E i \in Insts : CloneSystsOntoSelf(i)
  BY <1>8, <1>9 DEF CloneSystsOntoSelf, cells
<1>10. CASE \E i \in Insts, Q \in SUBSET Tags : process(i, Q)
  BY <1>8, <1>10 DEF process, cells
<1>11. CASE \E i \in Insts, n \in Names, b \in BOOLEAN : syst_name(i, n, b) \/ SetFrozen(i, n, b)
  BY <1>8, <1>11 DEF syst_name, SetFrozen, cells
<1>12. CASE \E i, j \in Insts, Q \in SUBSET Tags, o, n \in Names : CloneSysts(i, Q, o, j, n)
  BY <1>8, <1>12 DEF CloneSysts
<1>13. CASE \E i \in Insts, o, n1, n2 \in Names : SplitSyst(i, o, n1, n2)
  BY <1>8, <1>13 DEF SplitSyst
<1>14. CASE \E i \in Insts, fit \in Fits : UpdateParameters(i, fit) \/ EvaluateFit(i, fit)
  BY <1>8, <1>14 DEF UpdateParameters, EvaluateFit
<1>15. CASE UNCHANGED vars
  BY <1>8, <1>15 DEF vars, cells
<1> QED
  BY <1>1, <1>2, <1>3, <1>4, <1>5, <1>6, <1>7, <1>9, <1>10, <1>11, <1>12, <1>13,
     <1>14, <1>15 DEF Next

\* As long as a Parameter is renamed only by its one holder, every instance
\* finds every Parameter under the name it carries.
THEOREM KeysAreNames == Careful => (Spec => []KeyIsName)
<1> SUFFICES ASSUME Careful PROVE Spec => []KeyIsName
  OBVIOUS
<1>1. Init => KeyIsName
  BY InstsAssumption DEF Init, KeyIsName, Key
<1>2. TypeOK /\ KeyIsName /\ [Next]_vars => KeyIsName'
  BY KeyIsNameStep
<1> QED
  BY <1>1, <1>2, TypeCorrect, PTL DEF Spec

\* A sampling evaluation puts back by name what it sampled by key.
LEMMA EvaluationStep ==
  ASSUME TypeOK, KeyIsName, NEW i \in Insts, NEW fit \in Fits, EvaluateFit(i, fit)
  PROVE  pval' = pval
<1>1. i \in live
  BY DEF EvaluateFit, Callable
<1>2. ASSUME NEW n \in Key(i) PROVE Left(i, n, fit) = pval[params[i][n]]
  <2>1. BackupKeys(i, n) = {n}
    BY <1>1 DEF BackupKeys, KeyIsName
  <2>2. LastKey({n}) = n
    BY LastKeyMember DEF Key
  <2> QED
    BY <2>1, <2>2 DEF Left
<1>3. ASSUME NEW p \in ParamIds PROVE pval'[p] = pval[p]
  <2>1. CASE ~pfrozen[p] /\ p \in ParamsOf(i)
    <3> DEFINE k == CHOOSE n \in Key(i) : params[i][n] = p
    <3>1. k \in Key(i) /\ params[i][k] = p
      BY <2>1 DEF ParamsOf
    <3>2. pval'[p] = Left(i, k, fit)
      BY <2>1 DEF EvaluateFit
    <3> QED
      BY <1>2, <3>1, <3>2
  <2>2. CASE ~(~pfrozen[p] /\ p \in ParamsOf(i))
    BY <2>2 DEF EvaluateFit
  <2> QED
    BY <2>1, <2>2
<1>4. pval' = [p \in ParamIds |-> pval'[p]]
  BY DEF EvaluateFit
<1> QED
  BY <1>3, <1>4 DEF TypeOK

\* GetUncertainty(fit, n) and its relatives are read-only for such a client.
THEOREM EvaluationsRestore == Careful => (Spec => EvaluationRestores)
<1> SUFFICES ASSUME Careful PROVE Spec => EvaluationRestores
  OBVIOUS
<1>1. TypeOK /\ KeyIsName =>
        [pval' # pval => \A i \in Insts, fit \in Fits : ~EvaluateFit(i, fit)]_vars
  BY EvaluationStep
<1>2. Spec => []KeyIsName
  BY KeysAreNames
<1> QED
  BY <1>1, <1>2, TypeCorrect, PTL DEF EvaluationRestores

-----------------------------------------------------------------------------
(* What the instances of one program can do to each other: theorems about  *)
(* Harvester that hold for every client, careful or not.                   *)

\* The step touches only objects that i points to, or that no one does.
Footprint(i) ==
  /\ \A k \in live : \A p \in ParamsOf(k) \ ParamsOf(i) :
       pname'[p] = pname[p] /\ pval'[p] = pval[p] /\ pfrozen'[p] = pfrozen[p]
  /\ \A k \in live : \A s \in systs[k] \ systs[i] :
       sname'[s] = sname[s] /\ sproc'[s] = sproc[s]

\* Only j points to more than before, and only to objects no one had.
Grows(j) ==
  /\ live' \subseteq live
  /\ \A k \in live' :
       /\ fam'[k] = fam[k]
       /\ systs'[k] \subseteq systs[k] \cup (IF k = j THEN FreshSysts ELSE {})
       /\ ParamsOf(k)' \subseteq ParamsOf(k) \cup (IF k = j THEN FreshParams ELSE {})

\* The Systematics the step adds are all in j and all called n.
NewNamed(j, n) ==
  /\ \A k \in live : \A s \in systs'[k] :
       sname'[s] = IF s \in systs[k] THEN sname[s] ELSE n
  /\ \A k \in live : k # j => systs'[k] = systs[k]

\* No Parameter of a live instance is lost.
KeysKept == \A k \in live, l \in Names : params[k][l] # Null => params'[k][l] # Null

-----------------------------------------------------------------------------
(* What the helpers leave alone.                                           *)

\* CreateParameterIfEmpty adds one fresh cell at most and writes no other.
LEMMA CreateParameterCells ==
  ASSUME TypeOK, NEW j \in live, NEW n \in Names, CreateParameterIfEmpty(j, n)
  PROVE  /\ \A k \in live : ParamsOf(k)' \subseteq
               ParamsOf(k) \cup (IF k = j THEN FreshParams ELSE {})
         /\ \A k \in live : \A p \in ParamsOf(k) :
               pname'[p] = pname[p] /\ pval'[p] = pval[p] /\ pfrozen'[p] = pfrozen[p]
<1>1. CASE params[j][n] # Null
  BY <1>1 DEF CreateParameterIfEmpty, ParamsOf, Key
<1>2. CASE params[j][n] = Null
  <2>1. PICK q \in FreshParams :
           /\ params' = [params EXCEPT ![j][n] = q]
           /\ pname' = [pname EXCEPT ![q] = n]
           /\ pval' = [pval EXCEPT ![q] = 0]
           /\ pfrozen' = [pfrozen EXCEPT ![q] = FALSE]
    BY <1>2 DEF CreateParameterIfEmpty
  <2>2. ASSUME NEW k \in live, NEW p \in ParamsOf(k)'
        PROVE  p \in ParamsOf(k) \cup (IF k = j THEN FreshParams ELSE {})
    <3>1. PICK l \in Names : params'[k][l] # Null /\ p = params'[k][l]
      BY <2>2 DEF ParamsOf, Key
    <3>2. CASE k = j /\ l = n
      BY <2>1, <3>1, <3>2 DEF TypeOK
    <3>3. CASE ~(k = j /\ l = n)
      BY <2>1, <3>1, <3>3 DEF TypeOK, ParamsOf, Key
    <3> QED
      BY <3>2, <3>3
  <2>3. ASSUME NEW k \in live, NEW p \in ParamsOf(k)
        PROVE  pname'[p] = pname[p] /\ pval'[p] = pval[p] /\ pfrozen'[p] = pfrozen[p]
    <3>1. p # q
      BY FreshNotUsed
    <3> QED
      BY <2>1, <3>1 DEF TypeOK
  <2> QED
    BY <2>2, <2>3
<1> QED
  BY <1>1, <1>2

\* InsertSystematic writes the new cells and shows them to the target alone.
LEMMA InsertSystematicsCells ==
  ASSUME TypeOK, NEW j \in live, NEW new \in SUBSET FreshSysts,
         NEW name, DOMAIN name = new, NEW proc, InsertSystematics(j, name, proc)
  PROVE  /\ \A k \in live : systs'[k] = systs[k] \cup (IF k = j THEN new ELSE {})
         /\ \A k \in live : \A s \in systs[k] : sname'[s] = sname[s] /\ sproc'[s] = sproc[s]
         /\ \A s \in new : sname'[s] = name[s]
<1>1. ASSUME NEW k \in live PROVE systs'[k] = systs[k] \cup (IF k = j THEN new ELSE {})
  BY DEF InsertSystematics, TypeOK
<1>2. ASSUME NEW k \in live, NEW s \in systs[k]
      PROVE  sname'[s] = sname[s] /\ sproc'[s] = sproc[s]
  <2>1. s \in SystIds /\ s \notin new
    BY FreshNotUsed DEF TypeOK
  <2> QED
    BY <2>1 DEF InsertSystematics
<1>3. ASSUME NEW s \in new PROVE sname'[s] = name[s]
  BY DEF InsertSystematics, FreshSysts
<1> QED
  BY <1>1, <1>2, <1>3

\* The cells of the live instances are not among those deep() writes.
LEMMA CloneObjectsCells ==
  ASSUME TypeOK, NEW i \in live, NEW j \in Insts \ live, NEW new \in SUBSET FreshSysts,
         NEW so \in Bijection(new, systs[i]),
         NEW m \in Injection(Key(i), FreshParams), CloneObjects(i, j, so, m)
  PROVE  /\ \A k \in live : \A p \in ParamsOf(k) :
              pname'[p] = pname[p] /\ pval'[p] = pval[p] /\ pfrozen'[p] = pfrozen[p]
         /\ \A k \in live : \A s \in systs[k] : sname'[s] = sname[s] /\ sproc'[s] = sproc[s]
<1> DEFINE newP == {m[n] : n \in Key(i)}
<1>1. so \in [new -> systs[i]] /\ DOMAIN so = new
  BY BijectionType
<1>2. newP \subseteq FreshParams
  BY InjectionType
<1>3. ASSUME NEW k \in live, NEW p \in ParamsOf(k)
      PROVE  pname'[p] = pname[p] /\ pval'[p] = pval[p] /\ pfrozen'[p] = pfrozen[p]
  <2>1. p \in ParamIds
    BY DEF ParamsOf, Key, TypeOK
  <2>2. p \notin newP
    BY <1>2, FreshNotUsed
  <2> QED
    BY <2>1, <2>2 DEF CloneObjects
<1>4. ASSUME NEW k \in live, NEW s \in systs[k]
      PROVE  sname'[s] = sname[s] /\ sproc'[s] = sproc[s]
  <2>1. s \in SystIds /\ s \notin new
    BY FreshNotUsed DEF TypeOK
  <2> QED
    BY <1>1, <2>1 DEF CloneObjects
<1> QED
  BY <1>3, <1>4

\* The same of deep() itself.
LEMMA DeepCells ==
  ASSUME TypeOK, NEW i \in Insts, NEW j \in Insts, deep(i, j)
  PROVE  /\ \A k \in live : \A p \in ParamsOf(k) :
              pname'[p] = pname[p] /\ pval'[p] = pval[p] /\ pfrozen'[p] = pfrozen[p]
         /\ \A k \in live : \A s \in systs[k] : sname'[s] = sname[s] /\ sproc'[s] = sproc[s]
<1>1. PICK new \in SUBSET FreshSysts : \E so \in Bijection(new, systs[i]),
             m \in Injection(Key(i), FreshParams) : CloneObjects(i, j, so, m)
  BY DEF deep
<1>2. PICK so \in Bijection(new, systs[i]), m \in Injection(Key(i), FreshParams) :
        CloneObjects(i, j, so, m)
  BY <1>1
<1>3. i \in live /\ j \in Insts \ live
  BY DEF deep, Callable
<1> QED
  BY <1>2, <1>3, CloneObjectsCells

\* The two rounds of copies of SplitSyst write fresh cells only.
LEMMA SplitCells ==
  ASSUME TypeOK, NEW i \in Insts, NEW o \in Names, NEW n1 \in Names, NEW n2 \in Names,
         SplitSyst(i, o, n1, n2)
  PROVE  /\ \A k \in live : systs'[k] \subseteq
                systs[k] \cup (IF k = i THEN FreshSysts ELSE {})
         /\ \A k \in live : \A s \in systs[k] : sname'[s] = sname[s] /\ sproc'[s] = sproc[s]
         /\ \A s \in systs'[i] : sname'[s] # o /\ (s \in systs[i] \/ sname'[s] \in {n1, n2})
<1>1. PICK first \in SUBSET FreshSysts : \E so1 \in Bijection(first, Named(i, Tags, o)) :
        \E second \in SUBSET (FreshSysts \ first) :
        \E so2 \in Bijection(second, Named(i, Tags, o) \cup (IF n1 = o THEN first ELSE {})) :
          SplitInto(i, o, n1, n2, so1, so2)
  BY DEF SplitSyst
<1>2. PICK so1 \in Bijection(first, Named(i, Tags, o)) :
        \E second \in SUBSET (FreshSysts \ first) :
        \E so2 \in Bijection(second, Named(i, Tags, o) \cup (IF n1 = o THEN first ELSE {})) :
          SplitInto(i, o, n1, n2, so1, so2)
  BY <1>1
<1>3. PICK second \in SUBSET (FreshSysts \ first) :
        \E so2 \in Bijection(second, Named(i, Tags, o) \cup (IF n1 = o THEN first ELSE {})) :
          SplitInto(i, o, n1, n2, so1, so2)
  BY <1>2
<1>4. PICK so2 \in Bijection(second, Named(i, Tags, o) \cup (IF n1 = o THEN first ELSE {})) :
        SplitInto(i, o, n1, n2, so1, so2)
  BY <1>3
<1>5. DOMAIN so1 = first /\ DOMAIN so2 = second
  <2>1. so1 \in [first -> Named(i, Tags, o)]
    BY BijectionType
  <2>2. so2 \in [second -> Named(i, Tags, o) \cup (IF n1 = o THEN first ELSE {})]
    BY BijectionType
  <2> QED
    BY <2>1, <2>2
<1>6. i \in live /\ first \subseteq SystIds /\ second \subseteq SystIds
  BY DEF SplitSyst, Callable, FreshSysts
<1>7. /\ sname' = [s \in SystIds |-> IF s \in first THEN n1
                                     ELSE IF s \in second THEN n2 ELSE sname[s]]
      /\ systs' = [systs EXCEPT ![i] = {s \in @ \cup first \cup second : sname'[s] # o}]
      /\ \A s \in SystIds : s \notin first \cup second => sproc'[s] = sproc[s]
  BY <1>4, <1>5 DEF SplitInto
<1>8. ASSUME NEW k \in live
      PROVE  systs'[k] \subseteq systs[k] \cup (IF k = i THEN FreshSysts ELSE {})
  BY <1>7 DEF TypeOK
<1>9. ASSUME NEW k \in live, NEW s \in systs[k]
      PROVE  sname'[s] = sname[s] /\ sproc'[s] = sproc[s]
  <2>1. s \in SystIds /\ s \notin first /\ s \notin second
    BY FreshNotUsed DEF TypeOK
  <2> QED
    BY <1>7, <2>1
<1>10. ASSUME NEW s \in systs'[i]
       PROVE  sname'[s] # o /\ (s \in systs[i] \/ sname'[s] \in {n1, n2})
  BY <1>6, <1>7 DEF TypeOK
<1> QED
  BY <1>8, <1>9, <1>10

\* A "param" line creates or sets one Parameter and adds one Systematic.
LEMMA AddSystVarCells ==
  ASSUME TypeOK, NEW i \in Insts, NEW n \in Names, NEW v \in Vals, AddSystVar(i, n, v)
  PROVE  /\ Footprint(i) /\ Grows(i)
         /\ \A k \in live : \A p \in ParamsOf(k) : pfrozen[p] => pval'[p] = pval[p]
         /\ params'[i][n] # Null /\ KeysKept /\ NewNamed(i, n)
<1> USE DEF Callable
<1>0. i \in live /\ live' = live /\ fam' = fam
  BY DEF AddSystVar
<1>1. PICK s \in FreshSysts : InsertSystematics(i, [t \in {s} |-> n], [t \in {s} |-> Null])
  BY DEF AddSystVar
<1>2. /\ \A k \in live : systs'[k] = systs[k] \cup (IF k = i THEN {s} ELSE {})
      /\ \A k \in live : \A t \in systs[k] : sname'[t] = sname[t] /\ sproc'[t] = sproc[t]
      /\ sname'[s] = n
  <2>1. {s} \in SUBSET FreshSysts /\ DOMAIN [t \in {s} |-> n] = {s}
    OBVIOUS
  <2> QED
    BY <1>0, <1>1, <2>1, InsertSystematicsCells
<1>5. NewNamed(i, n)
  BY <1>2 DEF NewNamed
<1>3. CASE params[i][n] # Null
  <2>1. params[i][n] \in ParamsOf(i) /\ params[i][n] \in ParamIds
    BY <1>3 DEF ParamsOf, Key, TypeOK
  <2>2. /\ pval' = Written(pval, params[i][n], v)
        /\ UNCHANGED <<params, pname, pfrozen>>
    BY <1>3 DEF AddSystVar
  <2>3. \A p \in ParamIds : p # params[i][n] \/ pfrozen[p] => pval'[p] = pval[p]
    BY <2>1, <2>2 DEF Written, TypeOK
  <2>4. \A k \in live : ParamsOf(k) \subseteq ParamIds /\ ParamsOf(k)' = ParamsOf(k)
    BY <2>2 DEF ParamsOf, Key, TypeOK
  <2>5. Footprint(i)
    BY <1>2, <2>1, <2>2, <2>3, <2>4 DEF Footprint
  <2>6. Grows(i)
    BY <1>0, <1>2, <2>4 DEF Grows
  <2>7. \A k \in live : \A p \in ParamsOf(k) : pfrozen[p] => pval'[p] = pval[p]
    BY <2>3, <2>4
  <2>8. params' = params
    BY <2>2
  <2> QED
    BY <1>3, <1>5, <2>5, <2>6, <2>7, <2>8 DEF KeysKept
<1>4. CASE params[i][n] = Null
  <2>1. PICK q \in FreshParams :
          /\ params' = [params EXCEPT ![i][n] = q]
          /\ pname' = [pname EXCEPT ![q] = n]
          /\ pval' = [pval EXCEPT ![q] = v]
          /\ pfrozen' = [pfrozen EXCEPT ![q] = FALSE]
    BY <1>4 DEF AddSystVar
  <2>2. q \in ParamIds /\ q # Null
    BY NullOutside DEF FreshParams
  <2>3. ASSUME NEW k \in live, NEW p \in ParamsOf(k)
        PROVE  pname'[p] = pname[p] /\ pval'[p] = pval[p] /\ pfrozen'[p] = pfrozen[p]
    <3>1. p # q
      BY FreshNotUsed
    <3> QED
      BY <2>1, <3>1 DEF TypeOK
  <2>4. ASSUME NEW k \in live, NEW p \in ParamsOf(k)'
        PROVE  p \in ParamsOf(k) \cup (IF k = i THEN FreshParams ELSE {})
    <3>1. PICK l \in Names : params'[k][l] # Null /\ p = params'[k][l]
      BY <2>4 DEF ParamsOf, Key
    <3>2. CASE k = i /\ l = n
      BY <2>1, <3>1, <3>2 DEF TypeOK
    <3>3. CASE ~(k = i /\ l = n)
      BY <2>1, <3>1, <3>3 DEF TypeOK, ParamsOf, Key
    <3> QED
      BY <3>2, <3>3
  <2>5. Footprint(i)
    BY <1>2, <2>3 DEF Footprint
  <2>6. Grows(i)
    BY <1>0, <1>2, <2>4 DEF Grows
  <2>7. params'[i][n] # Null /\ KeysKept
    BY <1>0, <2>1, <2>2 DEF TypeOK, KeysKept
  <2> QED
    BY <1>5, <2>3, <2>5, <2>6, <2>7
<1> QED
  BY <1>3, <1>4

-----------------------------------------------------------------------------
(* Every call but cp(), deep() and the destructor has the footprint of one *)
(* instance, lets one instance grow by fresh objects, and writes no frozen *)
(* value.                                                                  *)

FrozenKept == \A k \in live : \A p \in ParamsOf(k) :
                pfrozen[p] /\ pfrozen'[p] => pval'[p] = pval[p]

\* A call that writes no cell and adds nothing.
LEMMA Shrinks ==
  ASSUME UNCHANGED <<fam, cells>>, live' \subseteq live, NEW i \in live,
         \A k \in live' : systs'[k] \subseteq systs[k] /\ params'[k] = params[k]
  PROVE  Footprint(i) /\ Grows(i) /\ FrozenKept
BY DEF cells, Footprint, Grows, ParamsOf, Key, FrozenKept

\* AddSyst: j gains the new Systematics, and the Parameter they need.
LEMMA AddSystEffect ==
  ASSUME TypeOK, NEW i \in Insts, NEW j \in Insts, NEW Q \in SUBSET Tags, NEW n \in Names,
         AddSyst(i, Q, j, n)
  PROVE  /\ j \in live /\ Footprint(j) /\ Grows(j) /\ FrozenKept
         /\ params'[j][n] # Null /\ KeysKept /\ NewNamed(j, n)
<1>1. PICK new \in SUBSET FreshSysts : \E proc \in Bijection(new, procs[i] \cap Q) :
        InsertSystematics(j, [s \in new |-> n], proc)
  BY DEF AddSyst
<1>2. PICK proc \in Bijection(new, procs[i] \cap Q) :
        InsertSystematics(j, [s \in new |-> n], proc)
  BY <1>1
<1>3. j \in live /\ live' = live /\ fam' = fam /\ CreateParameterIfEmpty(j, n)
  BY DEF AddSyst
<1>4. DOMAIN [s \in new |-> n] = new /\ \A s \in new : [t \in new |-> n][s] = n
  OBVIOUS
<1>5. /\ \A k \in live : systs'[k] = systs[k] \cup (IF k = j THEN new ELSE {})
      /\ \A k \in live : \A s \in systs[k] : sname'[s] = sname[s] /\ sproc'[s] = sproc[s]
      /\ \A s \in new : sname'[s] = n
  BY <1>2, <1>3, <1>4, InsertSystematicsCells
<1>6. /\ \A k \in live : ParamsOf(k)' \subseteq
            ParamsOf(k) \cup (IF k = j THEN FreshParams ELSE {})
      /\ \A k \in live : \A p \in ParamsOf(k) :
            pname'[p] = pname[p] /\ pval'[p] = pval[p] /\ pfrozen'[p] = pfrozen[p]
  BY <1>3, CreateParameterCells
<1>7. params'[j][n] # Null /\ KeysKept
  BY <1>3, CreateParameterKeys DEF KeysKept
<1>8. Footprint(j) /\ FrozenKept
  BY <1>5, <1>6 DEF Footprint, FrozenKept
<1>9. Grows(j)
  BY <1>3, <1>5, <1>6 DEF Grows
<1>10. NewNamed(j, n)
  BY <1>5 DEF NewNamed
<1> QED
  BY <1>3, <1>7, <1>8, <1>9, <1>10

\* CloneSysts: j gains the copies, no Parameter is created.
LEMMA CloneSystsEffect ==
  ASSUME TypeOK, NEW i \in Insts, NEW j \in Insts, NEW Q \in SUBSET Tags,
         NEW o \in Names, NEW n \in Names, CloneSysts(i, Q, o, j, n)
  PROVE  /\ j \in live /\ Footprint(j) /\ Grows(j) /\ FrozenKept
         /\ NewNamed(j, n)
<1>1. PICK new \in SUBSET FreshSysts : \E so \in Bijection(new, Named(i, Q, o)) :
        InsertSystematics(j, [s \in new |-> n], [s \in new |-> sproc[so[s]]])
  BY DEF CloneSysts
<1>2. PICK so \in Bijection(new, Named(i, Q, o)) :
        InsertSystematics(j, [s \in new |-> n], [s \in new |-> sproc[so[s]]])
  BY <1>1
<1>3. /\ j \in live
      /\ UNCHANGED <<live, fam, procs, params, pname, pval, pfrozen, ub>>
  BY DEF CloneSysts
<1> DEFINE name == [s \in new |-> n]
           proc == [s \in new |-> sproc[so[s]]]
<1>4. InsertSystematics(j, name, proc) /\ DOMAIN name = new /\ \A s \in new : name[s] = n
  BY <1>2
<1> HIDE DEF name, proc
<1>5. /\ \A k \in live : systs'[k] = systs[k] \cup (IF k = j THEN new ELSE {})
      /\ \A k \in live : \A s \in systs[k] : sname'[s] = sname[s] /\ sproc'[s] = sproc[s]
      /\ \A s \in new : sname'[s] = n
  BY <1>3, <1>4, InsertSystematicsCells
<1>6. Footprint(j) /\ FrozenKept
  BY <1>3, <1>5 DEF Footprint, FrozenKept
<1>7. Grows(j)
  BY <1>3, <1>5 DEF Grows, ParamsOf, Key
<1>8. NewNamed(j, n)
  BY <1>5 DEF NewNamed
<1> QED
  BY <1>3, <1>6, <1>7, <1>8

\* RenameSystematic writes the objects of i and may create a Parameter in j.
LEMMA RenameSystematicEffect ==
  ASSUME TypeOK, NEW i \in Insts, NEW j \in Insts, NEW Q \in SUBSET Tags,
         NEW o \in Names, NEW n \in Names, RenameSystematic(i, Q, j, o, n)
  PROVE  /\ i \in live /\ j \in live /\ live' = live /\ fam' = fam /\ systs' = systs
         /\ Footprint(i) /\ Grows(j) /\ FrozenKept
<1>1. /\ i \in live /\ j \in live /\ CreateParameterIfEmpty(j, n)
      /\ UNCHANGED <<live, fam, procs, systs, sproc, ub>>
      /\ sname' = [s \in SystIds |-> IF s \in Named(i, Q, o) THEN n ELSE sname[s]]
  BY DEF RenameSystematic, Callable
<1>2. /\ \A k \in live : ParamsOf(k)' \subseteq
            ParamsOf(k) \cup (IF k = j THEN FreshParams ELSE {})
      /\ \A k \in live : \A p \in ParamsOf(k) :
            pname'[p] = pname[p] /\ pval'[p] = pval[p] /\ pfrozen'[p] = pfrozen[p]
  BY <1>1, CreateParameterCells
<1>3. \A k \in live : \A s \in systs[k] \ systs[i] : sname'[s] = sname[s] /\ sproc'[s] = sproc[s]
  BY <1>1 DEF Named, TypeOK
<1>4. Footprint(i) /\ FrozenKept
  BY <1>2, <1>3 DEF Footprint, FrozenKept
<1>5. Grows(j)
  BY <1>1, <1>2 DEF Grows
<1> QED
  BY <1>1, <1>4, <1>5

\* RenameParameter writes one Parameter, of i.
LEMMA RenameParameterEffect ==
  ASSUME TypeOK, NEW i \in Insts, NEW o \in Names, NEW n \in Names, RenameParameter(i, o, n)
  PROVE  i \in live /\ Footprint(i) /\ Grows(i) /\ FrozenKept
<1>1. /\ i \in live /\ params[i][o] \in ParamsOf(i)
      /\ UNCHANGED <<live, fam, procs, systs, pval, pfrozen, sname, sproc, ub>>
      /\ params' = [params EXCEPT ![i] =
           [m \in Names |-> IF m = o THEN Null ELSE IF m = n THEN params[i][o] ELSE @[m]]]
      /\ pname' = [pname EXCEPT ![params[i][o]] = n]
  BY DEF RenameParameter, Callable, ParamsOf, Key
<1>2. ASSUME NEW k \in live, NEW p \in ParamsOf(k) \ ParamsOf(i) PROVE pname'[p] = pname[p]
  <2>1. p \in ParamIds
    BY DEF ParamsOf, Key, TypeOK
  <2> QED
    BY <1>1, <2>1 DEF TypeOK
<1>3. ASSUME NEW k \in live PROVE ParamsOf(k)' \subseteq ParamsOf(k)
  BY <1>1 DEF ParamsOf, Key, TypeOK
<1>4. Footprint(i) /\ FrozenKept
  BY <1>1, <1>2 DEF Footprint, FrozenKept
<1>5. Grows(i)
  BY <1>1, <1>3 DEF Grows
<1> QED
  BY <1>1, <1>4, <1>5

\* Setting values writes Parameters of i that are not frozen.
LEMMA ValuesEffect ==
  ASSUME TypeOK, NEW i \in Insts, NEW fit \in Fits,
         UpdateParameters(i, fit) \/ EvaluateFit(i, fit)
  PROVE  i \in live /\ Footprint(i) /\ Grows(i) /\ FrozenKept
<1>1. /\ i \in live
      /\ UNCHANGED <<live, fam, procs, systs, params, pname, pfrozen, sname, sproc, ub>>
  BY DEF UpdateParameters, EvaluateFit, Callable
<1>2. ASSUME NEW p \in ParamIds, pfrozen[p] \/ p \notin ParamsOf(i) PROVE pval'[p] = pval[p]
  BY <1>2 DEF UpdateParameters, EvaluateFit, ParamsOf
<1>3. \A k \in live : ParamsOf(k) \subseteq ParamIds
  BY DEF ParamsOf, Key, TypeOK
<1>4. Footprint(i) /\ FrozenKept
  BY <1>1, <1>2, <1>3 DEF Footprint, FrozenKept
<1>5. Grows(i)
  BY <1>1 DEF Grows, ParamsOf, Key
<1> QED
  BY <1>1, <1>4, <1>5

\* Creation, renaming, evaluation and the filters, each on one instance's objects.
LEMMA StepEffect ==
  ASSUME TypeOK, Next,
         \A i, j \in Insts : ~cp(i, j) /\ ~deep(i, j),
         \A i \in Insts : ~Destroy(i),
         \A i \in Insts, n \in Names, b \in BOOLEAN : ~SetFrozen(i, n, b)
  PROVE  FrozenKept /\ \E i, j \in live : Footprint(i) /\ Grows(j)
<1> USE DEF Callable
<1>1. CASE \E i \in Insts : CloneSystsOntoSelf(i)
  BY <1>1, Shrinks DEF CloneSystsOntoSelf
<1>2. CASE \E i \in Insts, Q \in SUBSET Tags : process(i, Q)
  <2>1. PICK i \in Insts : \E Q \in SUBSET Tags : process(i, Q)
    BY <1>2
  <2>2. /\ UNCHANGED <<fam, cells>> /\ live' \subseteq live /\ i \in live
        /\ \A k \in live' : systs'[k] \subseteq systs[k] /\ params'[k] = params[k]
    BY <2>1 DEF process, TypeOK
  <2> QED
    BY <2>2, Shrinks
<1>3. CASE \E i \in Insts, n \in Names, b \in BOOLEAN : syst_name(i, n, b)
  <2>1. PICK i \in Insts : \E n \in Names, b \in BOOLEAN : syst_name(i, n, b)
    BY <1>3
  <2>2. /\ UNCHANGED <<fam, cells>> /\ live' \subseteq live /\ i \in live
        /\ \A k \in live' : systs'[k] \subseteq systs[k] /\ params'[k] = params[k]
    BY <2>1 DEF syst_name, TypeOK
  <2> QED
    BY <2>2, Shrinks
<1>4. CASE \E i, j \in Insts, Q \in SUBSET Tags, n \in Names : AddSyst(i, Q, j, n)
  BY <1>4, AddSystEffect
<1>5. CASE \E i \in Insts, n \in Names, v \in Vals : AddSystVar(i, n, v)
  <2>1. PICK i \in Insts, n \in Names, v \in Vals : AddSystVar(i, n, v)
    BY <1>5
  <2>2. i \in live
    BY <2>1 DEF AddSystVar
  <2> QED
    BY <2>1, <2>2, AddSystVarCells DEF FrozenKept
<1>6. CASE \E i, j \in Insts, Q \in SUBSET Tags, o, n \in Names : CloneSysts(i, Q, o, j, n)
  BY <1>6, CloneSystsEffect
<1>7. CASE \E i, j \in Insts, Q \in SUBSET Tags, o, n \in Names : RenameSystematic(i, Q, j, o, n)
  BY <1>7, RenameSystematicEffect
<1>8. CASE \E i \in Insts, o, n \in Names : RenameParameter(i, o, n)
  BY <1>8, RenameParameterEffect
<1>9. CASE \E i \in Insts, o, n1, n2 \in Names : SplitSyst(i, o, n1, n2)
  <2>1. PICK i \in Insts, o \in Names, n1 \in Names, n2 \in Names : SplitSyst(i, o, n1, n2)
    BY <1>9
  <2>2. i \in live /\ UNCHANGED <<live, fam, procs, params, pname, pval, pfrozen, ub>>
    BY <2>1 DEF SplitSyst
  <2>3. /\ \A k \in live : systs'[k] \subseteq
              systs[k] \cup (IF k = i THEN FreshSysts ELSE {})
        /\ \A k \in live : \A s \in systs[k] : sname'[s] = sname[s] /\ sproc'[s] = sproc[s]
    BY <2>1, SplitCells
  <2>4. Footprint(i) /\ FrozenKept
    BY <2>2, <2>3 DEF Footprint, FrozenKept
  <2>5. Grows(i)
    BY <2>2, <2>3 DEF Grows, ParamsOf, Key
  <2> QED
    BY <2>2, <2>4, <2>5
<1>10. CASE \E i \in Insts, fit \in Fits : UpdateParameters(i, fit) \/ EvaluateFit(i, fit)
  BY <1>10, ValuesEffect
<1> QED
  BY <1>1, <1>2, <1>3, <1>4, <1>5, <1>6, <1>7, <1>8, <1>9, <1>10 DEF Next

\* Freezing or thawing writes no value.
LEMMA SetFrozenEffect ==
  ASSUME TypeOK, NEW i \in Insts, NEW n \in Names, NEW b \in BOOLEAN, SetFrozen(i, n, b)
  PROVE  i \in live /\ Footprint(i) /\ Grows(i) /\ FrozenKept
<1>1. /\ i \in live /\ params[i][n] \in ParamsOf(i)
      /\ UNCHANGED <<live, fam, procs, systs, params, pname, pval, sname, sproc, ub>>
      /\ pfrozen' = [pfrozen EXCEPT ![params[i][n]] = b]
  BY DEF SetFrozen, Callable, ParamsOf
<1>2. ASSUME NEW k \in live, NEW p \in ParamsOf(k) \ ParamsOf(i) PROVE pfrozen'[p] = pfrozen[p]
  <2>1. p \in ParamIds
    BY DEF ParamsOf, Key, TypeOK
  <2> QED
    BY <1>1, <2>1 DEF TypeOK
<1>3. Footprint(i) /\ FrozenKept
  BY <1>1, <1>2 DEF Footprint, FrozenKept
<1>4. Grows(i)
  BY <1>1 DEF Grows, ParamsOf, Key
<1> QED
  BY <1>1, <1>3, <1>4

\* The three calls that make or end an instance leave the objects of the
\* instances that were there as they are.
LEMMA CopyEffect ==
  ASSUME TypeOK, NEW i \in Insts, NEW j \in Insts,
         cp(i, j) \/ deep(i, j) \/ Destroy(i)
  PROVE  FrozenKept /\ \A k \in live : Footprint(k)
<1>1. CASE cp(i, j)
  BY <1>1 DEF cp, cells, FrozenKept, Footprint
<1>2. CASE deep(i, j)
  BY <1>2, DeepCells DEF FrozenKept, Footprint
<1>3. CASE Destroy(i)
  BY <1>3 DEF Destroy, cells, FrozenKept, Footprint
<1> QED
  BY <1>1, <1>2, <1>3

\* Every step.
LEMMA NextEffect ==
  ASSUME TypeOK, [Next]_vars
  PROVE  FrozenKept /\ \E i \in live : Footprint(i)
<1>1. CASE UNCHANGED vars
  BY <1>1 DEF vars, cells, FrozenKept, Footprint, TypeOK
<1>2. CASE \E i, j \in Insts : cp(i, j) \/ deep(i, j) \/ Destroy(i)
  BY <1>2, CopyEffect DEF TypeOK
<1>3. CASE \E i \in Insts, n \in Names, b \in BOOLEAN : SetFrozen(i, n, b)
  BY <1>3, SetFrozenEffect
<1>4. CASE /\ Next
           /\ \A i, j \in Insts : ~cp(i, j) /\ ~deep(i, j)
           /\ \A i \in Insts : ~Destroy(i)
           /\ \A i \in Insts, n \in Names, b \in BOOLEAN : ~SetFrozen(i, n, b)
  BY <1>4, StepEffect
<1> QED
  BY <1>1, <1>2, <1>3, <1>4

-----------------------------------------------------------------------------
(* Theorems.                                                               *)

\* A frozen Parameter keeps its value through every call of every instance.
THEOREM FrozenValuesHold == Spec => FrozenHolds
<1>1. TypeOK /\ [Next]_vars => 
        [\A i \in live \cap live' : \A p \in ParamsOf(i) \cap ParamsOf(i)' :
           pfrozen[p] /\ pfrozen'[p] => pval'[p] = pval[p]]_vars
  BY NextEffect DEF FrozenKept
<1> QED
  BY <1>1, TypeCorrect, PTL DEF Spec, FrozenHolds

\* Growing by fresh objects brings no two families together.
LEMMA GrowsDisjoint ==
  ASSUME TypeOK, FamiliesDisjoint, NEW j \in live, Grows(j)
  PROVE  FamiliesDisjoint'
<1> SUFFICES ASSUME NEW a \in live', NEW b \in live', fam'[a] # fam'[b]
             PROVE  ParamsOf(a)' \cap ParamsOf(b)' = {} /\ systs'[a] \cap systs'[b] = {}
  BY DEF FamiliesDisjoint
<1>1. /\ a \in live /\ b \in live /\ a # b
      /\ ParamsOf(a) \cap ParamsOf(b) = {} /\ systs[a] \cap systs[b] = {}
  BY DEF Grows, FamiliesDisjoint
<1>2. \A k \in {a, b} : FreshParams \cap ParamsOf(k) = {} /\ FreshSysts \cap systs[k] = {}
  BY <1>1, FreshNotUsed
<1>3. \A k \in {a, b} :
       /\ systs'[k] \subseteq systs[k] \cup (IF k = j THEN FreshSysts ELSE {})
       /\ ParamsOf(k)' \subseteq ParamsOf(k) \cup (IF k = j THEN FreshParams ELSE {})
  BY DEF Grows
<1> QED
  BY <1>1, <1>2, <1>3

\* cp() joins a family, deep() starts one of its own, the rest grow.
LEMMA FamiliesDisjointStep ==
  ASSUME TypeOK, FamiliesDisjoint, [Next]_vars
  PROVE  FamiliesDisjoint'
<1>1. CASE UNCHANGED vars
  BY <1>1 DEF vars, FamiliesDisjoint, ParamsOf, Key
<1>2. ASSUME NEW i \in Insts, NEW j \in Insts, cp(i, j) PROVE FamiliesDisjoint'
  <2>1. /\ i \in live /\ live' = live \cup {j}
        /\ fam'[j] = fam[i] /\ systs'[j] = systs[i] /\ params'[j] = params[i]
        /\ \A k \in live : fam'[k] = fam[k] /\ systs'[k] = systs[k] /\ params'[k] = params[k]
    BY <1>2 DEF cp, Callable, TypeOK
  <2>2. ParamsOf(j)' = ParamsOf(i) /\ \A k \in live : ParamsOf(k)' = ParamsOf(k)
    BY <2>1 DEF ParamsOf, Key
  <2> QED
    BY <2>1, <2>2 DEF FamiliesDisjoint
<1>3. ASSUME NEW i \in Insts, NEW j \in Insts, deep(i, j) PROVE FamiliesDisjoint'
  <2>1. live' = live \cup {j} /\ j \notin live /\ fam'[j] \notin {fam[k] : k \in live}
    BY <1>3 DEF deep, TypeOK
  <2>2. \A k \in live : fam'[k] = fam[k]
    BY <1>3 DEF deep, TypeOK
  <2>3. ParamsOf(j)' \subseteq FreshParams /\ systs'[j] \subseteq FreshSysts
    BY <1>3, DeepCopies DEF ParamsOf, Key
  <2>4. ASSUME NEW k \in live PROVE ParamsOf(k)' = ParamsOf(k) /\ systs'[k] = systs[k]
    BY <1>3, DeepCopies DEF ParamsOf, Key
  <2>5. \A k \in live : FreshParams \cap ParamsOf(k) = {} /\ FreshSysts \cap systs[k] = {}
    BY FreshNotUsed
  <2> QED
    BY <2>1, <2>2, <2>3, <2>4, <2>5 DEF FamiliesDisjoint
<1>4. ASSUME NEW i \in Insts, Destroy(i) PROVE FamiliesDisjoint'
  <2>1. /\ live' \subseteq live
        /\ \A k \in live' : fam'[k] = fam[k] /\ systs'[k] = systs[k] /\ params'[k] = params[k]
    BY <1>4 DEF Destroy, TypeOK
  <2> QED
    BY <2>1 DEF FamiliesDisjoint, ParamsOf, Key
<1>5. CASE \E i \in Insts, n \in Names, b \in BOOLEAN : SetFrozen(i, n, b)
  BY <1>5, SetFrozenEffect, GrowsDisjoint
<1>6. CASE /\ Next
           /\ \A i, j \in Insts : ~cp(i, j) /\ ~deep(i, j)
           /\ \A i \in Insts : ~Destroy(i)
           /\ \A i \in Insts, n \in Names, b \in BOOLEAN : ~SetFrozen(i, n, b)
  BY <1>6, StepEffect, GrowsDisjoint
<1> QED
  BY <1>1, <1>2, <1>3, <1>4, <1>5, <1>6

\* No call, and no use of one instance as another's target, ever makes two
\* instances that a deep() separates share a Parameter or a Systematic.
THEOREM FamiliesStayDisjoint == Spec => []FamiliesDisjoint
<1>1. Init => FamiliesDisjoint
  BY DEF Init, FamiliesDisjoint
<1>2. TypeOK /\ FamiliesDisjoint /\ [Next]_vars => FamiliesDisjoint'
  BY FamiliesDisjointStep
<1> QED
  BY <1>1, <1>2, TypeCorrect, PTL DEF Spec

\* One call never writes objects of two instances that a deep() separates.
THEOREM DeepCopiesAreIndependent == Spec => DeepCopiesIndependent
<1>1. ASSUME TypeOK, FamiliesDisjoint, [Next]_vars,
             NEW a \in live, NEW b \in live, fam[a] # fam[b], Touched(a), Touched(b)
      PROVE  FALSE
  <2>1. PICK i \in live : Footprint(i)
    BY <1>1, NextEffect
  <2>2. ASSUME NEW k \in live, Touched(k) PROVE fam[k] = fam[i]
    <3>1. ~(ParamsOf(k) \cap ParamsOf(i) = {} /\ systs[k] \cap systs[i] = {})
      BY <2>1, <2>2 DEF Touched, Footprint
    <3> QED
      BY <1>1, <3>1 DEF FamiliesDisjoint
  <2> QED
    BY <1>1, <2>2
<1>2. TypeOK /\ FamiliesDisjoint /\ [Next]_vars =>
        [\A i, j \in live : fam[i] # fam[j] => ~(Touched(i) /\ Touched(j))]_vars
  BY <1>1
<1> QED
  BY <1>2, TypeCorrect, FamiliesStayDisjoint, PTL DEF Spec, DeepCopiesIndependent

-----------------------------------------------------------------------------
(* Every Systematic finds its Parameter, for the careful client.           *)

\* Nothing a Systematic is looked up by changes, and none is added.
LEMMA LookupsKept ==
  ASSUME SystsHaveParams, live' \subseteq live, UNCHANGED sname,
         \A k \in live' : systs'[k] \subseteq systs[k] /\ params'[k] = params[k]
  PROVE  SystsHaveParams'
BY DEF SystsHaveParams

\* Systematics are added under a name that has a Parameter.
LEMMA NewNamesHaveParams ==
  ASSUME TypeOK, SystsHaveParams, live' = live, NEW j \in live, NEW n \in Names,
         params'[j][n] # Null, KeysKept, NewNamed(j, n)
  PROVE  SystsHaveParams'
<1>1. ASSUME NEW k \in live, NEW s \in systs'[k] PROVE params'[k][sname'[s]] # Null
  <2>1. CASE s \in systs[k]
    <3>1. sname'[s] = sname[s] /\ sname[s] \in Names /\ params[k][sname[s]] # Null
      BY <1>1, <2>1 DEF NewNamed, SystsHaveParams, TypeOK
    <3> QED
      BY <3>1 DEF KeysKept
  <2>2. CASE s \notin systs[k]
    BY <1>1, <2>2 DEF NewNamed
  <2> QED
    BY <2>1, <2>2
<1> QED
  BY <1>1 DEF SystsHaveParams

\* One call of the careful client.
LEMMA SystsHaveParamsStep ==
  ASSUME Careful, TypeOK, SystsHaveParams, [Next]_vars
  PROVE  SystsHaveParams'
<1> USE DEF Callable
<1>1. CASE UNCHANGED vars \/ \E i \in Insts : CloneSystsOntoSelf(i)
  BY <1>1, LookupsKept DEF vars, cells, CloneSystsOntoSelf
<1>2. ASSUME NEW i \in Insts, NEW j \in Insts, cp(i, j) PROVE SystsHaveParams'
  <2>1. /\ i \in live /\ live' = live \cup {j} /\ UNCHANGED sname
        /\ systs'[j] = systs[i] /\ params'[j] = params[i]
        /\ \A k \in live : systs'[k] = systs[k] /\ params'[k] = params[k]
    BY <1>2 DEF cp, cells, TypeOK
  <2> QED
    BY <2>1 DEF SystsHaveParams
<1>3. ASSUME NEW i \in Insts, NEW j \in Insts, deep(i, j) PROVE SystsHaveParams'
  <2>1. i \in live /\ live' = live \cup {j}
    BY <1>3, DeepCopies
  <2>2. ASSUME NEW s \in systs'[j] PROVE params'[j][sname'[s]] # Null
    <3>1. PICK t \in systs[i] : sname'[s] = sname[t]
      BY <1>3, <2>2, DeepCopies
    <3>2. sname[t] \in Key(i)
      BY <2>1 DEF SystsHaveParams, Key, TypeOK
    <3> QED
      BY <1>3, <3>1, <3>2, DeepCopies
  <2>3. ASSUME NEW k \in live, NEW s \in systs'[k] PROVE params'[k][sname'[s]] # Null
    <3>1. params'[k] = params[k] /\ systs'[k] = systs[k]
      BY <1>3, DeepCopies
    <3>2. sname'[s] = sname[s]
      BY <1>3, <2>3, <3>1, DeepCopies
    <3> QED
      BY <2>3, <3>1, <3>2 DEF SystsHaveParams
  <2> QED
    BY <2>1, <2>2, <2>3 DEF SystsHaveParams
<1>4. CASE \E i \in Insts : Destroy(i)
  <2>1. /\ live' \subseteq live /\ UNCHANGED sname
        /\ \A k \in live' : systs'[k] \subseteq systs[k] /\ params'[k] = params[k]
    BY <1>4 DEF Destroy, cells, TypeOK
  <2> QED
    BY <2>1, LookupsKept
<1>5. CASE \E i \in Insts, Q \in SUBSET Tags : process(i, Q)
  <2>1. /\ live' \subseteq live /\ UNCHANGED sname
        /\ \A k \in live' : systs'[k] \subseteq systs[k] /\ params'[k] = params[k]
    BY <1>5 DEF process, cells, TypeOK
  <2> QED
    BY <2>1, LookupsKept
<1>6. CASE \E i \in Insts, n \in Names, b \in BOOLEAN : syst_name(i, n, b)
  <2>1. /\ live' \subseteq live /\ UNCHANGED sname
        /\ \A k \in live' : systs'[k] \subseteq systs[k] /\ params'[k] = params[k]
    BY <1>6 DEF syst_name, cells, TypeOK
  <2> QED
    BY <2>1, LookupsKept
<1>7. CASE \E i \in Insts, n \in Names, b \in BOOLEAN : SetFrozen(i, n, b)
  BY <1>7, LookupsKept DEF SetFrozen
<1>8. CASE \E i \in Insts, fit \in Fits : UpdateParameters(i, fit) \/ EvaluateFit(i, fit)
  BY <1>8, LookupsKept DEF UpdateParameters, EvaluateFit
<1>9. ASSUME NEW i \in Insts, NEW j \in Insts, NEW Q \in SUBSET Tags, NEW n \in Names,
             AddSyst(i, Q, j, n)
      PROVE  SystsHaveParams'
  <2>1. j \in live /\ params'[j][n] # Null /\ KeysKept /\ NewNamed(j, n)
    BY <1>9, AddSystEffect
  <2>2. live' = live
    BY <1>9 DEF AddSyst
  <2> QED
    BY <2>1, <2>2, NewNamesHaveParams
<1>10. ASSUME NEW i \in Insts, NEW n \in Names, NEW v \in Vals, AddSystVar(i, n, v)
       PROVE  SystsHaveParams'
  <2>1. params'[i][n] # Null /\ KeysKept /\ NewNamed(i, n)
    BY <1>10, AddSystVarCells
  <2>2. live' = live /\ i \in live
    BY <1>10 DEF AddSystVar
  <2> QED
    BY <2>1, <2>2, NewNamesHaveParams
<1>11. ASSUME NEW i \in Insts, NEW j \in Insts, NEW Q \in SUBSET Tags,
              NEW o \in Names, NEW n \in Names, CloneSysts(i, Q, o, j, n)
       PROVE  SystsHaveParams'
  <2>1. j \in live /\ NewNamed(j, n)
    BY <1>11, CloneSystsEffect
  <2>2. params'[j][n] # Null /\ live' = live /\ KeysKept
    BY <1>11 DEF CloneSysts, KeysKept
  <2> QED
    BY <2>1, <2>2, NewNamesHaveParams
<1>12. ASSUME NEW i \in Insts, NEW j \in Insts, NEW Q \in SUBSET Tags,
              NEW o \in Names, NEW n \in Names, RenameSystematic(i, Q, j, o, n)
       PROVE  SystsHaveParams'
  <2>1. /\ j \in live /\ live' = live /\ systs' = systs /\ CreateParameterIfEmpty(j, n)
        /\ \A k \in live \ {j} : systs[k] \cap Named(i, Q, o) = {}
        /\ sname' = [s \in SystIds |-> IF s \in Named(i, Q, o) THEN n ELSE sname[s]]
    BY <1>12 DEF RenameSystematic
  <2>2. /\ params'[j][n] # Null
        /\ \A k \in live, l \in Names : params[k][l] # Null => params'[k][l] = params[k][l]
    BY <2>1, CreateParameterKeys
  <2>3. ASSUME NEW k \in live, NEW s \in systs[k] PROVE params'[k][sname'[s]] # Null
    <3>1. s \in SystIds /\ sname[s] \in Names /\ params[k][sname[s]] # Null
      BY DEF TypeOK, SystsHaveParams
    <3>2. CASE s \in Named(i, Q, o)
      BY <2>1, <2>2, <3>1, <3>2
    <3>3. CASE s \notin Named(i, Q, o)
      BY <2>1, <2>2, <3>1, <3>3
    <3> QED
      BY <3>2, <3>3
  <2> QED
    BY <2>1, <2>3 DEF SystsHaveParams
<1>13. ASSUME NEW i \in Insts, NEW o \in Names, NEW n \in Names, RenameParameter(i, o, n)
       PROVE  SystsHaveParams'
  <2>1. /\ live' = live /\ systs' = systs /\ sname' = sname /\ i \in live
        /\ params[i][o] # Null /\ \A s \in systs[i] : sname[s] # o
        /\ params' = [params EXCEPT ![i] =
             [m \in Names |-> IF m = o THEN Null ELSE IF m = n THEN params[i][o] ELSE @[m]]]
    BY <1>13 DEF RenameParameter
  <2>2. ASSUME NEW k \in live, NEW s \in systs[k] PROVE params'[k][sname[s]] # Null
    <3>1. sname[s] \in Names /\ params[k][sname[s]] # Null
      BY DEF TypeOK, SystsHaveParams
    <3> QED
      BY <2>1, <3>1 DEF TypeOK
  <2> QED
    BY <2>1, <2>2 DEF SystsHaveParams
<1>14. ASSUME NEW i \in Insts, NEW o \in Names, NEW n1 \in Names, NEW n2 \in Names,
              SplitSyst(i, o, n1, n2)
       PROVE  SystsHaveParams'
  <2>1. params[i][n1] # Null /\ params[i][n2] # Null /\ live' = live /\ params' = params
    BY <1>14 DEF SplitSyst
  <2>2. /\ \A k \in live : systs'[k] \subseteq
                systs[k] \cup (IF k = i THEN FreshSysts ELSE {})
        /\ \A k \in live : \A s \in systs[k] : sname'[s] = sname[s]
        /\ \A s \in systs'[i] : s \in systs[i] \/ sname'[s] \in {n1, n2}
    BY <1>14, SplitCells
  <2> QED
    BY <2>1, <2>2 DEF SystsHaveParams
<1> QED
  BY <1>1, <1>2, <1>3, <1>4, <1>5, <1>6, <1>7, <1>8, <1>9, <1>10, <1>11, <1>12,
     <1>13, <1>14 DEF Next

\* With copies made under names that have a Parameter, Parameters renamed when
\* no Systematic uses them and Systematics renamed through their only holder,
\* no evaluation ever throws "Parameter not found".
THEOREM SystematicsHaveParameters == Careful => (Spec => []SystsHaveParams)
<1> SUFFICES ASSUME Careful PROVE Spec => []SystsHaveParams
  OBVIOUS
<1>1. Init => SystsHaveParams
  BY InstsAssumption DEF Init, SystsHaveParams
<1>2. TypeOK /\ SystsHaveParams /\ [Next]_vars => SystsHaveParams'
  BY SystsHaveParamsStep
<1> QED
  BY <1>1, <1>2, TypeCorrect, PTL DEF Spec
=============================================================================
