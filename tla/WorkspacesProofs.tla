--------------------------- MODULE WorkspacesProofs ---------------------------
(***************************************************************************)
(* Proofs about Workspaces, for every set of workspaces, processes,        *)
(* parameters and copies.  The workspaces of different families are        *)
(* different objects (Apart), and all pointers of a family but those of    *)
(* its systematic stay among its own (LinksOwn); so a call, which writes   *)
(* to one family's workspaces, is not seen by another.  A view is older    *)
(* than the instance, never different from it (ViewInv).                   *)
(***************************************************************************)
EXTENDS Workspaces, WellFoundedInduction, TLAPS

\* The families own different workspaces.
Apart ==
  \A f, g \in Live : f # g => Wss(main[f].store) \cap Wss(main[g].store) = {}
\* What the view holds, its instance holds.
ViewInv ==
  view # None =>
    /\ view.fam \in Live
    /\ \A n \in Names : view.store[n] = None \/ view.store[n] = main[view.fam].store[n]
    /\ view.procs \subseteq Present(view.fam) /\ view.params \subseteq Params(view.fam)
\* A workspace from a source has a value for its parameter.
ParSet(heap) ==
  \A i \in Ids : heap[i] # None /\ heap[i].src # RateParams => heap[i].val[Par] \in Vals
\* The pdfs of a systematic are there or known not to be.
SystAlive ==
  \A f \in Fams : syst[f] # None /\ syst[f].pdfs # None => ws[syst[f].pdfs] # None
\* The variables of a parameter have its value, unless it is late.
SyncInv == \A f \in Live : \A v \in Params(f) : <<f, v>> \notin late => Agree(f, v)

Inv == TypeOK /\ LinksOwn /\ Apart /\ ViewInv /\ ParSet(ws) /\ SystAlive

(* What a call on the instance or a view of the family f does: it adds     *)
(* fresh workspaces under free names, and leaves alone what other families *)
(* own.                                                                    *)
Grown(f, store) ==
  /\ store \in Store
  /\ \A n \in Names : main[f].store[n] # None => store[n] = main[f].store[n]
  /\ \A n \in Names : main[f].store[n] = None /\ store[n] # None => store[n] \in FreshIds
  /\ \A m, n \in Names : store[m] = store[n] /\ m # n => store[m] = None
Heap(f, store, heap) ==
  /\ heap \in [Ids -> Workspace \cup {None}] /\ ParSet(heap)
  /\ \A i \in Ids : ws[i] # None => heap[i] # None
  /\ \A i \in Wss(store) : heap[i] # None
  /\ \A g \in Live \ {f} : \A i \in Wss(main[g].store) :
       heap[i].val = ws[i].val /\ heap[i].src = ws[i].src
OwnStep(f) ==
  /\ f \in Live /\ main'[f] # None
  /\ \A g \in Fams \ {f} : main'[g] = main[g] /\ obj'[g] = obj[g] /\ par'[g] = par[g]
  /\ Grown(f, main'[f].store) /\ Heap(f, main'[f].store, ws')
  /\ \A p \in Procs : obj[f][p] # None => obj'[f][p] # None
  /\ \A v \in Pars : par[f][v] # None => par'[f][v] # None
  /\ \A p \in Present(f)' :
       {Pdf(f, p)', Norm(f, p)'} \subseteq Wss(main'[f].store) \cup {None}
  /\ \A v \in Params(f)' : par'[f][v].links \subseteq Wss(main'[f].store)
  /\ \A g \in Fams : syst'[g] # syst[g] =>
       syst'[g].pdfs = None \/ ws'[syst'[g].pdfs] # None
  /\ view' \in {view, None}

-----------------------------------------------------------------------------
(* Names and workspaces.                                                   *)

\* What TypeOK says of a family.
LEMMA LiveTypes ==
  ASSUME TypeOK, NEW f \in Live
  PROVE  /\ f \in Fams /\ main[f] \in Instance /\ main[f].store \in Store
         /\ Wss(main[f].store) \subseteq Ids
         /\ \A n \in Names : main[f].store[n] \in Ids \cup {None}
         /\ \A p \in Present(f) : p \in Procs /\ obj[f][p] \in Process
         /\ \A v \in Params(f) : v \in Pars /\ par[f][v] \in Parameter
<1>1. f \in Fams /\ main[f] \in Instance
  BY DEF TypeOK, Live
<1>2. main[f].store \in Store
  BY <1>1 DEF Instance
<1>3. \A n \in Names : main[f].store[n] \in Ids \cup {None}
  BY <1>2 DEF Store
<1>4. Wss(main[f].store) \subseteq Ids
  BY <1>3 DEF Wss
<1>5. \A p \in Present(f) : p \in Procs /\ obj[f][p] \in Process
  <2>1. obj[f] \in [Procs -> Process \cup {None}]
    BY <1>1 DEF TypeOK
  <2> QED  BY <2>1 DEF Present
<1>6. \A v \in Params(f) : v \in Pars /\ par[f][v] \in Parameter
  <2>1. par[f] \in [Pars -> Parameter \cup {None}]
    BY <1>1 DEF TypeOK
  <2> QED  BY <2>1 DEF Params
<1> QED  BY <1>1, <1>2, <1>3, <1>4, <1>5, <1>6

\* A fresh workspace belongs to nobody.
LEMMA FreshId ==
  ASSUME FreshIds # {}
  PROVE  NewId \in FreshIds /\ NewId \in Ids
         /\ \A g \in Live : NewId \notin Wss(main[g].store)
  BY DEF NewId, FreshIds

\* A non-empty set of numbers of names has a largest element.
LEMMA LargestNumber ==
  ASSUME NEW K \in SUBSET (0..MaxName), K # {}
  PROVE  Max(K) \in K /\ \A k \in K : k <= Max(K)
<1> DEFINE T == {MaxName - k : k \in K}
<1>1. MaxName \in Nat
  BY BoundsAssumption
<1>2. T \subseteq Nat /\ T # {}
  <2>1. \A k \in K : MaxName - k \in Nat
    BY <1>1
  <2>2. PICK k \in K : TRUE
    OBVIOUS
  <2>3. MaxName - k \in T
    BY <2>2
  <2> QED  BY <2>1, <2>3
<1>3. PICK x \in T : \A y \in T : ~(<<y, x>> \in OpToRel(<, Nat))
  <2> HIDE DEF T
  <2> QED  BY <1>2, WFMin, NatLessThanWellFounded
<1>4. PICK m \in K : x = MaxName - m
  OBVIOUS
<1>5. ASSUME NEW k \in K  PROVE m >= k
  <2>1. MaxName - k \in T
    OBVIOUS
  <2>2. ~(MaxName - k < MaxName - m)
    BY <1>2, <1>3, <1>4, <2>1 DEF OpToRel
  <2> QED  BY <1>1, <2>2
<1>6. \A k \in K : k \in Int
  BY <1>1
<1> QED  BY <1>5, <1>6 DEF Max

\* The name that SetupWorkspace makes is not in use.
LEMMA NewNameFree ==
  ASSUME TypeOK, NEW f \in Live, NEW s \in Sources, NewName(f, s) \in Names
  PROVE  main[f].store[NewName(f, s)] = None
<1>1. CASE ~InUse(f, s)
  BY <1>1 DEF NewName, InUse
<1>2. CASE InUse(f, s)
  <2> DEFINE K == Numbers(f, s)
             k == 1 + Max(K)
  <2>1. NewName(f, s) = <<NameOf[s], k>>
    BY <1>2 DEF NewName
  <2>2. NameOf[s] # RateParams
    BY SourcesAssumption
  <2>3. \A n \in Names : n[1] = NameOf[s] => n[2] \in 0..MaxName
    BY <2>2 DEF Names
  <2>4. K \in SUBSET (0..MaxName)
    BY <2>3 DEF Numbers
  <2>5. <<NameOf[s], 0>> \in Names
    BY BoundsAssumption DEF Names
  <2>6. 0 \in K
    BY <1>2, <2>5 DEF Numbers, InUse
  <2>7. Max(K) \in K /\ \A j \in K : j <= Max(K)
    BY <2>4, <2>6, LargestNumber
  <2>8. k \notin K
    BY <2>4, <2>7, BoundsAssumption
  <2>9. main[f].store[<<NameOf[s], k>>] # None => k \in K
    <3> SUFFICES ASSUME main[f].store[<<NameOf[s], k>>] # None  PROVE k \in K
      OBVIOUS
    <3> DEFINE n == <<NameOf[s], k>>
    <3>1. n \in Names /\ n[1] = NameOf[s] /\ n[2] = k
      BY <2>1
    <3> HIDE DEF n, k
    <3>2. n \in {m \in Names : m[1] = NameOf[s] /\ main[f].store[m] # None}
      BY <3>1 DEF n
    <3> QED  BY <3>1, <3>2 DEF Numbers
  <2> QED  BY <2>1, <2>8, <2>9
<1> QED  BY <1>1, <1>2

-----------------------------------------------------------------------------
(* A call on one family.                                                   *)

\* A family that keeps its objects, and the values in its workspaces, shows
\* the same.
LEMMA SameObserved ==
  ASSUME Inv, NEW h \in Live, obj'[h] = obj[h], par'[h] = par[h],
         \A i \in Wss(main[h].store) : ws'[i].val = ws[i].val
  PROVE  Observed(h)' = Observed(h)
<1>1. Present(h)' = Present(h) /\ Params(h)' = Params(h)
  BY DEF Present, Params
<1>2. /\ \A p \in Present(h) : Norm(h, p) \in Wss(main[h].store) \cup {None}
      /\ \A v \in Params(h) : par[h][v].links \subseteq Wss(main[h].store)
  BY DEF Inv, LinksOwn
<1>3. \A p \in Present(h) : Rate(h, p)' = Rate(h, p)
  BY <1>2 DEF Rate, Norm
<1>4. \A v \in Params(h) :
        <<par[h][v].val, {ws[i].val[v] : i \in par[h][v].links}>>' =
        <<par[h][v].val, {ws[i].val[v] : i \in par[h][v].links}>>
  <2> SUFFICES ASSUME NEW v \in Params(h)
               PROVE  {ws'[i].val[v] : i \in par[h][v].links} =
                      {ws[i].val[v] : i \in par[h][v].links}
    OBVIOUS
  <2>1. \A i \in par[h][v].links : ws'[i].val[v] = ws[i].val[v]
    BY <1>2
  <2> QED  BY <2>1
<1>5. [p \in Present(h) |-> Rate(h, p)]' = [p \in Present(h) |-> Rate(h, p)]
  BY <1>1, <1>3
<1> QED  BY <1>1, <1>4, <1>5 DEF Observed

\* Nothing becomes live or dies.
LEMMA OwnStepLive ==
  ASSUME NEW f, OwnStep(f)  PROVE Live' = Live
  BY DEF OwnStep, Live

\* Pointers stay among the family's own workspaces.
LEMMA OwnStepLinks ==
  ASSUME Inv, NEW f, OwnStep(f)
  PROVE  LinksOwn'
<1>1. Live' = Live /\ f \in Live
  BY OwnStepLive DEF OwnStep
<1> DEFINE Own(g) ==
  /\ \A p \in Present(g) : {Pdf(g, p), Norm(g, p)} \subseteq Wss(main[g].store) \cup {None}
  /\ \A v \in Params(g) : par[g][v].links \subseteq Wss(main[g].store)
  /\ \A i \in Wss(main[g].store) : ws[i] # None
  /\ \A m, n \in Names : main[g].store[m] = main[g].store[n] /\ m # n => main[g].store[m] = None
<1>2. Own(f)'
  BY DEF OwnStep, Grown, Heap
<1>3. ASSUME NEW g \in Live \ {f}  PROVE Own(g)'
  <2>1. Own(g)
    BY DEF Inv, LinksOwn
  <2>2. g \in Fams /\ Wss(main[g].store) \subseteq Ids
    BY LiveTypes DEF Inv
  <2>3. main'[g] = main[g] /\ obj'[g] = obj[g] /\ par'[g] = par[g]
    BY <2>2 DEF OwnStep
  <2>4. \A i \in Wss(main[g].store) : ws'[i] # None
    BY <2>1, <2>2 DEF OwnStep, Heap
  <2> QED  BY <2>1, <2>3, <2>4 DEF Present, Params, Pdf, Norm
<1> QED  BY <1>1, <1>2, <1>3 DEF LinksOwn

\* What is added belongs to nobody else.
LEMMA OwnStepApart ==
  ASSUME Inv, NEW f, OwnStep(f)
  PROVE  Apart'
<1>1. Live' = Live /\ f \in Live
  BY OwnStepLive DEF OwnStep
<1>2. \A g \in Live \ {f} : main'[g] = main[g]
  BY LiveTypes DEF Inv, OwnStep
<1>3. ASSUME NEW g \in Live \ {f}
      PROVE  Wss(main'[f].store) \cap Wss(main[g].store) = {}
  <2> SUFFICES ASSUME NEW n \in Names, main'[f].store[n] # None,
                      main'[f].store[n] \in Wss(main[g].store)
               PROVE  FALSE
    BY DEF Wss
  <2>1. CASE main[f].store[n] # None
    <3>1. main'[f].store[n] = main[f].store[n]
      BY <2>1 DEF OwnStep, Grown
    <3>2. main[f].store[n] \in Wss(main[f].store)
      BY <2>1 DEF Wss
    <3> QED  BY <1>1, <3>1, <3>2 DEF Inv, Apart
  <2>2. CASE main[f].store[n] = None
    <3>1. main'[f].store[n] \in FreshIds
      BY <2>2 DEF OwnStep, Grown
    <3> QED  BY <3>1 DEF FreshIds
  <2> QED  BY <2>1, <2>2
<1>4. \A g, h \in Live : g # h /\ g # f /\ h # f =>
        Wss(main'[g].store) \cap Wss(main'[h].store) = {}
  BY <1>2 DEF Inv, Apart
<1>5. Wss(main[f].store)' = Wss(main'[f].store)
  BY DEF Wss, Names
<1> QED  BY <1>1, <1>2, <1>3, <1>4 DEF Apart, Wss

\* The view stays older than its instance.
LEMMA OwnStepView ==
  ASSUME Inv, NEW f, OwnStep(f)
  PROVE  ViewInv'
<1> SUFFICES ASSUME view' # None  PROVE ViewInv'
  BY DEF ViewInv
<1>1. view' = view /\ view # None
  BY DEF OwnStep
<1>2. /\ view.fam \in Live
      /\ \A n \in Names : view.store[n] = None \/ view.store[n] = main[view.fam].store[n]
      /\ view.procs \subseteq Present(view.fam) /\ view.params \subseteq Params(view.fam)
  BY <1>1 DEF Inv, ViewInv
<1>3. view.fam \in Fams
  BY <1>2 DEF Live
<1>4. \A n \in Names : view.store[n] = None \/ view.store[n] = main'[view.fam].store[n]
  BY <1>2, <1>3 DEF OwnStep, Grown
<1>5. Present(view.fam) \subseteq Present(view.fam)' /\ Params(view.fam) \subseteq Params(view.fam)'
  BY <1>3 DEF OwnStep, Present, Params
<1> QED  BY <1>1, <1>2, <1>4, <1>5, OwnStepLive DEF ViewInv

LEMMA OwnStepInv ==
  ASSUME Inv, TypeOK', NEW f, OwnStep(f)
  PROVE  Inv'
<1>1. ParSet(ws)'
  BY DEF OwnStep, Heap, ParSet
<1>2. SystAlive'
  <2> SUFFICES ASSUME NEW g \in Fams, syst'[g] # None, syst'[g].pdfs # None
               PROVE  ws'[syst'[g].pdfs] # None
    BY DEF SystAlive
  <2>1. CASE syst'[g] # syst[g]
    BY <2>1 DEF OwnStep
  <2>2. CASE syst'[g] = syst[g]
    <3>1. ws[syst[g].pdfs] # None
      BY <2>2 DEF Inv, SystAlive
    <3>2. syst[g].pdfs \in Ids
      BY <2>2 DEF Inv, TypeOK, Systematic
    <3> QED  BY <2>2, <3>1, <3>2 DEF OwnStep, Heap
  <2> QED  BY <2>1, <2>2
<1> QED  BY <1>1, <1>2, OwnStepLinks, OwnStepApart, OwnStepView DEF Inv

\* What a step may not do (DeepIndependent).
TwinsMade == \A g \in Fams : main[g] = None /\ main'[g] # None => \E f \in Live : Twin(f, g)
OthersStay ==
  \A f, g \in Live : f # g /\ main'[f] # None /\ main'[g] # None =>
    Observed(f)' = Observed(f) \/ Observed(g)' = Observed(g)

\* No other family notices.
LEMMA OwnStepIndependent ==
  ASSUME Inv, NEW f, OwnStep(f)
  PROVE  TwinsMade /\ OthersStay
<1>1. \A g \in Live \ {f} : Observed(g)' = Observed(g)
  <2> SUFFICES ASSUME NEW g \in Live \ {f}  PROVE Observed(g)' = Observed(g)
    OBVIOUS
  <2>1. g \in Fams /\ obj'[g] = obj[g] /\ par'[g] = par[g]
    BY LiveTypes DEF Inv, OwnStep
  <2>2. \A i \in Wss(main[g].store) : ws'[i].val = ws[i].val
    BY DEF OwnStep, Heap
  <2> QED  BY <2>1, <2>2, SameObserved
<1> QED  BY <1>1 DEF TwinsMade, OthersStay, OwnStep, Live

-----------------------------------------------------------------------------
(* Workspaces that are set up.                                             *)

LEMMA FreshType ==
  ASSUME NEW s \in Sources \cup {RateParams}
  PROVE  /\ Fresh(s) \in Workspace /\ Fresh(s) # None /\ Fresh(s).src = s
         /\ s # RateParams => Fresh(s).val[Par] \in Vals
<1>1. s # RateParams => Start[s] \in Vals
  BY SourcesAssumption
<1>2. [v \in Pars |-> IF s # RateParams /\ v = Par THEN Start[s] ELSE None]
        \in [Pars -> Vals \cup {None}]
  BY <1>1
<1>3. Fresh(s) \in Workspace
  BY <1>2 DEF Fresh, Workspace
<1>4. s # RateParams => Fresh(s).val[Par] \in Vals
  BY <1>1 DEF Fresh, Pars
<1> QED  BY <1>3, <1>4, NoneAssumption DEF Fresh

\* The store and the workspaces as they are.
LEMMA GrownSame ==
  ASSUME Inv, NEW f \in Live
  PROVE  Grown(f, main[f].store) /\ Heap(f, main[f].store, ws)
<1>1. main[f].store \in Store /\ Wss(main[f].store) \subseteq Ids
  BY LiveTypes DEF Inv
<1>2. /\ \A m, n \in Names : main[f].store[m] = main[f].store[n] /\ m # n => main[f].store[m] = None
      /\ \A i \in Wss(main[f].store) : ws[i] # None
  BY DEF Inv, LinksOwn
<1> QED  BY <1>1, <1>2 DEF Grown, Heap, Inv, TypeOK

\* A fresh workspace w under a free name.
LEMMA GrownNew ==
  ASSUME Inv, NEW f \in Live, FreshIds # {}, NEW n \in Names, main[f].store[n] = None,
         NEW w \in Workspace, w.src # RateParams => w.val[Par] \in Vals,
         NEW heap, heap = [ws EXCEPT ![NewId] = w],
         NEW store, store = [main[f].store EXCEPT ![n] = NewId]
  PROVE  Grown(f, store) /\ Heap(f, store, heap) /\ NewId \in Wss(store)
<1>1. main[f].store \in Store /\ Wss(main[f].store) \subseteq Ids
  BY LiveTypes DEF Inv
<1>2. NewId \in FreshIds /\ NewId \in Ids /\ \A g \in Live : NewId \notin Wss(main[g].store)
  BY FreshId
<1>3. NewId # None /\ w # None
  BY <1>2, NoneAssumption
<1>4. ws \in [Ids -> Workspace \cup {None}]
  BY DEF Inv, TypeOK
<1>5. store \in Store /\ store[n] = NewId /\ \A m \in Names \ {n} : store[m] = main[f].store[m]
  BY <1>1, <1>2 DEF Store
<1>6. \A m \in Names : main[f].store[m] # NewId
  BY <1>2, <1>3 DEF Wss
<1>7. Grown(f, store)
  <2>1. \A l, m \in Names : main[f].store[l] = main[f].store[m] /\ l # m => main[f].store[l] = None
    BY DEF Inv, LinksOwn
  <2> QED  BY <1>2, <1>5, <1>6, <2>1 DEF Grown
<1>8. heap \in [Ids -> Workspace \cup {None}] /\ heap[NewId] = w
      /\ \A i \in Ids \ {NewId} : heap[i] = ws[i]
  BY <1>2, <1>4
<1>9. ParSet(heap)
  BY <1>8 DEF ParSet, Inv
<1>10. \A i \in Wss(store) : i = NewId \/ i \in Wss(main[f].store)
  BY <1>5 DEF Wss
<1>11. \A i \in Wss(store) : heap[i] # None
  <2>1. \A i \in Wss(main[f].store) : ws[i] # None
    BY DEF Inv, LinksOwn
  <2> QED  BY <1>1, <1>3, <1>8, <1>10, <2>1
<1>12. \A g \in Live : \A i \in Wss(main[g].store) : heap[i] = ws[i]
  <2> SUFFICES ASSUME NEW g \in Live, NEW i \in Wss(main[g].store)  PROVE heap[i] = ws[i]
    OBVIOUS
  <2>1. i \in Ids
    BY LiveTypes DEF Inv
  <2> QED  BY <1>2, <1>8, <2>1
<1>13. NewId \in Wss(store)
  BY <1>3, <1>5 DEF Wss
<1> QED  BY <1>3, <1>7, <1>8, <1>9, <1>11, <1>12, <1>13 DEF Heap

\* What is owned stays owned, and is not fresh.
LEMMA GrownWss ==
  ASSUME NEW f, NEW store, Grown(f, store)
  PROVE  Wss(main[f].store) \subseteq Wss(store)
<1> SUFFICES ASSUME NEW n \in Names, main[f].store[n] # None
             PROVE  main[f].store[n] \in Wss(store)
  BY DEF Wss
<1>1. store[n] = main[f].store[n]
  BY DEF Grown
<1>2. store[n] \in {store[m] : m \in Names}
  OBVIOUS
<1> QED  BY <1>1, <1>2 DEF Wss

LEMMA OldIds ==
  ASSUME Inv, NEW f \in Live
  PROVE  Wss(main[f].store) \subseteq Ids \ FreshIds
<1>1. Wss(main[f].store) \subseteq Ids
  BY LiveTypes DEF Inv
<1> QED  BY <1>1 DEF FreshIds

\* SetupWorkspace: the workspace with this UUID, or a new one.
LEMMA SetupStep ==
  ASSUME Inv, NEW f \in Live, NEW s \in Sources, NEW r \in Setups(f, s)
  PROVE  /\ Grown(f, r.store) /\ Heap(f, r.store, r.heap)
         /\ r.id \in Ids /\ r.id \in Wss(r.store)
         /\ r.heap[r.id] # None /\ r.heap[r.id].src = s
         /\ \A i \in Ids \ FreshIds : r.heap[i] = ws[i]
<1>1. CASE Recycled(f, s) # {}
  <2>1. r.id \in Recycled(f, s) /\ r.store = main[f].store /\ r.heap = ws
    BY <1>1 DEF Setups
  <2>2. r.id \in Wss(main[f].store) /\ ws[r.id].src = s
    BY <2>1 DEF Recycled
  <2>3. r.id \in Ids /\ ws[r.id] # None
    BY <2>2, LiveTypes DEF Inv, LinksOwn
  <2> QED  BY <2>1, <2>2, <2>3, GrownSame
<1>2. CASE Recycled(f, s) = {}
  <2> DEFINE n == NewName(f, s)
  <2>1. /\ FreshIds # {} /\ n \in Names /\ r.id = NewId
        /\ r.store = [main[f].store EXCEPT ![n] = NewId]
        /\ r.heap = [ws EXCEPT ![NewId] = Fresh(s)]
    BY <1>2 DEF Setups
  <2>2. main[f].store[n] = None
    BY <2>1, NewNameFree DEF Inv
  <2>3. Fresh(s) \in Workspace /\ Fresh(s) # None /\ Fresh(s).src = s
        /\ (Fresh(s).src # RateParams => Fresh(s).val[Par] \in Vals)
    BY FreshType
  <2> HIDE DEF n
  <2>4. Grown(f, r.store) /\ Heap(f, r.store, r.heap) /\ NewId \in Wss(r.store)
    BY <2>1, <2>2, <2>3, GrownNew
  <2>5. NewId \in FreshIds /\ NewId \in Ids
    BY <2>1, FreshId
  <2>6. ws \in [Ids -> Workspace \cup {None}]
    BY DEF Inv, TypeOK
  <2>7. r.heap[NewId] = Fresh(s) /\ \A i \in Ids \ FreshIds : r.heap[i] = ws[i]
    BY <2>1, <2>5, <2>6
  <2> QED  BY <2>1, <2>3, <2>4, <2>5, <2>7
<1> QED  BY <1>1, <1>2

-----------------------------------------------------------------------------
(* Values.                                                                 *)

\* After a call on f the variables of f's parameters have their values.
SyncStep(f) ==
  /\ \A v \in Params(f)' : <<f, v>> \notin late' => Agree(f, v)'
  /\ \A g \in Live \ {f} : \A v \in Pars : <<g, v>> \in late => <<g, v>> \in late'

LEMMA OwnStepSync ==
  ASSUME Inv, SyncInv, NEW f, OwnStep(f), SyncStep(f)
  PROVE  SyncInv'
<1> SUFFICES ASSUME NEW g \in Live, NEW v \in Params(g)', <<g, v>> \notin late'
             PROVE  Agree(g, v)'
  BY OwnStepLive DEF SyncInv
<1>1. CASE g = f
  BY <1>1 DEF SyncStep
<1>2. CASE g # f
  <2>1. g \in Fams /\ par'[g] = par[g]
    BY <1>2, LiveTypes DEF Inv, OwnStep
  <2>2. v \in Params(g) /\ v \in Pars
    BY <2>1 DEF Params
  <2>3. Agree(g, v)
    BY <1>2, <2>2 DEF SyncStep, SyncInv
  <2>4. par[g][v].links \subseteq Wss(main[g].store)
    BY <2>2 DEF Inv, LinksOwn
  <2>5. \A i \in Wss(main[g].store) : ws'[i].val = ws[i].val
    BY <1>2 DEF OwnStep, Heap
  <2> QED  BY <2>1, <2>3, <2>4, <2>5 DEF Agree
<1> QED  BY <1>1, <1>2

\* A call that leaves parameters and their variables alone.
LEMMA SyncQuiet ==
  ASSUME Inv, SyncInv, NEW f \in Live, par'[f] = par[f], late' = late,
         \A i \in Wss(main[f].store) : ws'[i].val = ws[i].val
  PROVE  SyncStep(f)
<1> SUFFICES ASSUME NEW v \in Params(f)', <<f, v>> \notin late  PROVE Agree(f, v)'
  BY DEF SyncStep
<1>1. v \in Params(f)
  BY DEF Params
<1>2. Agree(f, v) /\ par[f][v].links \subseteq Wss(main[f].store)
  BY <1>1 DEF SyncInv, Inv, LinksOwn
<1> QED  BY <1>2 DEF Agree

-----------------------------------------------------------------------------
(* The calls, one by one.                                                  *)

LEMMA AddProcessStep ==
  ASSUME Inv, calls' \in 0..MaxCalls, NEW f \in Fams, NEW p \in Procs, AddProcess(f, p)
  PROVE  TypeOK' /\ OwnStep(f) /\ (SyncInv => SyncStep(f))
<1> DEFINE o == [pdf |-> None, norm |-> None]
<1>1. /\ f \in Live /\ obj[f][p] = None /\ obj' = [obj EXCEPT ![f][p] = o]
      /\ main' = main /\ view' = view /\ syst' = syst /\ par' = par /\ ws' = ws
      /\ late' = late /\ last' = "ok"
  BY DEF AddProcess
<1>2. o \in Process /\ o # None
  BY NoneAssumption DEF Process
<1>3. obj \in [Fams -> [Procs -> Process \cup {None}]]
  BY DEF Inv, TypeOK
<1>4. /\ obj' \in [Fams -> [Procs -> Process \cup {None}]]
      /\ obj'[f][p] = o /\ \A q \in Procs \ {p} : obj'[f][q] = obj[f][q]
      /\ \A g \in Fams \ {f} : obj'[g] = obj[g]
  BY <1>1, <1>2, <1>3
<1>5. TypeOK'
  BY <1>1, <1>4 DEF Inv, TypeOK
<1>6. /\ \A q \in Present(f) : {Pdf(f, q), Norm(f, q)} \subseteq Wss(main[f].store) \cup {None}
      /\ \A v \in Params(f) : par[f][v].links \subseteq Wss(main[f].store)
  BY <1>1 DEF Inv, LinksOwn
<1>7. \A q \in Present(f)' : {Pdf(f, q)', Norm(f, q)'} \subseteq Wss(main'[f].store) \cup {None}
  <2> SUFFICES ASSUME NEW q \in Present(f)'
               PROVE  {obj'[f][q].pdf, obj'[f][q].norm} \subseteq Wss(main[f].store) \cup {None}
    BY <1>1 DEF Pdf, Norm
  <2>1. CASE q = p
    BY <1>4, <2>1
  <2>2. CASE q # p
    BY <1>4, <1>6, <2>2 DEF Present, Pdf, Norm
  <2> QED  BY <2>1, <2>2
<1> HIDE DEF o
<1>8. Grown(f, main'[f].store) /\ Heap(f, main'[f].store, ws')
  BY <1>1, GrownSame
<1>9. OwnStep(f)
  BY <1>1, <1>2, <1>4, <1>6, <1>7, <1>8 DEF OwnStep, Live, Params
<1>10. SyncInv => SyncStep(f)
  BY <1>1, SyncQuiet
<1> QED  BY <1>5, <1>9, <1>10

LEMMA AddWorkspaceStep ==
  ASSUME Inv, calls' \in 0..MaxCalls, NEW f \in Fams, NEW s \in Sources, NEW can_rename,
         AddWorkspace(f, s, can_rename), last' # "threw"
  PROVE  TypeOK' /\ OwnStep(f) /\ (SyncInv => SyncStep(f))
<1>1. PICK r \in Setups(f, s) :
        /\ f \in Live /\ main' = [main EXCEPT ![f].store = r.store] /\ ws' = r.heap
        /\ last' = "ok" /\ view' = view /\ obj' = obj /\ syst' = syst /\ par' = par /\ late' = late
  BY DEF AddWorkspace, Throw
<1>2. /\ Grown(f, r.store) /\ Heap(f, r.store, r.heap)
      /\ \A i \in Ids \ FreshIds : r.heap[i] = ws[i]
  BY <1>1, SetupStep
<1>3. main[f] \in Instance /\ main \in [Fams -> Instance \cup {None}]
  BY <1>1, LiveTypes DEF Inv, TypeOK
<1>4. r.store \in Store
  BY <1>2 DEF Grown
<1>5. /\ main'[f] \in Instance /\ main'[f].store = r.store
      /\ main' \in [Fams -> Instance \cup {None}] /\ \A g \in Fams \ {f} : main'[g] = main[g]
  BY <1>1, <1>3, <1>4 DEF Instance
<1>6. TypeOK'
  BY <1>1, <1>2, <1>5 DEF Inv, TypeOK, Heap
<1>8. Wss(main[f].store) \subseteq Wss(main'[f].store)
  BY <1>2, <1>5, GrownWss
<1>9. /\ \A q \in Present(f) : {Pdf(f, q), Norm(f, q)} \subseteq Wss(main[f].store) \cup {None}
      /\ \A v \in Params(f) : par[f][v].links \subseteq Wss(main[f].store)
  BY <1>1 DEF Inv, LinksOwn
<1>10. OwnStep(f)
  BY <1>1, <1>2, <1>5, <1>8, <1>9, NoneAssumption DEF OwnStep, Params, Present, Pdf, Norm
<1>11. \A i \in Wss(main[f].store) : ws'[i] = ws[i]
  BY <1>1, <1>2, OldIds
<1>12. SyncInv => SyncStep(f)
  BY <1>1, <1>11, SyncQuiet
<1> QED  BY <1>6, <1>10, <1>12

\* A Parameter with a further variable, or a new one.
LEMMA LinkedParameter ==
  ASSUME NEW o \in Parameter \cup {None}, NEW i \in Ids, NEW x \in Vals
  PROVE  /\ Linked(o, i, x) \in Parameter /\ Linked(o, i, x) # None
         /\ o = None => Linked(o, i, x).val = x /\ Linked(o, i, x).links = {i}
         /\ o # None => /\ Linked(o, i, x).val = o.val
                        /\ Linked(o, i, x).links = o.links \cup {i}
<1>1. CASE o = None
  <2> DEFINE y == [val |-> x, links |-> {i}, frozen |-> FALSE]
  <2>1. y \in Parameter /\ y.val = x /\ y.links = {i}
    BY DEF Parameter
  <2>2. Linked(o, i, x) = y
    BY <1>1 DEF Linked
  <2> HIDE DEF y
  <2> QED  BY <1>1, <2>1, <2>2, NoneAssumption
<1>2. CASE o # None
  <2>1. o \in Parameter
    BY <1>2
  <2>2. Linked(o, i, x) = [o EXCEPT !.links = o.links \cup {i}]
    BY <1>2 DEF Linked
  <2>3. /\ Linked(o, i, x) \in Parameter
        /\ Linked(o, i, x).val = o.val /\ Linked(o, i, x).links = o.links \cup {i}
    BY <2>1, <2>2 DEF Parameter
  <2> QED  BY <1>2, <2>3, NoneAssumption
<1> QED  BY <1>1, <1>2

\* ImportParameters for the variable of the workspace i.
LEMMA ImportedStep ==
  ASSUME Inv, NEW f \in Live, NEW store, NEW heap, Grown(f, store), Heap(f, store, heap),
         NEW i \in Ids, i \in Wss(store), heap[i].src # RateParams,
         \A j \in Wss(main[f].store) : heap[j] = ws[j]
  PROVE  /\ Imported(f, i, heap) \in [Pars -> Parameter \cup {None}]
         /\ \A v \in Pars : par[f][v] # None => Imported(f, i, heap)[v] # None
         /\ \A v \in Pars : Imported(f, i, heap)[v] # None =>
              Imported(f, i, heap)[v].links \subseteq Wss(store)
         /\ SyncInv => \A v \in Pars :
              Imported(f, i, heap)[v] # None /\ <<f, v>> \notin LateIf(f, Par, i, heap) =>
              \A j \in Imported(f, i, heap)[v].links :
                heap[j].val[v] = Imported(f, i, heap)[v].val
<1> DEFINE new == Imported(f, i, heap)
           x == Linked(par[f][Par], i, heap[i].val[Par])
<1>1. Par \in Pars
  BY DEF Pars
<1>2. par[f] \in [Pars -> Parameter \cup {None}]
  BY DEF Inv, TypeOK, Live
<1>3. heap[i] # None /\ heap[i].val[Par] \in Vals
  BY DEF Heap, ParSet
<1>4. new = [par[f] EXCEPT ![Par] = x]
  BY <1>1, <1>2 DEF Imported
<1>5. /\ par[f][Par] = None => x.val = heap[i].val[Par] /\ x.links = {i}
      /\ par[f][Par] # None => x.val = par[f][Par].val /\ x.links = par[f][Par].links \cup {i}
      /\ x \in Parameter /\ x # None
  <2>1. par[f][Par] \in Parameter \cup {None}
    BY <1>1, <1>2
  <2> QED  BY <1>3, <2>1, LinkedParameter
<1>6. x # None
  BY <1>5
<1> HIDE DEF x
<1>7. /\ new \in [Pars -> Parameter \cup {None}] /\ new[Par] = x
      /\ \A v \in Pars \ {Par} : new[v] = par[f][v]
  BY <1>1, <1>2, <1>4, <1>5
<1> HIDE DEF new
<1>8. \A v \in Pars : par[f][v] # None => par[f][v].links \subseteq Wss(main[f].store)
  BY DEF Inv, LinksOwn, Params
<1>9. Wss(main[f].store) \subseteq Wss(store)
  BY GrownWss
<1>10. \A v \in Pars : new[v] # None => new[v].links \subseteq Wss(store)
  <2> SUFFICES ASSUME NEW v \in Pars, new[v] # None  PROVE new[v].links \subseteq Wss(store)
    OBVIOUS
  <2>1. CASE v = Par
    BY <1>1, <1>5, <1>7, <1>8, <1>9, <2>1
  <2>2. CASE v # Par
    BY <1>7, <1>8, <1>9, <2>2
  <2> QED  BY <2>1, <2>2
<1>11. ASSUME SyncInv, NEW v \in Pars, new[v] # None, <<f, v>> \notin LateIf(f, Par, i, heap),
              NEW j \in new[v].links
       PROVE  heap[j].val[v] = new[v].val
  <2>1. <<f, v>> \notin late
    BY <1>11 DEF LateIf
  <2>2. par[f][v] # None => \A l \in par[f][v].links : heap[l].val[v] = par[f][v].val
    BY <1>8, <1>11, <2>1 DEF SyncInv, Agree, Params
  <2>3. CASE v # Par
    BY <1>7, <1>11, <2>2, <2>3
  <2>4. CASE v = Par /\ par[f][Par] = None
    BY <1>5, <1>7, <1>11, <2>4
  <2>5. CASE v = Par /\ par[f][Par] # None /\ j \in par[f][Par].links
    BY <1>5, <1>7, <2>2, <2>5
  <2>6. CASE v = Par /\ par[f][Par] # None /\ j \notin par[f][Par].links
    <3>1. j = i /\ i \notin par[f][Par].links
      BY <1>5, <1>7, <1>11, <2>6
    <3>2. heap[i].val[Par] = par[f][Par].val
      BY <1>11, <2>6, <3>1 DEF LateIf
    <3> QED  BY <1>5, <1>7, <2>6, <3>1, <3>2
  <2> QED  BY <2>3, <2>4, <2>5, <2>6
<1>12. \A v \in Pars : par[f][v] # None => new[v] # None
  BY <1>6, <1>7
<1> QED  BY <1>7, <1>10, <1>11, <1>12 DEF new

\* LoadShapes of a process.
LEMMA LoadedProcess ==
  ASSUME NEW o \in Process, NEW p, NEW i \in Ids, NEW s, NEW rule
  PROVE  /\ Loaded(o, p, i, s, rule) \in Process
         /\ Loaded(o, p, i, s, rule).pdf \in {o.pdf, i}
         /\ Loaded(o, p, i, s, rule).norm \in {o.norm, i}
  BY DEF Loaded, Process

LEMMA ParseCardStep ==
  ASSUME Inv, calls' \in 0..MaxCalls, NEW f \in Fams, NEW s \in Sources, NEW rule,
         ParseCard(f, s, rule)
  PROVE  TypeOK' /\ OwnStep(f) /\ (SyncInv => SyncStep(f))
<1> DEFINE none == [pdf |-> None, norm |-> None]
<1>1. PICK r \in Setups(f, s) :
        /\ f \in Live /\ main' = [main EXCEPT ![f].store = r.store] /\ ws' = r.heap
        /\ obj' = [obj EXCEPT ![f] = [p \in Procs |->
             IF p \in Pdfs[s] THEN Loaded(none, p, r.id, s, rule) ELSE @[p]]]
        /\ par' = [par EXCEPT ![f] = Imported(f, r.id, r.heap)]
        /\ late' = LateIf(f, Par, r.id, r.heap)
        /\ \/ syst' = syst
           \/ syst' = [syst EXCEPT ![f] = [name |-> "syst", pdfs |-> r.id]]
        /\ last' = "ok" /\ view' = view
  BY DEF ParseCard
<1>2. /\ Grown(f, r.store) /\ Heap(f, r.store, r.heap)
      /\ r.id \in Ids /\ r.id \in Wss(r.store) /\ r.heap[r.id] # None /\ r.heap[r.id].src = s
      /\ \A i \in Ids \ FreshIds : r.heap[i] = ws[i]
  BY <1>1, SetupStep
<1>3. main[f] \in Instance /\ main \in [Fams -> Instance \cup {None}]
  BY <1>1, LiveTypes DEF Inv, TypeOK
<1>4. r.store \in Store
  BY <1>2 DEF Grown
<1>5. /\ main'[f] \in Instance /\ main'[f].store = r.store
      /\ main' \in [Fams -> Instance \cup {None}] /\ \A g \in Fams \ {f} : main'[g] = main[g]
  BY <1>1, <1>3, <1>4 DEF Instance
<1>6. none \in Process
  BY DEF Process
<1>7. obj \in [Fams -> [Procs -> Process \cup {None}]]
  BY DEF Inv, TypeOK
<1>8. /\ obj'[f] = [p \in Procs |->
           IF p \in Pdfs[s] THEN Loaded(none, p, r.id, s, rule) ELSE obj[f][p]]
      /\ \A g \in Fams \ {f} : obj'[g] = obj[g]
      /\ obj' \in [Fams -> [Procs -> Process \cup {None}]]
  <2>1. [p \in Procs |-> IF p \in Pdfs[s] THEN Loaded(none, p, r.id, s, rule) ELSE obj[f][p]]
          \in [Procs -> Process \cup {None}]
    BY <1>2, <1>6, <1>7, LoadedProcess
  <2> QED  BY <1>1, <1>7, <2>1
<1>9. \A i \in Wss(main[f].store) : r.heap[i] = ws[i]
  BY <1>1, <1>2, OldIds
<1>10. s # RateParams
  BY SourcesAssumption
<1> DEFINE new == Imported(f, r.id, r.heap)
<1>11. /\ new \in [Pars -> Parameter \cup {None}]
       /\ \A v \in Pars : par[f][v] # None => new[v] # None
       /\ \A v \in Pars : new[v] # None => new[v].links \subseteq Wss(r.store)
       /\ SyncInv => \A v \in Pars :
            new[v] # None /\ <<f, v>> \notin LateIf(f, Par, r.id, r.heap) =>
            \A j \in new[v].links : r.heap[j].val[v] = new[v].val
  BY <1>1, <1>2, <1>9, <1>10, ImportedStep
<1> HIDE DEF new, none
<1>12. /\ par' \in [Fams -> [Pars -> Parameter \cup {None}]] /\ par'[f] = new
       /\ \A g \in Fams \ {f} : par'[g] = par[g]
  BY <1>1, <1>11 DEF Inv, TypeOK, new
<1>13. syst' \in [Fams -> Systematic \cup {None}]
       /\ \A g \in Fams : syst'[g] # syst[g] => syst'[g].pdfs = r.id
  <2>1. [name |-> "syst", pdfs |-> r.id] \in Systematic
    BY <1>2 DEF Systematic
  <2>2. syst \in [Fams -> Systematic \cup {None}]
    BY DEF Inv, TypeOK
  <2>3. CASE syst' = syst
    BY <2>2, <2>3
  <2>4. CASE syst' = [syst EXCEPT ![f] = [name |-> "syst", pdfs |-> r.id]]
    <3>1. syst'[f] = [name |-> "syst", pdfs |-> r.id] /\ \A g \in Fams \ {f} : syst'[g] = syst[g]
      BY <2>2, <2>4
    <3> QED  BY <2>1, <2>2, <2>4, <3>1
  <2> QED  BY <1>1, <2>3, <2>4
<1>14. late' \subseteq Fams \X Pars
  <2>1. late' \in {late, late \cup {<<f, Par>>}} /\ Par \in Pars /\ late \subseteq Fams \X Pars
    BY <1>1 DEF Inv, TypeOK, LateIf, Pars
  <2> QED  BY <2>1
<1>15. TypeOK'
  BY <1>1, <1>2, <1>5, <1>8, <1>12, <1>13, <1>14 DEF Inv, TypeOK, Heap
<1>16. \A p \in Present(f)' :
         {Pdf(f, p)', Norm(f, p)'} \subseteq Wss(r.store) \cup {None}
  <2> SUFFICES ASSUME NEW p \in Procs, obj'[f][p] # None
               PROVE  {obj'[f][p].pdf, obj'[f][p].norm} \subseteq Wss(r.store) \cup {None}
    BY DEF Present, Pdf, Norm
  <2>1. CASE p \in Pdfs[s]
    <3>1. obj'[f][p].pdf \in {none.pdf, r.id} /\ obj'[f][p].norm \in {none.norm, r.id}
      BY <1>2, <1>6, <1>8, <2>1, LoadedProcess
    <3> QED  BY <1>2, <3>1 DEF none
  <2>2. CASE p \notin Pdfs[s]
    <3>1. obj'[f][p] = obj[f][p]
      BY <1>8, <2>2
    <3>2. {Pdf(f, p), Norm(f, p)} \subseteq Wss(main[f].store) \cup {None}
      BY <1>1, <3>1 DEF Inv, LinksOwn, Present
    <3> QED  BY <1>2, <3>1, <3>2, GrownWss DEF Pdf, Norm
  <2> QED  BY <2>1, <2>2
<1>17. \A p \in Procs : obj[f][p] # None => obj'[f][p] # None
  BY <1>2, <1>6, <1>8, LoadedProcess, NoneAssumption
<1>18. OwnStep(f)
  BY <1>1, <1>2, <1>5, <1>8, <1>11, <1>12, <1>13, <1>16, <1>17, NoneAssumption
     DEF OwnStep, Params
<1>19. SyncInv => SyncStep(f)
  <2>1. \A g \in Live : \A v \in Pars : <<g, v>> \in late => <<g, v>> \in late'
    BY <1>1 DEF LateIf
  <2> QED  BY <1>1, <1>11, <1>12, <2>1 DEF SyncStep, Agree, Params
<1> QED  BY <1>15, <1>18, <1>19

\* ExtractPdfs through the instance or an older view of it.
LEMMA ExtractStep ==
  ASSUME Inv, calls' \in 0..MaxCalls, NEW f \in Live, NEW n \in Names, NEW store,
         store[n] \in {None, main[f].store[n]}, NEW procs \in SUBSET Present(f),
         ExtractPdfs(f, n, store, procs)
  PROVE  TypeOK' /\ OwnStep(f) /\ (SyncInv => SyncStep(f))
<1> DEFINE i == store[n]
           todo == {p \in procs : obj[f][p].pdf = None}
           src == ws[i].src
           o(p) == Loaded(obj[f][p], p, i, src, FALSE)
<1>1. /\ i # None /\ src # RateParams
      /\ obj' = [obj EXCEPT ![f] = [p \in Procs |-> IF p \in todo THEN o(p) ELSE @[p]]]
      /\ \/ par' = par /\ late' = late
         \/ par' = [par EXCEPT ![f] = Imported(f, i, ws)] /\ late' = LateIf(f, Par, i, ws)
      /\ last' = "ok" /\ main' = main /\ view' = view /\ syst' = syst /\ ws' = ws
  BY DEF ExtractPdfs
<1>2. f \in Fams /\ i \in Wss(main[f].store) /\ i \in Ids
  <2>1. i = main[f].store[n]
    BY <1>1
  <2> QED  BY <1>1, <2>1, LiveTypes DEF Inv, Wss
<1> HIDE DEF i, src
<1>3. Grown(f, main[f].store) /\ Heap(f, main[f].store, ws)
  BY GrownSame
<1>4. \A p \in todo : p \in Procs /\ obj[f][p] \in Process /\ obj[f][p] # None
  BY LiveTypes DEF Inv, Present
<1>5. \A p \in todo : o(p) \in Process /\ o(p).pdf \in {obj[f][p].pdf, i}
                      /\ o(p).norm \in {obj[f][p].norm, i}
  BY <1>2, <1>4, LoadedProcess
<1> HIDE DEF o, todo
<1>6. obj \in [Fams -> [Procs -> Process \cup {None}]]
  BY DEF Inv, TypeOK
<1>7. /\ obj'[f] = [p \in Procs |-> IF p \in todo THEN o(p) ELSE obj[f][p]]
      /\ \A g \in Fams \ {f} : obj'[g] = obj[g]
      /\ obj' \in [Fams -> [Procs -> Process \cup {None}]]
  <2>1. [p \in Procs |-> IF p \in todo THEN o(p) ELSE obj[f][p]] \in [Procs -> Process \cup {None}]
    BY <1>2, <1>5, <1>6
  <2> QED  BY <1>1, <1>2, <1>6, <2>1
<1>8. /\ par' \in [Fams -> [Pars -> Parameter \cup {None}]]
      /\ \A g \in Fams \ {f} : par'[g] = par[g]
      /\ \A v \in Pars : par[f][v] # None => par'[f][v] # None
      /\ \A v \in Pars : par'[f][v] # None => par'[f][v].links \subseteq Wss(main[f].store)
      /\ late' \subseteq Fams \X Pars
      /\ SyncInv => SyncStep(f)
  <2>1. par \in [Fams -> [Pars -> Parameter \cup {None}]] /\ late \subseteq Fams \X Pars
    BY DEF Inv, TypeOK
  <2>2. CASE par' = par /\ late' = late
    BY <1>1, <2>1, <2>2, SyncQuiet DEF Inv, LinksOwn, Params
  <2>3. CASE par' = [par EXCEPT ![f] = Imported(f, i, ws)] /\ late' = LateIf(f, Par, i, ws)
    <3> DEFINE new == Imported(f, i, ws)
    <3>1. /\ new \in [Pars -> Parameter \cup {None}]
          /\ \A v \in Pars : par[f][v] # None => new[v] # None
          /\ \A v \in Pars : new[v] # None => new[v].links \subseteq Wss(main[f].store)
          /\ SyncInv => \A v \in Pars :
               new[v] # None /\ <<f, v>> \notin LateIf(f, Par, i, ws) =>
               \A j \in new[v].links : ws[j].val[v] = new[v].val
      BY <1>1, <1>2, <1>3, ImportedStep DEF src
    <3> HIDE DEF new
    <3>2. par'[f] = new /\ \A g \in Fams \ {f} : par'[g] = par[g]
      BY <1>2, <2>1, <2>3 DEF new
    <3>3. par' \in [Fams -> [Pars -> Parameter \cup {None}]]
      BY <1>2, <2>1, <2>3, <3>1 DEF new
    <3>4. late' \in {late, late \cup {<<f, Par>>}} /\ Par \in Pars
      BY <2>3 DEF LateIf, Pars
    <3>5. SyncInv => SyncStep(f)
      BY <1>1, <2>3, <3>1, <3>2, <3>4 DEF SyncStep, Agree, Params
    <3> QED  BY <1>2, <2>1, <3>1, <3>2, <3>3, <3>4, <3>5
  <2> QED  BY <1>1, <2>2, <2>3
<1>9. TypeOK'
  BY <1>1, <1>7, <1>8 DEF Inv, TypeOK
<1>10. \A p \in Present(f)' :
         {Pdf(f, p)', Norm(f, p)'} \subseteq Wss(main[f].store) \cup {None}
  <2> SUFFICES ASSUME NEW p \in Procs, obj'[f][p] # None
               PROVE  {obj'[f][p].pdf, obj'[f][p].norm} \subseteq Wss(main[f].store) \cup {None}
    BY DEF Present, Pdf, Norm
  <2>1. obj[f][p] # None
    BY <1>4, <1>7
  <2>2. {obj[f][p].pdf, obj[f][p].norm} \subseteq Wss(main[f].store) \cup {None}
    BY <2>1 DEF Inv, LinksOwn, Present, Pdf, Norm
  <2> QED  BY <1>2, <1>5, <1>7, <2>2
<1>11. \A p \in Procs : obj[f][p] # None => obj'[f][p] # None
  BY <1>5, <1>7, NoneAssumption
<1>12. OwnStep(f)
  BY <1>1, <1>2, <1>3, <1>7, <1>8, <1>10, <1>11 DEF OwnStep, Params, Live
<1> QED  BY <1>8, <1>9, <1>12

-----------------------------------------------------------------------------
(* Values that are set.                                                    *)

\* Values change in the family's own workspaces.
LEMMA HeapRewrite ==
  ASSUME Inv, NEW f \in Live, NEW store, NEW old, Grown(f, store), Heap(f, store, old),
         NEW heap, heap \in [Ids -> Workspace \cup {None}],
         \A i \in Ids : old[i] = None <=> heap[i] = None,
         \A i \in Ids : heap[i] # None =>
           /\ heap[i].src = old[i].src
           /\ heap[i].val[Par] = old[i].val[Par] \/ heap[i].val[Par] \in Vals,
         \A i \in Ids \ Wss(store) : heap[i] # None => heap[i].val = old[i].val
  PROVE  Heap(f, store, heap)
<1>1. ASSUME NEW g \in Live \ {f}, NEW i \in Wss(main[g].store)
      PROVE  i \in Ids /\ i \notin Wss(store) /\ ws[i] # None
  <2>1. i \in Ids \ FreshIds
    BY OldIds
  <2>2. ws[i] # None
    BY DEF Inv, LinksOwn
  <2>3. i \notin Wss(main[f].store)
    BY DEF Inv, Apart
  <2>4. i \notin Wss(store)
    BY <2>1, <2>3 DEF Grown, Wss
  <2> QED  BY <2>1, <2>2, <2>4
<1>2. \A g \in Live \ {f} : \A i \in Wss(main[g].store) :
        heap[i].val = ws[i].val /\ heap[i].src = ws[i].src
  BY <1>1 DEF Heap
<1>3. Wss(store) \subseteq Ids
  BY DEF Grown, Store, Wss
<1>4. ParSet(heap)
  BY DEF Heap, ParSet
<1> QED  BY <1>2, <1>3, <1>4 DEF Heap

\* Parameter::set_val of some parameters: what becomes of the Parameters.
LEMMA ValuedStep ==
  ASSUME NEW P \in [Pars -> Parameter \cup {None}], NEW V \in SUBSET {v \in Pars : P[v] # None},
         NEW value, \A v \in V : value[v] \in Vals
  PROVE  /\ Valued(P, V, value) \in [Pars -> Parameter \cup {None}]
         /\ \A v \in Pars : Valued(P, V, value)[v] # None <=> P[v] # None
         /\ \A v \in Pars : P[v] # None =>
              /\ Valued(P, V, value)[v].links = P[v].links
              /\ Valued(P, V, value)[v].val =
                   IF v \in Settable(P, V) THEN value[v] ELSE P[v].val
<1> DEFINE new == Valued(P, V, value)
           y(v) == [P[v] EXCEPT !.val = value[v]]
<1>1. Settable(P, V) \subseteq V
  BY DEF Settable
<1>2. new = [v \in Pars |-> IF v \in Settable(P, V) THEN y(v) ELSE P[v]]
  BY DEF Valued
<1>3. ASSUME NEW v \in Settable(P, V)
      PROVE  /\ P[v] # None
             /\ y(v) \in Parameter /\ y(v) # None
             /\ y(v).val = value[v] /\ y(v).links = P[v].links
  <2>1. v \in Pars /\ P[v] \in Parameter /\ P[v] # None /\ value[v] \in Vals
    BY <1>1
  <2>2. y(v) \in Parameter /\ y(v).val = value[v] /\ y(v).links = P[v].links
    BY <2>1 DEF Parameter
  <2> QED  BY <2>1, <2>2, NoneAssumption
<1> HIDE DEF new, y
<1>4. \A v \in Pars : new[v] = IF v \in Settable(P, V) THEN y(v) ELSE P[v]
  BY <1>2
<1>5. new \in [Pars -> Parameter \cup {None}]
  <2>1. \A v \in Pars : new[v] \in Parameter \cup {None}
    BY <1>3, <1>4
  <2> QED  BY <1>2, <2>1
<1> QED  BY <1>3, <1>4, <1>5 DEF new

\* And of the workspaces.
LEMMA DrivenStep ==
  ASSUME Inv, NEW f \in Live, NEW store, NEW old, Grown(f, store), Heap(f, store, old),
         NEW P, NEW V \in SUBSET Pars, \A v \in V : P[v].links \subseteq Wss(store),
         NEW value, \A v \in V : value[v] \in Vals
  PROVE  /\ Heap(f, store, Driven(P, old, V, value))
         /\ \A v \in Pars : \A i \in Wss(store) :
              Driven(P, old, V, value)[i].val[v] =
                IF v \in Settable(P, V) /\ i \in P[v].links THEN value[v] ELSE old[i].val[v]
<1> DEFINE heap == Driven(P, old, V, value)
           new(i) == [v \in Pars |->
             IF v \in Settable(P, V) /\ i \in P[v].links THEN value[v] ELSE old[i].val[v]]
<1>1. /\ old \in [Ids -> Workspace \cup {None}] /\ Wss(store) \subseteq Ids
      /\ \A i \in Wss(store) : old[i] # None
  BY DEF Heap, Grown, Store, Wss
<1>2. Settable(P, V) \subseteq V
  BY DEF Settable
<1>3. heap = [i \in Ids |-> IF old[i] = None THEN None ELSE [old[i] EXCEPT !.val = new(i)]]
  BY DEF Driven
<1>4. ASSUME NEW i \in Ids, old[i] # None
      PROVE  /\ old[i] \in Workspace /\ old[i].val \in [Pars -> Vals \cup {None}]
             /\ new(i) \in [Pars -> Vals \cup {None}]
  BY <1>1, <1>2, <1>4 DEF Workspace
<1> HIDE DEF heap, new
<1>5. ASSUME NEW i \in Ids, old[i] # None
      PROVE  /\ heap[i] = [old[i] EXCEPT !.val = new(i)] /\ heap[i] \in Workspace
             /\ heap[i].val = new(i) /\ heap[i].src = old[i].src /\ heap[i] # None
  <2>1. heap[i] = [old[i] EXCEPT !.val = new(i)]
    BY <1>3, <1>5
  <2>2. heap[i] \in Workspace /\ heap[i].val = new(i) /\ heap[i].src = old[i].src
    BY <1>4, <1>5, <2>1 DEF Workspace
  <2> QED  BY <2>1, <2>2, NoneAssumption
<1>6. \A i \in Ids : old[i] = None => heap[i] = None
  BY <1>3
<1>7. heap \in [Ids -> Workspace \cup {None}]
  <2>1. \A i \in Ids : heap[i] \in Workspace \cup {None}
    BY <1>5, <1>6
  <2> QED  BY <1>3, <2>1
<1>8. \A i \in Ids \ Wss(store) : old[i] # None => new(i) = old[i].val
  <2> SUFFICES ASSUME NEW i \in Ids \ Wss(store), old[i] # None  PROVE new(i) = old[i].val
    OBVIOUS
  <2>1. \A v \in V : i \notin P[v].links
    OBVIOUS
  <2>2. new(i) = [v \in Pars |-> old[i].val[v]]
    BY <1>2, <2>1 DEF new
  <2> QED  BY <1>4, <2>2
<1>9. \A i \in Ids : old[i] # None =>
        new(i)[Par] = old[i].val[Par] \/ new(i)[Par] \in Vals
  BY <1>2 DEF new, Pars
<1>10. Heap(f, store, heap)
  BY <1>5, <1>6, <1>7, <1>8, <1>9, HeapRewrite
<1>11. \A v \in Pars : \A i \in Wss(store) :
         heap[i].val[v] =
           IF v \in Settable(P, V) /\ i \in P[v].links THEN value[v] ELSE old[i].val[v]
  <2> SUFFICES ASSUME NEW v \in Pars, NEW i \in Wss(store)
               PROVE  heap[i].val[v] = new(i)[v]
    BY DEF new
  <2>1. i \in Ids /\ old[i] # None
    BY <1>1
  <2> QED  BY <1>5, <2>1
<1> QED  BY <1>10, <1>11 DEF heap

\* A call that adds no workspace and no pointer.
LEMMA KeptStep ==
  ASSUME Inv, NEW f \in Live, main' = main, obj' = obj, view' = view, syst' = syst,
         Heap(f, main[f].store, ws'),
         \A g \in Fams \ {f} : par'[g] = par[g],
         \A v \in Pars : par'[f][v] # None <=> par[f][v] # None,
         \A v \in Params(f) : par'[f][v].links = par[f][v].links
  PROVE  OwnStep(f)
<1>1. Grown(f, main[f].store)
  BY GrownSame
<1>2. /\ \A p \in Present(f) : {Pdf(f, p), Norm(f, p)} \subseteq Wss(main[f].store) \cup {None}
      /\ \A v \in Params(f) : par[f][v].links \subseteq Wss(main[f].store)
  BY DEF Inv, LinksOwn
<1>3. Present(f)' = Present(f) /\ Params(f)' = Params(f)
  BY DEF Present, Params
<1> QED  BY <1>1, <1>2, <1>3 DEF OwnStep, Live, Pdf, Norm

\* The Parameters and their variables after set_val agree, or are still late.
LEMMA SetAgree ==
  ASSUME NEW f, NEW P, NEW heap, NEW V \in SUBSET Pars, NEW value, NEW own, NEW L,
         NEW newP, NEW newHeap,
         \A v \in Pars : P[v] # None =>
           /\ P[v].links \subseteq own /\ newP[v].links = P[v].links
           /\ newP[v].val = IF v \in Settable(P, V) THEN value[v] ELSE P[v].val,
         \A v \in Pars : \A i \in own : newHeap[i].val[v] =
           IF v \in Settable(P, V) /\ i \in P[v].links THEN value[v] ELSE heap[i].val[v],
         \A v \in Pars : P[v] # None /\ <<f, v>> \notin L /\ v \notin Settable(P, V) =>
           \A i \in P[v].links : heap[i].val[v] = P[v].val,
         NEW v \in Pars, P[v] # None, <<f, v>> \notin L \ ({f} \X Settable(P, V))
  PROVE  \A i \in newP[v].links : newHeap[i].val[v] = newP[v].val
<1>1. CASE v \in Settable(P, V)
  BY <1>1
<1>2. CASE v \notin Settable(P, V)
  BY <1>2
<1> QED  BY <1>1, <1>2

LEMMA SetValStep ==
  ASSUME Inv, calls' \in 0..MaxCalls, NEW f \in Fams, NEW v \in Pars, NEW x \in Vals, SetVal(f, v, x)
  PROVE  TypeOK' /\ OwnStep(f) /\ (SyncInv => SyncStep(f))
<1> DEFINE value == [u \in Pars |-> x]
           P == par[f]
           own == Wss(main[f].store)
           V == {v}
           new == Valued(P, V, value)
<1>1. /\ f \in Live /\ v \in Params(f) /\ par' = [par EXCEPT ![f] = new]
      /\ ws' = Driven(P, ws, V, value) /\ late' = late \ ({f} \X Settable(P, V))
      /\ last' = "ok" /\ main' = main /\ view' = view /\ obj' = obj /\ syst' = syst
  BY DEF SetVal
<1>2. \A u \in V : value[u] \in Vals
  OBVIOUS
<1>3. /\ par \in [Fams -> [Pars -> Parameter \cup {None}]] /\ P \in [Pars -> Parameter \cup {None}]
      /\ V \in SUBSET {u \in Pars : P[u] # None} /\ V \in SUBSET Pars
  BY <1>1 DEF Inv, TypeOK, Params
<1>4. \A u \in Pars : P[u] # None => P[u].links \subseteq own
  BY <1>1 DEF Inv, LinksOwn, Params
<1> HIDE DEF value, P, V
<1>5. /\ Heap(f, main[f].store, ws')
      /\ \A u \in Pars : \A i \in own : ws'[i].val[u] =
           IF u \in Settable(P, V) /\ i \in P[u].links THEN value[u] ELSE ws[i].val[u]
  <2>1. Grown(f, main[f].store) /\ Heap(f, main[f].store, ws)
    BY <1>1, GrownSame
  <2>2. \A u \in V : P[u].links \subseteq own
    BY <1>3, <1>4
  <2> QED  BY <1>1, <1>2, <1>3, <2>1, <2>2, DrivenStep
<1>6. /\ new \in [Pars -> Parameter \cup {None}]
      /\ \A u \in Pars : new[u] # None <=> P[u] # None
      /\ \A u \in Pars : P[u] # None =>
           /\ new[u].links = P[u].links
           /\ new[u].val = IF u \in Settable(P, V) THEN value[u] ELSE P[u].val
  BY <1>2, <1>3, ValuedStep
<1> HIDE DEF new
<1>7. /\ par' \in [Fams -> [Pars -> Parameter \cup {None}]] /\ par'[f] = new
      /\ \A g \in Fams \ {f} : par'[g] = par[g]
  BY <1>1, <1>3, <1>6
<1>8. TypeOK'
  <2>1. late' \subseteq Fams \X Pars
    BY <1>1 DEF Inv, TypeOK
  <2> QED  BY <1>1, <1>5, <1>7, <2>1 DEF Inv, TypeOK, Heap
<1>9. OwnStep(f)
  BY <1>1, <1>5, <1>6, <1>7, KeptStep DEF Params, P
<1>10. SyncInv => SyncStep(f)
  <2> SUFFICES ASSUME SyncInv, NEW u \in Params(f)', <<f, u>> \notin late'  PROVE Agree(f, u)'
    BY <1>1 DEF SyncStep
  <2>1. u \in Pars /\ P[u] # None
    BY <1>6, <1>7 DEF Params
  <2>2. \A t \in Pars : P[t] # None /\ <<f, t>> \notin late =>
          \A i \in P[t].links : ws[i].val[t] = P[t].val
    BY <1>1 DEF SyncInv, Agree, Params, P
  <2>3. \A i \in new[u].links : ws'[i].val[u] = new[u].val
    BY <1>1, <1>3, <1>4, <1>5, <1>6, <2>1, <2>2, SetAgree
  <2> QED  BY <1>7, <2>3 DEF Agree
<1> QED  BY <1>8, <1>9, <1>10

LEMMA SetFrozenStep ==
  ASSUME Inv, calls' \in 0..MaxCalls, NEW f \in Fams, NEW v \in Pars, NEW b \in BOOLEAN,
         SetFrozen(f, v, b)
  PROVE  TypeOK' /\ OwnStep(f) /\ (SyncInv => SyncStep(f))
<1>1. /\ f \in Live /\ v \in Params(f) /\ par' = [par EXCEPT ![f][v].frozen = b]
      /\ ws' = ws /\ late' = late
      /\ last' = "ok" /\ main' = main /\ view' = view /\ obj' = obj /\ syst' = syst
  BY DEF SetFrozen
<1>2. par \in [Fams -> [Pars -> Parameter \cup {None}]] /\ par[f][v] \in Parameter
  BY <1>1, LiveTypes DEF Inv, TypeOK
<1>3. /\ par' \in [Fams -> [Pars -> Parameter \cup {None}]]
      /\ par'[f][v] \in Parameter
      /\ par'[f][v].val = par[f][v].val /\ par'[f][v].links = par[f][v].links
      /\ \A u \in Pars \ {v} : par'[f][u] = par[f][u]
      /\ \A g \in Fams \ {f} : par'[g] = par[g]
  <2> DEFINE y == [par[f][v] EXCEPT !.frozen = b]
  <2>1. y \in Parameter /\ y.val = par[f][v].val /\ y.links = par[f][v].links
    BY <1>2 DEF Parameter
  <2>2. par' = [par EXCEPT ![f] = [par[f] EXCEPT ![v] = y]]
    BY <1>1, <1>2
  <2> HIDE DEF y
  <2>3. par'[f] = [par[f] EXCEPT ![v] = y]
    BY <1>2, <2>2
  <2> QED  BY <1>2, <2>1, <2>2, <2>3
<1>4. par'[f][v] # None /\ par[f][v] # None
  BY <1>2, <1>3, NoneAssumption
<1>5. TypeOK'
  BY <1>1, <1>3 DEF Inv, TypeOK
<1>6. OwnStep(f)
  <2>1. Heap(f, main[f].store, ws')
    BY <1>1, GrownSame
  <2> QED  BY <1>1, <1>3, <1>4, <2>1, KeptStep DEF Params
<1>7. SyncInv => SyncStep(f)
  <2> SUFFICES ASSUME SyncInv, NEW u \in Params(f)', <<f, u>> \notin late'  PROVE Agree(f, u)'
    BY <1>1 DEF SyncStep
  <2>1. u \in Params(f) /\ u \in Pars
    BY <1>3, <1>4 DEF Params
  <2>2. Agree(f, u)
    BY <1>1, <2>1 DEF SyncInv
  <2>3. par'[f][u].val = par[f][u].val /\ par'[f][u].links = par[f][u].links
    BY <1>3, <2>1
  <2> QED  BY <1>1, <2>2, <2>3 DEF Agree
<1> QED  BY <1>5, <1>6, <1>7

LEMMA EvaluateStep ==
  ASSUME Inv, calls' \in 0..MaxCalls, NEW f \in Live, NEW V \in SUBSET Params(f), Evaluate(f, V)
  PROVE  TypeOK' /\ OwnStep(f) /\ (SyncInv => SyncStep(f))
<1> DEFINE value == [v \in Pars |-> IF par[f][v] = None THEN None ELSE par[f][v].val]
           P == par[f]
           own == Wss(main[f].store)
<1>1. /\ ws' = Driven(P, ws, V, value) /\ late' = late \ ({f} \X Settable(P, V))
      /\ last' = "ok" /\ main' = main /\ view' = view /\ obj' = obj /\ syst' = syst /\ par' = par
  BY DEF Evaluate
<1>2. \A v \in Params(f) : value[v] = par[f][v].val /\ value[v] \in Vals
  <2> SUFFICES ASSUME NEW v \in Params(f)  PROVE value[v] = par[f][v].val /\ value[v] \in Vals
    OBVIOUS
  <2>1. par[f][v] \in Parameter
    BY LiveTypes DEF Inv
  <2> QED  BY <2>1 DEF Params, Parameter
<1>3. \A u \in Pars : P[u] # None => P[u].links \subseteq own
  BY DEF Inv, LinksOwn, Params
<1>4. V \subseteq Pars /\ \A v \in V : P[v] # None
  BY DEF Params
<1> HIDE DEF value, P
<1>5. /\ Heap(f, main[f].store, ws')
      /\ \A u \in Pars : \A i \in own : ws'[i].val[u] =
           IF u \in Settable(P, V) /\ i \in P[u].links THEN value[u] ELSE ws[i].val[u]
  <2>1. Grown(f, main[f].store) /\ Heap(f, main[f].store, ws)
    BY GrownSame
  <2> QED  BY <1>1, <1>2, <1>3, <1>4, <2>1, DrivenStep
<1>6. TypeOK'
  <2>1. late' \subseteq Fams \X Pars
    BY <1>1 DEF Inv, TypeOK
  <2> QED  BY <1>1, <1>5, <2>1 DEF Inv, TypeOK, Heap
<1>7. OwnStep(f)
  BY <1>1, <1>5, KeptStep
<1>8. SyncInv => SyncStep(f)
  <2> SUFFICES ASSUME SyncInv, NEW u \in Params(f), <<f, u>> \notin late'  PROVE Agree(f, u)'
    BY <1>1 DEF SyncStep, Params
  <2>1. u \in Pars /\ P[u] # None
    BY DEF Params, P
  <2>2. \A t \in Pars : P[t] # None /\ <<f, t>> \notin late =>
          \A i \in P[t].links : ws[i].val[t] = P[t].val
    BY DEF SyncInv, Agree, Params, P
  <2>3. \A t \in Settable(P, V) : value[t] = P[t].val
    BY <1>2 DEF Settable, P
  <2>4. \A i \in P[u].links : ws'[i].val[u] = P[u].val
    BY <1>1, <1>3, <1>4, <1>5, <2>1, <2>2, <2>3, SetAgree
  <2> QED  BY <1>1, <2>4 DEF Agree, P
<1> QED  BY <1>6, <1>7, <1>8

LEMMA SetParInWsStep ==
  ASSUME Inv, calls' \in 0..MaxCalls, NEW f \in Fams, NEW v \in Pars, NEW x \in Vals,
         SetParInWs(f, v, x)
  PROVE  TypeOK' /\ OwnStep(f) /\ (SyncInv => SyncStep(f))
<1> DEFINE own == Wss(main[f].store)
<1>1. /\ f \in Live
      /\ ws' = [i \in Ids |-> IF i \in own /\ ws[i].val[v] # None
                              THEN [ws[i] EXCEPT !.val[v] = x] ELSE ws[i]]
      /\ late' = late \cup {<<f, v>>}
      /\ last' = "ok" /\ main' = main /\ view' = view /\ obj' = obj /\ syst' = syst /\ par' = par
  BY DEF SetParInWs
<1>2. own \subseteq Ids /\ \A i \in own : ws[i] # None
  BY <1>1, LiveTypes DEF Inv, LinksOwn
<1> HIDE DEF own
<1>3. ws \in [Ids -> Workspace \cup {None}]
  BY DEF Inv, TypeOK
<1>4. ASSUME NEW i \in Ids
      PROVE  /\ ws'[i] \in Workspace \cup {None} /\ (ws'[i] = None <=> ws[i] = None)
             /\ i \notin own => ws'[i] = ws[i]
             /\ ws[i] # None =>
                  /\ ws'[i].src = ws[i].src
                  /\ ws'[i].val[v] = ws[i].val[v] \/ ws'[i].val[v] = x
                  /\ \A u \in Pars \ {v} : ws'[i].val[u] = ws[i].val[u]
  <2>1. CASE i \in own /\ ws[i].val[v] # None
    <3> DEFINE y == [ws[i].val EXCEPT ![v] = x]
    <3>1. ws[i] \in Workspace
      BY <1>2, <1>3, <2>1
    <3>2. ws[i].val \in [Pars -> Vals \cup {None}]
      BY <3>1 DEF Workspace
    <3>3. y \in [Pars -> Vals \cup {None}] /\ y[v] = x /\ \A u \in Pars \ {v} : y[u] = ws[i].val[u]
      BY <3>2
    <3>4. ws'[i] = [ws[i] EXCEPT !.val = y]
      BY <1>1, <2>1
    <3> HIDE DEF y
    <3>5. ws'[i] \in Workspace /\ ws'[i].val = y /\ ws'[i].src = ws[i].src
      BY <3>1, <3>3, <3>4 DEF Workspace
    <3> QED  BY <2>1, <3>1, <3>3, <3>5, NoneAssumption
  <2>2. CASE ~(i \in own /\ ws[i].val[v] # None)
    BY <1>1, <1>3, <2>2
  <2> QED  BY <2>1, <2>2
<1>5. Grown(f, main[f].store) /\ Heap(f, main[f].store, ws)
  BY <1>1, GrownSame
<1>6. ws' \in [Ids -> Workspace \cup {None}]
  BY <1>1, <1>4
<1>7. Heap(f, main[f].store, ws')
  <2>1. \A i \in Ids : ws'[i] # None =>
          ws'[i].val[Par] = ws[i].val[Par] \/ ws'[i].val[Par] \in Vals
    BY <1>4 DEF Pars
  <2>2. \A i \in Ids \ Wss(main[f].store) : ws'[i] # None => ws'[i].val = ws[i].val
    BY <1>4 DEF own
  <2>3. \A i \in Ids : ws'[i] # None => ws'[i].src = ws[i].src
    BY <1>4
  <2>4. \A i \in Ids : ws[i] = None <=> ws'[i] = None
    BY <1>4
  <2> QED  BY <1>1, <1>5, <1>6, <2>1, <2>2, <2>3, <2>4, HeapRewrite
<1>8. TypeOK'
  <2>1. late \subseteq Fams \X Pars /\ late' = late \cup {<<f, v>>}
    BY <1>1 DEF Inv, TypeOK
  <2>2. late' \subseteq Fams \X Pars
    BY <2>1
  <2> QED  BY <1>1, <1>6, <2>2 DEF Inv, TypeOK
<1>9. OwnStep(f)
  BY <1>1, <1>7, KeptStep
<1>10. SyncInv => SyncStep(f)
  <2> SUFFICES ASSUME SyncInv, NEW u \in Params(f), <<f, u>> \notin late'  PROVE Agree(f, u)'
    BY <1>1 DEF SyncStep, Params
  <2>1. u \in Pars \ {v} /\ Agree(f, u) /\ par[f][u].links \subseteq own
    BY <1>1 DEF SyncInv, Params, Inv, LinksOwn, own
  <2> QED  BY <1>1, <1>2, <1>4, <2>1 DEF Agree
<1> QED  BY <1>8, <1>9, <1>10

\* A variable that is made where there is none.
LEMMA WithVariableType ==
  ASSUME NEW w \in Workspace, NEW v \in Pars
  PROVE  /\ WithVariable(w, v) \in Workspace /\ WithVariable(w, v) # None
         /\ WithVariable(w, v).src = w.src
         /\ \A u \in Pars : WithVariable(w, v).val[u] =
              IF u = v /\ w.val[v] = None THEN 0 ELSE w.val[u]
<1> DEFINE new == [w.val EXCEPT ![v] = IF w.val[v] = None THEN 0 ELSE w.val[v]]
<1>1. w.val \in [Pars -> Vals \cup {None}]
  BY DEF Workspace
<1>2. /\ new \in [Pars -> Vals \cup {None}]
      /\ \A u \in Pars : new[u] = IF u = v /\ w.val[v] = None THEN 0 ELSE w.val[u]
  BY <1>1, ValsAssumption
<1>3. WithVariable(w, v) = [w EXCEPT !.val = new]
  BY DEF WithVariable
<1> HIDE DEF new
<1>4. /\ WithVariable(w, v) \in Workspace
      /\ WithVariable(w, v).src = w.src /\ WithVariable(w, v).val = new
  BY <1>2, <1>3 DEF Workspace
<1> QED  BY <1>2, <1>4, NoneAssumption

\* SetupRateParamVar, with the workspace for rateParams there or made.
LEMMA RateParamStep ==
  ASSUME Inv, calls' \in 0..MaxCalls, NEW f \in Fams, NEW v \in RatePars, NEW x \in Vals,
         RateParam(f, v, x)
  PROVE  TypeOK' /\ OwnStep(f) /\ (SyncInv => SyncStep(f))
<1> DEFINE n == <<RateParams, 0>>
           old == main[f].store[n]
           i == IF old = None THEN NewId ELSE old
           w == IF old = None THEN Fresh(RateParams) ELSE ws[i]
           store == IF old = None THEN [main[f].store EXCEPT ![n] = NewId] ELSE main[f].store
           setup == IF old = None THEN [ws EXCEPT ![NewId] = Fresh(RateParams)] ELSE ws
           heap == [ws EXCEPT ![i] = WithVariable(w, v)]
           P == [par[f] EXCEPT ![v] = Linked(par[f][v], i, 0)]
           value == [u \in Pars |-> x]
           V == {v}
           new == Valued(P, V, value)
           L == LateIf(f, v, i, heap)
           own == Wss(store)
<1>1. /\ f \in Live /\ (old # None \/ FreshIds # {})
      /\ main' = [main EXCEPT ![f].store[n] = i]
      /\ par' = [par EXCEPT ![f] = new]
      /\ ws' = Driven(P, heap, V, value)
      /\ late' = L \ ({f} \X Settable(P, V))
      /\ last' = "ok" /\ view' = view /\ obj' = obj /\ syst' = syst
  BY DEF RateParam
<1>2. n \in Names /\ v \in Pars
  BY DEF Names, Pars
<1>3. /\ main \in [Fams -> Instance \cup {None}] /\ ws \in [Ids -> Workspace \cup {None}]
      /\ par \in [Fams -> [Pars -> Parameter \cup {None}]] /\ late \subseteq Fams \X Pars
      /\ main[f] \in Instance /\ main[f].store \in Store
  BY <1>1, LiveTypes DEF Inv, TypeOK
\* The workspace, before the variable is made.
<1>4. /\ Grown(f, store) /\ Heap(f, store, setup) /\ i \in Wss(store) /\ store[n] = i
      /\ \A j \in Wss(main[f].store) : setup[j] = ws[j]
      /\ \A j \in Ids : setup[j] = IF j = i THEN w ELSE ws[j]
  <2>1. CASE old # None
    <3>1. old \in Wss(main[f].store)
      BY <1>2, <2>1 DEF Wss
    <3> QED  BY <1>1, <2>1, <3>1, GrownSame
  <2>2. CASE old = None
    <3>1. FreshIds # {} /\ NewId \in FreshIds /\ NewId \in Ids
          /\ \A g \in Live : NewId \notin Wss(main[g].store)
      BY <1>1, <2>2, FreshId
    <3>2. Fresh(RateParams) \in Workspace /\ Fresh(RateParams).src = RateParams
      BY FreshType
    <3>3. store = [main[f].store EXCEPT ![n] = NewId] /\ setup = [ws EXCEPT ![NewId] = Fresh(RateParams)]
      BY <2>2
    <3> HIDE DEF store, setup, heap, P, new, L
    <3>4. Grown(f, store) /\ Heap(f, store, setup) /\ NewId \in Wss(store)
      BY <1>1, <1>2, <2>2, <3>1, <3>2, <3>3, GrownNew
    <3>5. store[n] = NewId
      BY <1>2, <1>3, <3>3 DEF Store
    <3>6. setup[NewId] = Fresh(RateParams) /\ \A j \in Ids \ {NewId} : setup[j] = ws[j]
      BY <1>3, <3>1, <3>3
    <3>7. Wss(main[f].store) \subseteq Ids
      BY <1>1, LiveTypes DEF Inv
    <3> QED  BY <1>1, <2>2, <3>1, <3>4, <3>5, <3>6, <3>7
  <2> QED  BY <2>1, <2>2
<1>5. main' = [main EXCEPT ![f].store = store]
  <2>1. [main[f].store EXCEPT ![n] = i] = store
    BY <1>2, <1>3 DEF Store
  <2> QED  BY <1>1, <1>3, <2>1
<1> HIDE DEF n, old, i, w, store, setup, value
<1>6. /\ Wss(main[f].store) \subseteq own /\ own \subseteq Ids /\ i \in own /\ i \in Ids
      /\ \A j \in own : setup[j] # None
      /\ setup \in [Ids -> Workspace \cup {None}] /\ store \in Store
      /\ w \in Workspace
  <2>1. store \in Store /\ own \subseteq Ids
    BY <1>4 DEF Grown, Store, Wss
  <2>2. /\ Wss(main[f].store) \subseteq own /\ i \in own /\ i \in Ids
        /\ \A j \in own : setup[j] # None /\ setup \in [Ids -> Workspace \cup {None}]
    BY <1>4, <2>1, GrownWss DEF Heap
  <2>3. w = setup[i]
    BY <1>4, <2>2
  <2> QED  BY <2>1, <2>2, <2>3
<1> HIDE DEF own
\* The variable.
<1>7. /\ heap \in [Ids -> Workspace \cup {None}]
      /\ heap[i] = WithVariable(w, v) /\ \A j \in Ids \ {i} : heap[j] = setup[j]
  <2>1. heap[i] = WithVariable(w, v) /\ \A j \in Ids \ {i} : heap[j] = ws[j]
    BY <1>3, <1>6
  <2>2. heap \in [Ids -> Workspace \cup {None}]
    BY <1>2, <1>3, <1>6, WithVariableType
  <2> HIDE DEF heap
  <2> QED  BY <1>4, <2>1, <2>2
<1> HIDE DEF heap
<1>8. /\ heap[i] # None /\ heap[i].src = setup[i].src
      /\ \A u \in Pars : heap[i].val[u] =
           IF u = v /\ setup[i].val[v] = None THEN 0 ELSE setup[i].val[u]
  BY <1>2, <1>4, <1>6, <1>7, WithVariableType
<1>9. Heap(f, store, heap)
  <2>1. \A j \in Ids : heap[j] # None =>
          /\ heap[j].src = setup[j].src
          /\ heap[j].val[Par] = setup[j].val[Par] \/ heap[j].val[Par] \in Vals
    <3>1. Par \in Pars
      BY DEF Pars
    <3> QED  BY <1>7, <1>8, <3>1, ValsAssumption
  <2>2. \A j \in Ids \ Wss(store) : heap[j] # None => heap[j].val = setup[j].val
    BY <1>6, <1>7 DEF own
  <2>3. \A j \in Ids : setup[j] = None <=> heap[j] = None
    BY <1>6, <1>7, <1>8
  <2> QED  BY <1>1, <1>4, <1>7, <2>1, <2>2, <2>3, HeapRewrite
\* The Parameter.
<1>10. /\ P \in [Pars -> Parameter \cup {None}] /\ P[v] # None
       /\ \A u \in Pars \ {v} : P[u] = par[f][u]
       /\ par[f][v] = None => P[v].links = {i} /\ ~P[v].frozen
       /\ par[f][v] # None => P[v].val = par[f][v].val /\ P[v].links = par[f][v].links \cup {i}
  <2>1. par[f] \in [Pars -> Parameter \cup {None}] /\ par[f][v] \in Parameter \cup {None}
    BY <1>2, <1>3
  <2> DEFINE o == Linked(par[f][v], i, 0)
  <2>2. /\ o \in Parameter /\ o # None
        /\ par[f][v] = None => o.links = {i}
        /\ par[f][v] # None => o.val = par[f][v].val /\ o.links = par[f][v].links \cup {i}
    <3>1. \A q \in Parameter \cup {None}, l \in Ids, z \in Vals :
            /\ Linked(q, l, z) \in Parameter /\ Linked(q, l, z) # None
            /\ q = None => Linked(q, l, z).links = {l}
            /\ q # None => /\ Linked(q, l, z).val = q.val
                           /\ Linked(q, l, z).links = q.links \cup {l}
      BY LinkedParameter
    <3>2. 0 \in Vals
      BY ValsAssumption
    <3> QED  BY <1>6, <2>1, <3>1, <3>2
  <2>3. par[f][v] = None => ~o.frozen
    BY DEF Linked
  <2> HIDE DEF o
  <2>4. P = [par[f] EXCEPT ![v] = o]
    BY DEF o
  <2> HIDE DEF P
  <2>5. P[v] = o /\ \A u \in Pars \ {v} : P[u] = par[f][u]
    BY <1>2, <2>1, <2>4
  <2> QED  BY <2>1, <2>2, <2>3, <2>4, <2>5
<1> HIDE DEF P
<1>11. \A u \in Pars : par[f][u] # None => par[f][u].links \subseteq Wss(main[f].store)
  BY <1>1 DEF Inv, LinksOwn, Params
<1>12. \A u \in Pars : P[u] # None => P[u].links \subseteq own
  <2> SUFFICES ASSUME NEW u \in Pars, P[u] # None  PROVE P[u].links \subseteq own
    OBVIOUS
  <2>1. CASE u = v
    BY <1>2, <1>6, <1>10, <1>11, <2>1
  <2>2. CASE u # v
    BY <1>6, <1>10, <1>11, <2>2
  <2> QED  BY <2>1, <2>2
<1>13. /\ \A u \in V : value[u] \in Vals
       /\ V \in SUBSET {u \in Pars : P[u] # None} /\ V \in SUBSET Pars
  BY <1>2, <1>10 DEF value
<1> HIDE DEF V
<1>14. /\ new \in [Pars -> Parameter \cup {None}]
       /\ \A u \in Pars : new[u] # None <=> P[u] # None
       /\ \A u \in Pars : P[u] # None =>
            /\ new[u].links = P[u].links
            /\ new[u].val = IF u \in Settable(P, V) THEN value[u] ELSE P[u].val
  BY <1>10, <1>13, ValuedStep
<1> HIDE DEF new
<1>15. /\ par' \in [Fams -> [Pars -> Parameter \cup {None}]] /\ par'[f] = new
       /\ \A g \in Fams \ {f} : par'[g] = par[g]
  BY <1>1, <1>3, <1>14
<1>16. /\ Heap(f, store, ws')
       /\ \A u \in Pars : \A j \in own : ws'[j].val[u] =
            IF u \in Settable(P, V) /\ j \in P[u].links THEN value[u] ELSE heap[j].val[u]
  <2>1. \A u \in V : P[u].links \subseteq Wss(store)
    BY <1>12, <1>13 DEF own
  <2> QED  BY <1>1, <1>4, <1>9, <1>13, <2>1, DrivenStep DEF own
<1>17. /\ main'[f] \in Instance /\ main'[f].store = store
       /\ main' \in [Fams -> Instance \cup {None}] /\ \A g \in Fams \ {f} : main'[g] = main[g]
  BY <1>3, <1>5, <1>6 DEF Instance
<1>18. L \in {late, late \cup {<<f, v>>}}
  BY DEF LateIf
<1>19. TypeOK'
  <2>1. late' \subseteq Fams \X Pars
    BY <1>1, <1>2, <1>3, <1>18
  <2> QED  BY <1>1, <1>15, <1>16, <1>17, <2>1 DEF Inv, TypeOK, Heap
<1>20. \A p \in Present(f) : {Pdf(f, p), Norm(f, p)} \subseteq Wss(store) \cup {None}
  <2> SUFFICES ASSUME NEW p \in Present(f)
               PROVE  {Pdf(f, p), Norm(f, p)} \subseteq Wss(store) \cup {None}
    OBVIOUS
  <2>1. {Pdf(f, p), Norm(f, p)} \subseteq Wss(main[f].store) \cup {None}
    BY <1>1 DEF Inv, LinksOwn
  <2> QED  BY <1>6, <2>1 DEF own
<1>21. /\ \A u \in Params(f)' : par'[f][u].links \subseteq Wss(store)
       /\ \A u \in Pars : par[f][u] # None => par'[f][u] # None
  BY <1>10, <1>12, <1>14, <1>15 DEF Params, own
<1>22. OwnStep(f)
  BY <1>1, <1>4, <1>15, <1>16, <1>17, <1>20, <1>21, NoneAssumption
     DEF OwnStep, Present, Pdf, Norm
<1>23. ASSUME SyncInv, NEW u \in Pars, P[u] # None, <<f, u>> \notin L, u \notin Settable(P, V),
              NEW j \in P[u].links
       PROVE  heap[j].val[u] = P[u].val
  <2>1. <<f, u>> \notin late
    BY <1>18, <1>23
  <2>2. par[f][u] # None => \A k \in par[f][u].links :
          /\ k \in Ids /\ setup[k] = ws[k] /\ ws[k].val[u] = par[f][u].val
    BY <1>1, <1>4, <1>6, <1>11, <1>23, <2>1 DEF SyncInv, Agree, Params
  <2>3. CASE u # v
    <3>1. par[f][u] # None /\ P[u] = par[f][u]
      BY <1>10, <1>23, <2>3
    <3>2. j \in Ids /\ setup[j].val[u] = P[u].val
      BY <1>23, <2>2, <3>1
    <3> QED  BY <1>7, <1>8, <1>23, <2>3, <3>2
  <2>4. CASE u = v
    <3>1. par[f][v] # None /\ P[v].val = par[f][v].val /\ P[v].links = par[f][v].links \cup {i}
      BY <1>10, <1>23, <2>4 DEF Settable, V
    <3>2. CASE j \in par[f][v].links
      <4>1. j \in Ids /\ setup[j].val[v] = par[f][v].val
        BY <2>2, <2>4, <3>1, <3>2
      <4>2. par[f][v].val # None
        <5>1. par[f][v] \in Parameter
          BY <1>2, <1>3, <3>1
        <5> QED  BY <5>1, NoneAssumption DEF Parameter
      <4> QED  BY <1>2, <1>7, <1>8, <2>4, <3>1, <4>1, <4>2
    <3>3. CASE j \notin par[f][v].links
      <4>1. j = i
        BY <1>23, <2>4, <3>1, <3>3
      <4> QED  BY <1>23, <2>4, <3>1, <3>3, <4>1 DEF LateIf
    <3> QED  BY <3>2, <3>3
  <2> QED  BY <2>3, <2>4
<1> HIDE DEF L
<1>24. SyncInv => SyncStep(f)
  <2> SUFFICES ASSUME SyncInv, NEW u \in Params(f)', <<f, u>> \notin late'  PROVE Agree(f, u)'
    <3>1. \A g \in Live \ {f} : \A u \in Pars : <<g, u>> \in late => <<g, u>> \in late'
      BY <1>1, <1>18
    <3> QED  BY <3>1 DEF SyncStep
  <2>1. u \in Pars /\ P[u] # None
    BY <1>14, <1>15 DEF Params
  <2>2. \A j \in new[u].links : ws'[j].val[u] = new[u].val
    BY <1>1, <1>12, <1>14, <1>16, <1>13, <1>23, <2>1, SetAgree
  <2> QED  BY <1>15, <2>2 DEF Agree
<1> QED  BY <1>19, <1>22, <1>24

\* The pdfs may be those of another family (after deep), their values are not
\* touched.
LEMMA RenameStep ==
  ASSUME Inv, calls' \in 0..MaxCalls, NEW f \in Fams, RenameSystematic(f, "renamed")
  PROVE  TypeOK' /\ OwnStep(f) /\ (SyncInv => SyncStep(f))
<1> DEFINE i == syst[f].pdfs
           up == IF ws[i].up = syst[f].name THEN "renamed" ELSE ws[i].up
<1>1. /\ f \in Live /\ syst[f] # None /\ i # None
      /\ syst' = [syst EXCEPT ![f].name = "renamed"]
      /\ ws' = [ws EXCEPT ![i].up = up]
      /\ last' = "ok" /\ main' = main /\ view' = view /\ obj' = obj /\ par' = par /\ late' = late
  BY DEF RenameSystematic
<1>2. /\ syst \in [Fams -> Systematic \cup {None}] /\ ws \in [Ids -> Workspace \cup {None}]
      /\ syst[f] \in Systematic
  BY <1>1 DEF Inv, TypeOK
<1>3. i \in Ids /\ ws[i] # None /\ ws[i] \in Workspace
  BY <1>1, <1>2 DEF Systematic, Inv, SystAlive
<1> HIDE DEF i
<1>4. up \in {"syst", "renamed", None}
  BY <1>3 DEF Workspace
<1> HIDE DEF up
<1>5. /\ ws' \in [Ids -> Workspace \cup {None}]
      /\ ws'[i] \in Workspace /\ ws'[i].val = ws[i].val /\ ws'[i].src = ws[i].src
      /\ \A j \in Ids \ {i} : ws'[j] = ws[j]
  <2> DEFINE w == [ws[i] EXCEPT !.up = up]
  <2>1. w \in Workspace /\ w.val = ws[i].val /\ w.src = ws[i].src
    BY <1>3, <1>4 DEF Workspace
  <2>2. ws' = [ws EXCEPT ![i] = w]
    BY <1>1
  <2> HIDE DEF w
  <2> QED  BY <1>2, <1>3, <2>1, <2>2
<1>6. ws'[i] # None
  BY <1>5, NoneAssumption
<1>7. /\ syst' \in [Fams -> Systematic \cup {None}] /\ syst'[f].pdfs = i
      /\ \A g \in Fams \ {f} : syst'[g] = syst[g]
  <2> DEFINE y == [syst[f] EXCEPT !.name = "renamed"]
  <2>1. y \in Systematic /\ y.pdfs = i
    BY <1>2 DEF Systematic, i
  <2>2. syst' = [syst EXCEPT ![f] = y]
    BY <1>1
  <2> HIDE DEF y
  <2> QED  BY <1>2, <2>1, <2>2
<1>8. \A j \in Ids : ws[j] # None => ws'[j].val = ws[j].val /\ ws'[j].src = ws[j].src
  BY <1>5
<1>9. Heap(f, main[f].store, ws')
  <2>1. \A g \in Live : \A j \in Wss(main[g].store) : j \in Ids /\ ws[j] # None
    BY LiveTypes DEF Inv, LinksOwn
  <2>2. \A j \in Ids : ws[j] # None <=> ws'[j] # None
    BY <1>3, <1>5, <1>6
  <2>3. ParSet(ws')
    BY <1>8, <2>2 DEF Inv, ParSet
  <2> QED  BY <1>1, <1>5, <1>8, <2>1, <2>2, <2>3 DEF Heap
<1>10. TypeOK'
  BY <1>1, <1>5, <1>7 DEF Inv, TypeOK
<1>11. /\ Grown(f, main[f].store)
       /\ \A p \in Present(f) : {Pdf(f, p), Norm(f, p)} \subseteq Wss(main[f].store) \cup {None}
       /\ \A v \in Params(f) : par[f][v].links \subseteq Wss(main[f].store)
  BY <1>1, GrownSame DEF Inv, LinksOwn
<1>12. OwnStep(f)
  BY <1>1, <1>6, <1>7, <1>9, <1>11 DEF OwnStep, Live, Present, Params, Pdf, Norm
<1>13. SyncInv => SyncStep(f)
  <2>1. \A j \in Wss(main[f].store) : ws'[j].val = ws[j].val
    BY <1>1, <1>8, LiveTypes DEF Inv, LinksOwn
  <2> QED  BY <1>1, <2>1, SyncQuiet
<1> QED  BY <1>10, <1>12, <1>13

LEMMA AutoStep ==
  ASSUME Inv, calls' \in 0..MaxCalls, NEW f \in Fams, SetAutoMCStats(f)
  PROVE  TypeOK' /\ OwnStep(f) /\ (SyncInv => SyncStep(f))
<1>1. /\ f \in Live /\ main' = [main EXCEPT ![f].auto = TRUE]
      /\ last' = "ok" /\ view' = view /\ obj' = obj /\ syst' = syst /\ par' = par
      /\ ws' = ws /\ late' = late
  BY DEF SetAutoMCStats
<1>2. main[f] \in Instance /\ main \in [Fams -> Instance \cup {None}]
  BY <1>1, LiveTypes DEF Inv, TypeOK
<1>3. /\ main'[f] \in Instance /\ main'[f].store = main[f].store
      /\ main' \in [Fams -> Instance \cup {None}] /\ \A g \in Fams \ {f} : main'[g] = main[g]
  BY <1>1, <1>2 DEF Instance
<1>4. TypeOK'
  BY <1>1, <1>3 DEF Inv, TypeOK
<1>5. /\ Grown(f, main[f].store) /\ Heap(f, main[f].store, ws)
      /\ \A p \in Present(f) : {Pdf(f, p), Norm(f, p)} \subseteq Wss(main[f].store) \cup {None}
      /\ \A v \in Params(f) : par[f][v].links \subseteq Wss(main[f].store)
  BY <1>1, GrownSame DEF Inv, LinksOwn
<1>6. OwnStep(f)
  BY <1>1, <1>3, <1>5, NoneAssumption DEF OwnStep, Present, Params, Pdf, Norm
<1>7. SyncInv => SyncStep(f)
  BY <1>1, SyncQuiet
<1> QED  BY <1>4, <1>6, <1>7

-----------------------------------------------------------------------------
(* deep() and the end of an instance.                                      *)

\* What is common to both: families other than the one that comes or goes keep
\* what they have.
Keeps(h) ==
  /\ main'[h] = main[h] /\ obj'[h] = obj[h] /\ par'[h] = par[h]
  /\ \A i \in Wss(main[h].store) : ws'[i] = ws[i]

LEMMA KeepsLinks ==
  ASSUME Inv, NEW h \in Live, Keeps(h)
  PROVE  /\ \A p \in Present(h)' : {Pdf(h, p)', Norm(h, p)'} \subseteq Wss(main'[h].store) \cup {None}
         /\ \A v \in Params(h)' : par'[h][v].links \subseteq Wss(main'[h].store)
         /\ \A i \in Wss(main'[h].store) : ws'[i] # None
         /\ \A m, n \in Names :
              main'[h].store[m] = main'[h].store[n] /\ m # n => main'[h].store[m] = None
         /\ Present(h)' = Present(h) /\ Params(h)' = Params(h)
         /\ Observed(h)' = Observed(h)
         /\ \A v \in Params(h) : Agree(h, v) => Agree(h, v)'
<1>1. Observed(h)' = Observed(h)
  BY SameObserved DEF Keeps
<1>2. Present(h)' = Present(h) /\ Params(h)' = Params(h)
  BY DEF Keeps, Present, Params
<1>3. /\ \A p \in Present(h) : {Pdf(h, p), Norm(h, p)} \subseteq Wss(main[h].store) \cup {None}
      /\ \A v \in Params(h) : par[h][v].links \subseteq Wss(main[h].store)
      /\ \A i \in Wss(main[h].store) : ws[i] # None
      /\ \A m, n \in Names :
           main[h].store[m] = main[h].store[n] /\ m # n => main[h].store[m] = None
  BY DEF Inv, LinksOwn
<1>4. \A v \in Params(h) : Agree(h, v) => Agree(h, v)'
  BY <1>3 DEF Keeps, Agree
<1> QED  BY <1>1, <1>2, <1>3, <1>4 DEF Keeps, Pdf, Norm

\* The copy: its workspaces are fresh, one for each of the store, and its
\* pointers are the originals' at the fresh ones.
LEMMA DeepCopyStep ==
  ASSUME Inv, calls' \in 0..MaxCalls, NEW f \in Live, NEW g \in Fams \ Live,
         NEW store \in Store,
         \A n \in Names : store[n] = None \/ store[n] = main[f].store[n],
         NEW procs \in SUBSET Present(f), NEW params \in SUBSET Params(f),
         Resolves(f, store, procs, params), DeepCopy(f, g, store, procs, params)
  PROVE  Inv' /\ TwinsMade /\ OthersStay /\ (SyncInv => SyncInv')
<1> DEFINE W == Wss(store)
           m == CHOOSE c \in Copies(store) : TRUE
           back(j) == CHOOSE i \in W : m[i] = j
<1>1. /\ Copies(store) # {}
      /\ main' = [main EXCEPT ![g] =
           [store |-> [n \in Names |-> Remap(m, store[n])], auto |-> FALSE]]
      /\ obj' = [obj EXCEPT ![g] = [p \in Procs |->
           IF p \notin procs THEN None ELSE CopiedProcess(obj[f][p], m)]]
      /\ syst' = [syst EXCEPT ![g] = syst[f]]
      /\ par' = [par EXCEPT ![g] = [v \in Pars |->
           IF v \notin params THEN None ELSE [par[f][v] EXCEPT !.links = {m[i] : i \in @}]]]
      /\ ws' = [j \in Ids |-> IF \E i \in W : m[i] = j THEN ws[back(j)] ELSE ws[j]]
      /\ late' = late \cup {<<g, v>> : v \in {u \in params : <<f, u>> \in late}}
      /\ last' = "ok" /\ view' = view
  BY DEF DeepCopy
<1>2. m \in [W -> FreshIds] /\ \A i, j \in W : m[i] = m[j] => i = j
  <2>1. m \in Copies(store)
    BY <1>1
  <2> HIDE DEF m
  <2> QED  BY <2>1 DEF Copies
<1>3. \A i \in W : back(m[i]) = i
  BY <1>2
<1>4. /\ g \in Fams /\ f \in Fams /\ f # g
      /\ main \in [Fams -> Instance \cup {None}] /\ ws \in [Ids -> Workspace \cup {None}]
      /\ obj \in [Fams -> [Procs -> Process \cup {None}]]
      /\ syst \in [Fams -> Systematic \cup {None}]
      /\ par \in [Fams -> [Pars -> Parameter \cup {None}]]
      /\ main[g] = None
  BY DEF Inv, TypeOK, Live
<1> HIDE DEF m, back
<1>5. W \subseteq Wss(main[f].store) /\ W \subseteq Ids /\ FreshIds \subseteq Ids
      /\ \A i \in W : ws[i] \in Workspace /\ ws[i] # None
  <2>1. W \subseteq Wss(main[f].store)
    BY DEF Wss
  <2>2. Wss(main[f].store) \subseteq Ids /\ \A i \in Wss(main[f].store) : ws[i] # None
    BY LiveTypes DEF Inv, LinksOwn
  <2> QED  BY <1>4, <2>1, <2>2 DEF FreshIds
<1>6. \A n \in Names : store[n] # None => store[n] \in W
  BY DEF Wss
<1> DEFINE copy == [n \in Names |-> Remap(m, store[n])]
<1>7. \A n \in Names : copy[n] = IF store[n] = None THEN None ELSE m[store[n]]
  BY DEF Remap
<1>8. copy \in Store /\ Wss(copy) = {m[i] : i \in W}
  <2>1. \A n \in Names : store[n] # None => copy[n] \in FreshIds /\ copy[n] # None
    BY <1>2, <1>5, <1>6, <1>7, NoneAssumption
  <2>2. copy \in Store
    BY <1>5, <1>7, <2>1 DEF Store
  <2>3. ASSUME NEW n \in Names, copy[n] # None  PROVE copy[n] \in {m[i] : i \in W}
    BY <1>6, <1>7, <2>3
  <2>4. ASSUME NEW i \in W  PROVE m[i] \in Wss(copy)
    <3>1. PICK n \in Names : store[n] = i /\ i # None
      BY DEF Wss
    <3>2. copy[n] = m[i] /\ copy[n] # None
      BY <1>7, <2>1, <3>1
    <3> HIDE DEF copy
    <3> QED  BY <3>2 DEF Wss
  <2> HIDE DEF copy
  <2> QED  BY <2>2, <2>3, <2>4 DEF Wss
<1> HIDE DEF copy
<1>9. /\ main'[g].store = copy /\ main'[g] \in Instance /\ main'[g] # None
      /\ \A h \in Fams \ {g} : main'[h] = main[h]
      /\ main' \in [Fams -> Instance \cup {None}]
  <2> DEFINE new == [store |-> copy, auto |-> FALSE]
  <2>1. new \in Instance /\ new.store = copy
    BY <1>8 DEF Instance
  <2>2. main' = [main EXCEPT ![g] = new]
    BY <1>1 DEF copy
  <2> HIDE DEF new
  <2> QED  BY <1>4, <2>1, <2>2, NoneAssumption
<1>10. Live' = Live \cup {g}
  BY <1>4, <1>9 DEF Live
<1>11. /\ \A i \in W : ws'[m[i]] = ws[i]
       /\ \A j \in Ids \ {m[i] : i \in W} : ws'[j] = ws[j]
       /\ ws' \in [Ids -> Workspace \cup {None}]
  <2>1. \A i \in W : m[i] \in Ids /\ ws'[m[i]] = ws[i]
    BY <1>1, <1>2, <1>3, <1>5
  <2>2. \A j \in Ids \ {m[i] : i \in W} : ws'[j] = ws[j]
    BY <1>1
  <2>3. \A j \in Ids : ws'[j] \in Workspace \cup {None}
    BY <1>4, <1>5, <2>1, <2>2
  <2> QED  BY <1>1, <2>1, <2>2, <2>3
<1>12. \A h \in Live : Keeps(h)
  <2> SUFFICES ASSUME NEW h \in Live  PROVE Keeps(h)
    OBVIOUS
  <2>1. h \in Fams \ {g}
    BY LiveTypes DEF Inv
  <2>2. main'[h] = main[h] /\ obj'[h] = obj[h] /\ par'[h] = par[h]
    BY <1>1, <1>4, <1>9, <2>1
  <2>3. \A i \in Wss(main[h].store) : i \in Ids \ {m[j] : j \in W}
    BY <1>2, OldIds
  <2> QED  BY <1>11, <2>2, <2>3 DEF Keeps
\* The objects of the copy.
<1>13. /\ \A p \in procs : /\ obj'[g][p] \in Process /\ obj'[g][p] # None
                           /\ obj'[g][p].pdf = Remap(m, obj[f][p].pdf)
                           /\ obj'[g][p].norm = Remap(m, obj[f][p].norm)
       /\ \A p \in Procs \ procs : obj'[g][p] = None
       /\ obj' \in [Fams -> [Procs -> Process \cup {None}]]
  <2>1. \A p \in procs : {obj[f][p].pdf, obj[f][p].norm} \subseteq W \cup {None}
    BY DEF Resolves, Pdf, Norm
  <2>2. \A i \in W \cup {None} : Remap(m, i) \in Ids \cup {None}
    BY <1>2, <1>5 DEF Remap
  <2>3. \A p \in procs :
          CopiedProcess(obj[f][p], m) \in Process /\ CopiedProcess(obj[f][p], m) # None
    BY <2>1, <2>2, NoneAssumption DEF CopiedProcess, Process
  <2>4. procs \subseteq Procs
    BY DEF Present
  <2>5. obj'[g] = [p \in Procs |-> IF p \notin procs THEN None ELSE CopiedProcess(obj[f][p], m)]
    BY <1>1, <1>4
  <2>6. obj'[g] \in [Procs -> Process \cup {None}]
    BY <2>3, <2>5
  <2>7. obj' \in [Fams -> [Procs -> Process \cup {None}]]
    BY <1>1, <1>4, <2>5, <2>6
  <2> QED  BY <2>3, <2>4, <2>5, <2>7 DEF CopiedProcess
<1>14. /\ \A v \in params : /\ par'[g][v] \in Parameter /\ par'[g][v] # None
                            /\ par'[g][v].val = par[f][v].val
                            /\ par'[g][v].links = {m[i] : i \in par[f][v].links}
                            /\ par[f][v].links \subseteq W
       /\ \A v \in Pars \ params : par'[g][v] = None
       /\ par' \in [Fams -> [Pars -> Parameter \cup {None}]]
  <2> DEFINE new(v) == [par[f][v] EXCEPT !.links = {m[i] : i \in par[f][v].links}]
  <2>1. ASSUME NEW v \in params
        PROVE  /\ new(v) \in Parameter /\ new(v) # None /\ new(v).val = par[f][v].val
               /\ new(v).links = {m[i] : i \in par[f][v].links}
               /\ par[f][v].links \subseteq W
    <3>1. par[f][v] \in Parameter
      BY LiveTypes DEF Inv
    <3>2. par[f][v].links \subseteq W
      BY DEF Resolves
    <3>3. {m[i] : i \in par[f][v].links} \subseteq Ids
      BY <1>2, <1>5, <3>2
    <3>4. new(v) \in Parameter /\ new(v).val = par[f][v].val
          /\ new(v).links = {m[i] : i \in par[f][v].links}
      BY <3>1, <3>3 DEF Parameter
    <3> QED  BY <3>2, <3>4, NoneAssumption
  <2>2. params \subseteq Pars
    BY DEF Params
  <2>3. par'[g] = [v \in Pars |-> IF v \notin params THEN None ELSE new(v)]
    BY <1>1, <1>4
  <2> HIDE DEF new
  <2>4. par'[g] \in [Pars -> Parameter \cup {None}]
    BY <2>1, <2>3
  <2>5. \A h \in Fams \ {g} : par'[h] = par[h]
    BY <1>1, <1>4
  <2>6. par' = [par EXCEPT ![g] = par'[g]]
    BY <1>1, <1>4
  <2>7. par' \in [Fams -> [Pars -> Parameter \cup {None}]]
    BY <1>4, <2>4, <2>6
  <2> QED  BY <2>1, <2>2, <2>3, <2>7
<1>15. Present(g)' = procs /\ Params(g)' = params
  BY <1>13, <1>14 DEF Present, Params
<1>16. TypeOK'
  <2> HIDE DEF W, copy
  <2>1. {<<g, v>> : v \in {u \in params : <<f, u>> \in late}} \subseteq Fams \X Pars
    <3>1. params \subseteq Pars
      BY DEF Params
    <3> SUFFICES ASSUME NEW v \in params  PROVE <<g, v>> \in Fams \X Pars
      OBVIOUS
    <3> QED  BY <1>4, <3>1
  <2>2. late' \subseteq Fams \X Pars
    <3>1. late \subseteq Fams \X Pars
      BY DEF Inv, TypeOK
    <3> QED  BY <1>1, <2>1, <3>1
  <2>3. syst' \in [Fams -> Systematic \cup {None}]
    BY <1>1, <1>4
  <2> QED  BY <1>1, <1>9, <1>11, <1>13, <1>14, <2>2, <2>3 DEF Inv, TypeOK
<1>17. LinksOwn'
  <2>1. \A p \in procs : {Pdf(g, p)', Norm(g, p)'} \subseteq Wss(copy) \cup {None}
    <3> SUFFICES ASSUME NEW p \in procs
                 PROVE  {obj'[g][p].pdf, obj'[g][p].norm} \subseteq Wss(copy) \cup {None}
      BY DEF Pdf, Norm
    <3>1. {obj[f][p].pdf, obj[f][p].norm} \subseteq W \cup {None}
      BY DEF Resolves, Pdf, Norm
    <3>2. \A i \in W \cup {None} : Remap(m, i) \in Wss(copy) \cup {None}
      BY <1>8 DEF Remap
    <3> QED  BY <1>13, <3>1, <3>2
  <2>2. \A v \in params : par'[g][v].links \subseteq Wss(copy)
    BY <1>8, <1>14
  <2>3. \A i \in Wss(copy) : ws'[i] # None
    BY <1>5, <1>8, <1>11
  <2>4. \A l, n \in Names : copy[l] = copy[n] /\ l # n => copy[l] = None
    <3> SUFFICES ASSUME NEW l \in Names, NEW n \in Names, copy[l] = copy[n], l # n, copy[l] # None
                 PROVE  FALSE
      OBVIOUS
    <3>1. store[l] # None /\ store[n] # None
      BY <1>7
    <3>2. store[l] = store[n]
      BY <1>2, <1>6, <1>7, <3>1
    <3>3. main[f].store[l] = main[f].store[n] /\ main[f].store[l] # None
      BY <3>1, <3>2
    <3> QED  BY <3>3 DEF Inv, LinksOwn
  <2> QED  BY <1>9, <1>10, <1>12, <1>15, <2>1, <2>2, <2>3, <2>4, KeepsLinks DEF LinksOwn
<1>18. Apart'
  <2>1. \A h \in Live : Wss(copy) \cap Wss(main[h].store) = {}
    BY <1>2, <1>8, OldIds
  <2> QED  BY <1>9, <1>10, <1>12, <2>1 DEF Apart, Keeps, Inv
<1>19. ViewInv'
  <2> SUFFICES ASSUME view # None  PROVE ViewInv'
    BY <1>1 DEF ViewInv
  <2>1. view.fam \in Live
    BY DEF Inv, ViewInv
  <2>2. PICK h \in Live : h = view.fam
    BY <2>1
  <2>3. main'[h] = main[h] /\ Present(h)' = Present(h) /\ Params(h)' = Params(h)
    BY <1>12, KeepsLinks DEF Keeps
  <2>4. /\ \A n \in Names : view.store[n] = None \/ view.store[n] = main[view.fam].store[n]
        /\ view.procs \subseteq Present(view.fam) /\ view.params \subseteq Params(view.fam)
    BY DEF Inv, ViewInv
  <2> QED  BY <1>1, <1>10, <2>2, <2>3, <2>4 DEF ViewInv, Present, Params
<1>20. ParSet(ws)'
  <2>1. \A j \in Ids : j \in {m[i] : i \in W} \/ ws'[j] = ws[j]
    BY <1>11
  <2>2. \A i \in W : ws[i].src # RateParams => ws[i].val[Par] \in Vals
    BY <1>5 DEF Inv, ParSet
  <2> QED  BY <1>11, <2>1, <2>2 DEF ParSet, Inv
<1>21. SystAlive'
  <2>1. \A j \in Ids : ws[j] # None => ws'[j] # None
    BY <1>5, <1>11
  <2>2. \A h \in Fams : syst[h] # None /\ syst[h].pdfs # None =>
          syst[h].pdfs \in Ids /\ ws[syst[h].pdfs] # None
    BY <1>4 DEF Inv, SystAlive, Systematic
  <2>3. \A h \in Fams : syst'[h] = syst[h] \/ syst'[h] = syst[f]
    BY <1>1, <1>4
  <2> QED  BY <1>4, <2>1, <2>2, <2>3 DEF SystAlive
\* The copy is a twin.
<1>22. Twin(f, g)
  <2>1. ASSUME NEW p \in procs  PROVE Rate(g, p)' = Rate(f, p)
    <3>1. Norm(f, p) \in W \cup {None}
      BY DEF Resolves
    <3>2. Norm(g, p)' = IF Norm(f, p) = None THEN None ELSE m[Norm(f, p)]
      BY <1>13 DEF Norm, Remap
    <3>3. CASE Norm(f, p) = None
      BY <3>2, <3>3 DEF Rate
    <3>4. CASE Norm(f, p) # None
      <4>1. m[Norm(f, p)] # None /\ ws'[m[Norm(f, p)]] = ws[Norm(f, p)]
        BY <1>2, <1>5, <1>11, <3>1, <3>4, NoneAssumption
      <4> QED  BY <3>2, <3>4, <4>1 DEF Rate
    <3> QED  BY <3>3, <3>4
  <2>2. ASSUME NEW v \in params  PROVE Observed(g)'[2][v] = Observed(f)[2][v]
    <3>1. {ws'[j].val[v] : j \in par'[g][v].links} = {ws[i].val[v] : i \in par[f][v].links}
      BY <1>11, <1>14
    <3>2. v \in Params(f)
      OBVIOUS
    <3>3. Observed(g)'[2][v] = <<par'[g][v].val, {ws'[j].val[v] : j \in par'[g][v].links}>>
      BY <1>15 DEF Observed
    <3>4. Observed(f)[2][v] = <<par[f][v].val, {ws[i].val[v] : i \in par[f][v].links}>>
      BY <3>2 DEF Observed
    <3> QED  BY <1>14, <3>1, <3>3, <3>4
  <2> QED  BY <1>15, <2>1, <2>2 DEF Twin
<1>23. TwinsMade
  <2>1. \A h \in Fams : main[h] = None /\ main'[h] # None => h = g
    BY <1>9
  <2> QED  BY <1>22, <2>1 DEF TwinsMade
<1>24. OthersStay
  BY <1>12, KeepsLinks DEF OthersStay
<1>25. ASSUME SyncInv  PROVE SyncInv'
  <2>1. ASSUME NEW h \in Live, NEW v \in Params(h)', <<h, v>> \notin late'  PROVE Agree(h, v)'
    BY <1>1, <1>12, <1>25, <2>1, KeepsLinks DEF SyncInv
  <2>2. ASSUME NEW v \in params, <<g, v>> \notin late'  PROVE Agree(g, v)'
    <3>1. <<f, v>> \notin late
      BY <1>1, <2>2
    <3>2. Agree(f, v)
      BY <1>25, <3>1 DEF SyncInv
    <3>3. \A i \in par[f][v].links : ws'[m[i]].val[v] = par[f][v].val
      BY <1>11, <1>14, <3>2 DEF Agree
    <3> QED  BY <1>14, <3>3 DEF Agree
  <2> QED  BY <1>10, <1>15, <2>1, <2>2 DEF SyncInv
<1> QED  BY <1>16, <1>17, <1>18, <1>19, <1>20, <1>21, <1>23, <1>24, <1>25 DEF Inv

\* What an instance alone owned is gone with it, and nobody else points there.
LEMMA DestroyStep ==
  ASSUME Inv, calls' \in 0..MaxCalls, NEW f \in Fams, Destroy(f)
  PROVE  Inv' /\ TwinsMade /\ OthersStay /\ (SyncInv => SyncInv')
<1> DEFINE gone == Wss(main[f].store) \ UNION {Wss(main[g].store) : g \in Live \ {f}}
           left(g) == IF syst[g].pdfs \in gone THEN None ELSE syst[g].pdfs
           none == [p \in Procs |-> None]
           nopar == [v \in Pars |-> None]
<1>1. /\ f \in Live /\ (view # None => view.fam # f)
      /\ main' = [main EXCEPT ![f] = None]
      /\ obj' = [obj EXCEPT ![f] = none]
      /\ syst' = [g \in Fams |-> IF g = f \/ syst[g] = None THEN None
                                 ELSE [syst[g] EXCEPT !.pdfs = left(g)]]
      /\ par' = [par EXCEPT ![f] = nopar]
      /\ ws' = [i \in Ids |-> IF i \in gone THEN None ELSE ws[i]]
      /\ late' = {x \in late : x[1] # f}
      /\ last' = "ok" /\ view' = view
  BY DEF Destroy
<1>2. /\ main \in [Fams -> Instance \cup {None}] /\ ws \in [Ids -> Workspace \cup {None}]
      /\ obj \in [Fams -> [Procs -> Process \cup {None}]]
      /\ syst \in [Fams -> Systematic \cup {None}]
      /\ par \in [Fams -> [Pars -> Parameter \cup {None}]]
      /\ late \subseteq Fams \X Pars
  BY DEF Inv, TypeOK
<1>3. none \in [Procs -> Process \cup {None}] /\ nopar \in [Pars -> Parameter \cup {None}]
  OBVIOUS
<1>4. \A g \in Live \ {f} : Wss(main[g].store) \cap gone = {}
  OBVIOUS
<1> HIDE DEF gone, none, nopar
<1>5. Live' = Live \ {f} /\ main'[f] = None /\ \A g \in Fams \ {f} : main'[g] = main[g]
  BY <1>1, <1>2 DEF Live
<1>6. \A h \in Live \ {f} : Keeps(h)
  <2> SUFFICES ASSUME NEW h \in Live \ {f}  PROVE Keeps(h)
    OBVIOUS
  <2>1. h \in Fams /\ Wss(main[h].store) \subseteq Ids
    BY LiveTypes DEF Inv
  <2>2. \A i \in Wss(main[h].store) : ws'[i] = ws[i]
    BY <1>1, <1>4, <2>1
  <2> QED  BY <1>1, <1>2, <2>1, <2>2 DEF Keeps
<1>7. \A g \in Fams : syst'[g] # None =>
        /\ syst[g] # None /\ syst'[g] \in Systematic /\ syst'[g].pdfs = left(g)
        /\ left(g) # None => left(g) = syst[g].pdfs /\ left(g) \notin gone
  <2> SUFFICES ASSUME NEW g \in Fams, syst'[g] # None
               PROVE  /\ syst[g] # None /\ syst'[g] \in Systematic /\ syst'[g].pdfs = left(g)
                      /\ left(g) # None => left(g) = syst[g].pdfs /\ left(g) \notin gone
    OBVIOUS
  <2>1. syst[g] # None /\ syst'[g] = [syst[g] EXCEPT !.pdfs = left(g)]
    BY <1>1
  <2>2. syst[g] \in Systematic
    BY <1>2, <2>1
  <2>3. left(g) \in Ids \cup {None}
    BY <2>2 DEF Systematic
  <2>4. left(g) # None => left(g) = syst[g].pdfs /\ left(g) \notin gone
    OBVIOUS
  <2> HIDE DEF left
  <2>5. syst'[g] \in Systematic /\ syst'[g].pdfs = left(g)
    BY <2>1, <2>2, <2>3 DEF Systematic
  <2> QED  BY <2>1, <2>4, <2>5
<1> HIDE DEF left
<1>8. TypeOK'
  <2>1. main' \in [Fams -> Instance \cup {None}]
    BY <1>1, <1>2
  <2>2. obj' \in [Fams -> [Procs -> Process \cup {None}]]
    BY <1>1, <1>2, <1>3
  <2>3. par' \in [Fams -> [Pars -> Parameter \cup {None}]]
    BY <1>1, <1>2, <1>3
  <2>4. syst' \in [Fams -> Systematic \cup {None}]
    BY <1>1, <1>7
  <2>5. ws' \in [Ids -> Workspace \cup {None}]
    BY <1>1, <1>2
  <2>6. late' \subseteq Fams \X Pars
    BY <1>1, <1>2
  <2> QED  BY <1>1, <2>1, <2>2, <2>3, <2>4, <2>5, <2>6 DEF Inv, TypeOK
<1>9. LinksOwn'
  BY <1>5, <1>6, KeepsLinks DEF LinksOwn
<1>10. Apart'
  BY <1>5, <1>6 DEF Apart, Keeps, Inv
<1>11. ViewInv'
  <2> SUFFICES ASSUME view # None  PROVE ViewInv'
    BY <1>1 DEF ViewInv
  <2>1. /\ view.fam \in Live
        /\ \A n \in Names : view.store[n] = None \/ view.store[n] = main[view.fam].store[n]
        /\ view.procs \subseteq Present(view.fam) /\ view.params \subseteq Params(view.fam)
    BY DEF Inv, ViewInv
  <2>2. PICK h \in Live \ {f} : h = view.fam
    BY <1>1, <2>1
  <2>3. main'[h] = main[h] /\ Present(h)' = Present(h) /\ Params(h)' = Params(h)
    BY <1>6, KeepsLinks DEF Keeps
  <2> QED  BY <1>1, <1>5, <2>1, <2>2, <2>3 DEF ViewInv, Present, Params
<1>12. ParSet(ws)'
  BY <1>1 DEF Inv, ParSet
<1>13. SystAlive'
  <2> SUFFICES ASSUME NEW g \in Fams, syst'[g] # None, syst'[g].pdfs # None
               PROVE  ws'[syst'[g].pdfs] # None
    BY DEF SystAlive
  <2>1. syst[g] # None /\ syst'[g].pdfs = syst[g].pdfs /\ syst[g].pdfs \notin gone
    BY <1>7
  <2>2. syst[g] \in Systematic
    BY <1>2, <2>1
  <2>3. syst[g].pdfs \in Ids /\ ws[syst[g].pdfs] # None
    BY <2>1, <2>2 DEF Systematic, Inv, SystAlive
  <2> QED  BY <1>1, <2>1, <2>3
<1>14. TwinsMade
  BY <1>1, <1>5 DEF TwinsMade
<1>15. OthersStay
  <2> SUFFICES ASSUME NEW g \in Live, main'[g] # None  PROVE Observed(g)' = Observed(g)
    BY DEF OthersStay
  <2>1. g # f
    BY <1>1, <1>5
  <2> QED  BY <1>6, <2>1, KeepsLinks
<1>16. ASSUME SyncInv  PROVE SyncInv'
  <2> SUFFICES ASSUME NEW h \in Live \ {f}, NEW v \in Params(h)', <<h, v>> \notin late'
               PROVE  Agree(h, v)'
    BY <1>5 DEF SyncInv
  <2>1. <<h, v>> \notin late
    BY <1>1
  <2>2. v \in Params(h)
    BY <1>6, KeepsLinks
  <2> QED  BY <1>6, <1>16, <2>1, <2>2, KeepsLinks DEF SyncInv
<1> QED  BY <1>8, <1>9, <1>10, <1>11, <1>12, <1>13, <1>14, <1>15, <1>16 DEF Inv

-----------------------------------------------------------------------------
(* Every step.                                                             *)

\* A call that throws, and the copy and end of a view.
Quiet == UNCHANGED <<main, obj, syst, par, ws, late>>

LEMMA QuietStep ==
  ASSUME Inv, TypeOK', Quiet, ViewInv'
  PROVE  Inv' /\ TwinsMade /\ OthersStay /\ (SyncInv => SyncInv')
<1>1. main' = main /\ obj' = obj /\ syst' = syst /\ par' = par /\ ws' = ws /\ late' = late
  BY DEF Quiet
<1>2. Live' = Live /\ \A h \in Live : Keeps(h)
  BY <1>1 DEF Live, Keeps
<1>3. LinksOwn' /\ Apart'
  BY <1>1, <1>2, KeepsLinks DEF LinksOwn, Inv, Apart
<1>4. ParSet(ws)' /\ SystAlive'
  BY <1>1 DEF Inv, ParSet, SystAlive
<1>5. TwinsMade /\ OthersStay
  BY <1>1, <1>2, KeepsLinks DEF TwinsMade, OthersStay
<1>6. SyncInv => SyncInv'
  BY <1>1, <1>2, KeepsLinks DEF SyncInv
<1> QED  BY <1>3, <1>4, <1>5, <1>6 DEF Inv

LEMMA ThrowStep ==
  ASSUME Inv, calls' \in 0..MaxCalls, NEW how \in {"threw", "no deep copy"}, Throw(how)
  PROVE  Inv' /\ TwinsMade /\ OthersStay /\ (SyncInv => SyncInv')
<1>1. Quiet /\ view' = view /\ last' = how
  BY DEF Throw, Quiet
<1>2. TypeOK' /\ ViewInv'
  BY <1>1 DEF Inv, TypeOK, ViewInv, Quiet, Live, Present, Params
<1> QED  BY <1>1, <1>2, QuietStep

LEMMA CpStep ==
  ASSUME Inv, calls' \in 0..MaxCalls, NEW f \in Fams, Cp(f)
  PROVE  Inv' /\ TwinsMade /\ OthersStay /\ (SyncInv => SyncInv')
<1> DEFINE new == [fam |-> f, store |-> main[f].store, procs |-> Present(f), params |-> Params(f)]
<1>1. Quiet /\ f \in Live /\ view' = new /\ last' = "ok"
  BY DEF Cp, Quiet
<1>2. new \in View /\ new.fam = f /\ new.store = main[f].store
      /\ new.procs = Present(f) /\ new.params = Params(f)
  <2>1. main[f].store \in Store
    BY <1>1, LiveTypes DEF Inv
  <2> QED  BY <2>1 DEF View, Present, Params
<1> HIDE DEF new
<1>3. TypeOK'
  BY <1>1, <1>2 DEF Inv, TypeOK, Quiet
<1>4. Live' = Live /\ main' = main /\ Present(f)' = Present(f) /\ Params(f)' = Params(f)
  BY <1>1 DEF Quiet, Live, Present, Params
<1>5. ViewInv'
  BY <1>1, <1>2, <1>4 DEF ViewInv, Present, Params
<1> QED  BY <1>1, <1>3, <1>5, QuietStep

LEMMA DropViewStep ==
  ASSUME Inv, calls' \in 0..MaxCalls, DropView
  PROVE  Inv' /\ TwinsMade /\ OthersStay /\ (SyncInv => SyncInv')
<1>1. Quiet /\ view' = None /\ last' = "ok"
  BY DEF DropView, Quiet
<1>2. TypeOK' /\ ViewInv'
  BY <1>1 DEF Inv, TypeOK, ViewInv, Quiet
<1> QED  BY <1>1, <1>2, QuietStep

\* What deep() throws for.
LEMMA DeepThrows ==
  ASSUME Inv, NEW f \in Live, ~Resolves(f, main[f].store, Present(f), Params(f)),
         Throw("no deep copy")
  PROVE  DeepWorks'
<1>1. /\ \A p \in Present(f) : {Pdf(f, p), Norm(f, p)} \subseteq Wss(main[f].store) \cup {None}
      /\ \A v \in Params(f) : par[f][v].links \subseteq Wss(main[f].store)
  BY DEF Inv, LinksOwn
<1>2. PICK p \in Present(f) : \E i \in {Pdf(f, p), Norm(f, p)} :
        i \in Wss(main[f].store) /\ ws[i].src \in Unmapped
  BY <1>1 DEF Resolves
<1>3. PICK i \in Ids : i \in {Pdf(f, p), Norm(f, p)} /\ ws[i].src \in Unmapped
  BY <1>2, LiveTypes DEF Inv
<1>4. Live' = Live /\ ws' = ws /\ obj' = obj
  BY DEF Throw, Live
<1> QED  BY <1>3, <1>4 DEF DeepWorks, Present, Pdf, Norm

\* What every step preserves, and what it may not do.
Sound ==
  Inv' /\ TwinsMade /\ OthersStay /\ (SyncInv => SyncInv') /\ (DeepWorks => DeepWorks')

LEMMA Finished ==
  ASSUME last' # "no deep copy"  PROVE DeepWorks'
  BY DEF DeepWorks

\* Calls on one family.
LEMMA OwnStepSound ==
  ASSUME Inv, TypeOK', NEW f \in Fams, OwnStep(f), SyncInv => SyncStep(f),
         last' # "no deep copy"
  PROVE  Sound
<1>1. f \in Live
  BY DEF OwnStep
<1> QED  BY <1>1, OwnStepInv, OwnStepIndependent, OwnStepSync, Finished DEF Sound

LEMMA DeepSound ==
  ASSUME Inv, calls' \in 0..MaxCalls, NEW f \in Fams, Deep(f)
  PROVE  Sound
<1>1. f \in Live
  BY DEF Deep
<1>2. CASE ~Resolves(f, main[f].store, Present(f), Params(f)) /\ Throw("no deep copy")
  BY <1>1, <1>2, ThrowStep, DeepThrows DEF Sound
<1>3. CASE /\ Resolves(f, main[f].store, Present(f), Params(f))
           /\ \E g \in Fams \ Live : DeepCopy(f, g, main[f].store, Present(f), Params(f))
  <2>1. PICK g \in Fams \ Live : DeepCopy(f, g, main[f].store, Present(f), Params(f))
    BY <1>3
  <2>2. main[f].store \in Store
    BY <1>1, LiveTypes DEF Inv
  <2>3. Inv' /\ TwinsMade /\ OthersStay /\ (SyncInv => SyncInv')
    BY <1>1, <1>3, <2>1, <2>2, DeepCopyStep
  <2>4. last' = "ok"
    BY <2>1 DEF DeepCopy
  <2> QED  BY <2>3, <2>4, Finished DEF Sound
<1> QED  BY <1>2, <1>3 DEF Deep

LEMMA DeepOfViewSound ==
  ASSUME Inv, calls' \in 0..MaxCalls, DeepOfView
  PROVE  Sound
<1> DEFINE f == view.fam
           r == Resolves(f, view.store, view.procs, view.params)
<1>1. view # None /\ f \in Live /\ view \in View
      /\ (\A n \in Names : view.store[n] = None \/ view.store[n] = main[f].store[n])
      /\ view.procs \subseteq Present(f) /\ view.params \subseteq Params(f)
  BY DEF DeepOfView, Inv, ViewInv, TypeOK
<1>2. CASE ~r /\ Throw("threw")
  <2>1. last' = "threw"
    BY <1>2 DEF Throw
  <2> QED  BY <1>2, <2>1, ThrowStep, Finished DEF Sound
<1>3. CASE r /\ \E g \in Fams \ Live : DeepCopy(f, g, view.store, view.procs, view.params)
  <2>1. PICK g \in Fams \ Live : DeepCopy(f, g, view.store, view.procs, view.params)
    BY <1>3
  <2>2. view.store \in Store
    BY <1>1 DEF View
  <2>3. Inv' /\ TwinsMade /\ OthersStay /\ (SyncInv => SyncInv')
    BY <1>1, <1>3, <2>1, <2>2, DeepCopyStep
  <2>4. last' = "ok"
    BY <2>1 DEF DeepCopy
  <2> QED  BY <2>3, <2>4, Finished DEF Sound
<1> QED  BY <1>2, <1>3 DEF DeepOfView

LEMMA AddWorkspaceSound ==
  ASSUME Inv, calls' \in 0..MaxCalls, NEW f \in Fams, NEW s \in Sources, NEW b \in BOOLEAN,
         AddWorkspace(f, s, b)
  PROVE  Sound
<1>1. CASE last' = "threw"
  <2>1. Throw("threw")
    BY <1>1 DEF AddWorkspace
  <2> QED  BY <1>1, <2>1, ThrowStep, Finished DEF Sound
<1>2. CASE last' # "threw"
  <2>1. last' = "ok"
    BY <1>2 DEF AddWorkspace, Throw
  <2> QED  BY <1>2, <2>1, AddWorkspaceStep, OwnStepSound
<1> QED  BY <1>1, <1>2

LEMMA ExtractSound ==
  ASSUME Inv, calls' \in 0..MaxCalls, NEW f \in Fams, Extract(f)
  PROVE  Sound
<1>1. f \in Live
  BY DEF Extract
<1>2. PICK n \in Names :
        \/ ExtractPdfs(f, n, main[f].store, Present(f))
        \/ view # None /\ view.fam = f /\ ExtractPdfs(f, n, view.store, view.procs)
  BY DEF Extract
<1>3. CASE ExtractPdfs(f, n, main[f].store, Present(f))
  <2>1. last' = "ok"
    BY <1>3 DEF ExtractPdfs
  <2>2. TypeOK' /\ OwnStep(f) /\ (SyncInv => SyncStep(f))
    BY <1>1, <1>3, ExtractStep
  <2> QED  BY <2>1, <2>2, OwnStepSound
<1>4. CASE view # None /\ view.fam = f /\ ExtractPdfs(f, n, view.store, view.procs)
  <2>1. last' = "ok"
    BY <1>4 DEF ExtractPdfs
  <2>2. view.store[n] \in {None, main[f].store[n]} /\ view.procs \in SUBSET Present(f)
    BY <1>4 DEF Inv, ViewInv
  <2>3. TypeOK' /\ OwnStep(f) /\ (SyncInv => SyncStep(f))
    BY <1>1, <1>4, <2>2, ExtractStep
  <2> QED  BY <2>1, <2>3, OwnStepSound
<1> QED  BY <1>2, <1>3, <1>4

LEMMA EvaluateSound ==
  ASSUME Inv, calls' \in 0..MaxCalls, NEW f \in Fams, GetUncertainty(f)
  PROVE  Sound
<1>1. PICK V \in SUBSET Params(f) : Evaluate(f, V)
  BY DEF GetUncertainty, Inv, ViewInv
<1>2. f \in Live /\ last' = "ok"
  BY <1>1 DEF Evaluate
<1> QED  BY <1>1, <1>2, EvaluateStep, OwnStepSound

LEMMA NextSound ==
  ASSUME Inv, [Next]_vars
  PROVE  Inv' /\ [TwinsMade /\ OthersStay]_vars /\ (SyncInv => SyncInv')
         /\ (DeepWorks => DeepWorks')
<1>1. CASE UNCHANGED vars
  <2>1. Quiet /\ view' = view /\ last' = last /\ calls' = calls
    BY <1>1 DEF vars, Quiet
  <2>2. TypeOK' /\ ViewInv'
    BY <2>1 DEF Inv, TypeOK, ViewInv, Quiet, Live, Present, Params
  <2>3. DeepWorks => DeepWorks'
    BY <2>1 DEF DeepWorks, Quiet, Live, Present, Pdf, Norm
  <2> QED  BY <1>1, <2>1, <2>2, <2>3, QuietStep
<1>2. CASE Next
  <2>1. calls' \in 0..MaxCalls
    <3>1. calls \in 0..MaxCalls
      BY DEF Inv, TypeOK
    <3>2. calls' = calls \/ (calls < MaxCalls /\ calls' = calls + 1)
      BY <1>2 DEF Next
    <3> QED  BY <3>1, <3>2, BoundsAssumption
  <2>2. CASE Build
    <3>1. ASSUME NEW f \in Fams, NEW p \in Procs, AddProcess(f, p)  PROVE Sound
      <4>1. last' = "ok"
        BY <3>1 DEF AddProcess
      <4> QED  BY <2>1, <3>1, <4>1, AddProcessStep, OwnStepSound
    <3>2. ASSUME NEW f \in Fams, NEW s \in Sources, NEW b \in BOOLEAN, ParseCard(f, s, b)
          PROVE  Sound
      <4>1. last' = "ok"
        BY <3>2 DEF ParseCard
      <4> QED  BY <2>1, <3>2, <4>1, ParseCardStep, OwnStepSound
    <3>3. ASSUME NEW f \in Fams, Destroy(f)  PROVE Sound
      <4>1. last' = "ok"
        BY <3>3 DEF Destroy
      <4> QED  BY <2>1, <3>3, <4>1, DestroyStep, Finished DEF Sound
    <3>4. ASSUME DropView  PROVE Sound
      <4>1. last' = "ok"
        BY <3>4 DEF DropView
      <4> QED  BY <2>1, <3>4, <4>1, DropViewStep, Finished DEF Sound
    <3> QED  BY <2>1, <2>2, <3>1, <3>2, <3>3, <3>4, AddWorkspaceSound, ExtractSound,
                EvaluateSound, DeepSound, DeepOfViewSound DEF Build, Sound
  <2>3. CASE Change
    <3>1. ASSUME NEW f \in Fams, NEW v \in RatePars, NEW x \in Vals, RateParam(f, v, x)  PROVE Sound
      <4>1. last' = "ok"
        BY <3>1 DEF RateParam
      <4> QED  BY <2>1, <3>1, <4>1, RateParamStep, OwnStepSound
    <3>2. ASSUME NEW f \in Fams, NEW v \in Pars, NEW x \in Vals, SetVal(f, v, x)  PROVE Sound
      <4>1. last' = "ok"
        BY <3>2 DEF SetVal
      <4> QED  BY <2>1, <3>2, <4>1, SetValStep, OwnStepSound
    <3>3. ASSUME NEW f \in Fams, NEW v \in Pars, NEW x \in Vals, SetParInWs(f, v, x)  PROVE Sound
      <4>1. last' = "ok"
        BY <3>3 DEF SetParInWs
      <4> QED  BY <2>1, <3>3, <4>1, SetParInWsStep, OwnStepSound
    <3>4. ASSUME NEW f \in Fams, RenameSystematic(f, "renamed")  PROVE Sound
      <4>1. last' = "ok"
        BY <3>4 DEF RenameSystematic
      <4> QED  BY <2>1, <3>4, <4>1, RenameStep, OwnStepSound
    <3>5. ASSUME NEW f \in Fams, SetAutoMCStats(f)  PROVE Sound
      <4>1. last' = "ok"
        BY <3>5 DEF SetAutoMCStats
      <4> QED  BY <2>1, <3>5, <4>1, AutoStep, OwnStepSound
    <3>6. ASSUME NEW f \in Fams, Cp(f)  PROVE Sound
      <4>1. last' = "ok"
        BY <3>6 DEF Cp
      <4> QED  BY <2>1, <3>6, <4>1, CpStep, Finished DEF Sound
    <3>7. ASSUME NEW f \in Fams, NEW v \in Pars, NEW b \in BOOLEAN, SetFrozen(f, v, b)  PROVE Sound
      <4>1. last' = "ok"
        BY <3>7 DEF SetFrozen
      <4> QED  BY <2>1, <3>7, <4>1, SetFrozenStep, OwnStepSound
    <3> QED  BY <2>3, <3>1, <3>2, <3>3, <3>4, <3>5, <3>6, <3>7 DEF Change, Sound
  <2> QED  BY <1>2, <2>2, <2>3 DEF Next, Sound
<1> QED  BY <1>1, <1>2

LEMMA InitSound == Init => Inv /\ SyncInv /\ DeepWorks
<1> SUFFICES ASSUME Init  PROVE Inv /\ SyncInv /\ DeepWorks
  OBVIOUS
<1> DEFINE empty == [n \in Names |-> None]
           first == [store |-> empty, auto |-> FALSE]
<1>1. /\ main = [f \in Fams |-> IF f = Root THEN first ELSE None]
      /\ view = None /\ obj = [f \in Fams |-> [p \in Procs |-> None]]
      /\ syst = [f \in Fams |-> None] /\ par = [f \in Fams |-> [v \in Pars |-> None]]
      /\ ws = [i \in Ids |-> None] /\ late = {} /\ last = "ok" /\ calls = 0
  BY DEF Init
<1>2. empty \in Store /\ Wss(empty) = {}
  BY DEF Store, Wss
<1>3. first \in Instance /\ first.store = empty
  BY <1>2 DEF Instance
<1> HIDE DEF empty, first
<1>4. first # None
  BY <1>3, NoneAssumption
<1>5. Live = {Root}
  BY <1>1, <1>4, FamsAssumption DEF Live
<1>6. main[Root] = first /\ Present(Root) = {} /\ Params(Root) = {}
  BY <1>1, FamsAssumption DEF Present, Params
<1>7. TypeOK
  BY <1>1, <1>3, BoundsAssumption DEF TypeOK
<1>8. LinksOwn
  BY <1>2, <1>3, <1>5, <1>6 DEF LinksOwn, empty
<1>9. Apart /\ ViewInv /\ ParSet(ws) /\ SystAlive /\ SyncInv /\ DeepWorks
  BY <1>1, <1>5, <1>6 DEF Apart, ViewInv, ParSet, SystAlive, SyncInv, DeepWorks
<1> QED  BY <1>7, <1>8, <1>9 DEF Inv

-----------------------------------------------------------------------------
(* The theorems.                                                           *)

LEMMA Invariance == Spec => []Inv
<1>1. Init => Inv
  BY InitSound
<1>2. Inv /\ [Next]_vars => Inv'
  BY NextSound
<1> QED  BY <1>1, <1>2, PTL DEF Spec

\* Families, workspaces, pointers and views keep their types.
THEOREM WorkspaceTypes == Spec => []TypeOK
<1>1. Inv => TypeOK
  BY DEF Inv
<1> QED  BY <1>1, Invariance, PTL

\* What processes and parameters of an instance point to is in a workspace of
\* its own under one name, whatever was set up, recycled, renamed, extracted
\* through older views, copied and destroyed (SetupWorkspace, deep).
THEOREM PointersStayOwn == Spec => []LinksOwn
<1>1. Inv => LinksOwn
  BY DEF Inv
<1> QED  BY <1>1, Invariance, PTL

\* A deep copy is a twin when it is made, and no call on one family, its views
\* or its end shows in the rates and parameters of another (deep).
THEOREM DeepCopiesApart == Spec => DeepIndependent
<1>1. Inv /\ [Next]_vars => [TwinsMade /\ OthersStay]_vars
  BY NextSound
<1>2. Spec => [][TwinsMade /\ OthersStay]_vars
  BY <1>1, Invariance, PTL DEF Spec
<1> QED  BY <1>2, PTL DEF DeepIndependent, TwinsMade, OthersStay

\* deep() of an instance throws only for pdfs or normalisations that are no
\* pdfs and functions of their workspace.
THEOREM DeepCopiesWork == Spec => []DeepWorks
<1>1. Init => DeepWorks
  BY InitSound
<1>2. Inv /\ DeepWorks /\ [Next]_vars => DeepWorks'
  BY NextSound
<1> QED  BY <1>1, <1>2, Invariance, PTL DEF Spec

\* The variables of a parameter have its value, in all workspaces of a family,
\* but those linked late or set alone (ImportParameters, set_val, deep).
THEOREM ParametersDriveAll == Spec => Synced
<1>1. Init => SyncInv
  BY InitSound
<1>2. Inv /\ SyncInv /\ [Next]_vars => SyncInv'
  BY NextSound
<1>3. Spec => []SyncInv
  BY <1>1, <1>2, Invariance, PTL DEF Spec
<1>4. SyncInv' => \A f \in Live' : \A v \in Params(f)' : <<f, v>> \notin late' => Agree(f, v)'
  BY DEF SyncInv
<1> QED  BY <1>3, <1>4, PTL DEF Synced
=============================================================================
