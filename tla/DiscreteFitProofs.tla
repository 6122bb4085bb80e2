--------------------------- MODULE DiscreteFitProofs ---------------------------
(***************************************************************************)
(* What DiscreteFit keeps, for every likelihood, every choice of pdfs and  *)
(* every combination of options: parameters that a call finds constant     *)
(* stay where they are, what a call freezes and masks is floating and      *)
(* visible again when it returns, and what it returns when its fits        *)
(* succeed is a minimum that no other index beats.                         *)
(***************************************************************************)
EXTENDS DiscreteFit, FiniteSetTheorems, WellFoundedInduction, TLAPS

-----------------------------------------------------------------------------
(* The invariant.                                                          *)

\* Locals have a value where they are used, and the fits are counted.
Locals ==
  /\ loop = [mode |-> loop.mode, from |-> loop.from, todo |-> loop.todo, fits |-> loop.fits,
             clean |-> loop.clean, best |-> loop.best, frozen |-> loop.frozen, allowed |-> loop.allowed]
  /\ start.x \in [Pars -> Vals] /\ start.const \subseteq Pars
  /\ pc \in {"multi", "combo"} =>
       DOMAIN loop.clean \subseteq Pars /\ \A p \in DOMAIN loop.clean : loop.clean[p] \in Vals
  /\ pc = "combo" =>
       /\ loop.from \in Indexings
       /\ loop.best = [x |-> loop.best.x, idx |-> loop.best.idx]
       /\ loop.best.x \in [Pars -> Vals] /\ loop.best.idx \in Indexings
  /\ pc \notin {"idle", "last", "end"} => iterations < MaxIterations

Typed == TypeOK /\ Locals

\* A call holds no parameter of a pdf: where it does, ConstantsKept is not true.
FixedApart == \A F \in Fixed : F \cap MultiPars = {}

\* What a call holds constant is constant all the way, nothing that a call
\* freezes is among it, and every point that is kept agrees on it.
Holding ==
  /\ start.const \cap MultiPars = {}
  /\ pc \notin {"multi", "combo", "full"} \/ ~opt.short => loop.frozen = {}
  /\ pc \in {"iterate", "full"} => opt.short
  /\ pc # "idle" =>
       /\ start.const \subseteq const /\ loop.frozen \cap start.const = {}
       /\ \A p \in start.const : x[p] = start.x[p]
       /\ pc \in {"multi", "combo"} =>
            \A p \in start.const \cap DOMAIN loop.clean : loop.clean[p] = start.x[p]
       /\ pc = "combo" => \A p \in start.const : loop.best.x[p] = start.x[p]

HeldInv == Typed /\ Holding

\* What is masked depends on nothing that floats: only one fit after the other
\* freezes the parameters of no pdf, constraints are on none of the others, a
\* channel without a category shares no parameter with a pdf, and channels that
\* are masked in turn share none with each other.
Maskable ==
  \A o \in Options : o.disassociate /\ (o.channels # 0 \/ (o.hide /\ o.constraints)) =>
    /\ o.short
    /\ o.hide /\ o.constraints => Constrained \cap MultiPars = {}
    /\ o.channels # 0 => \A h \in Channels : ChanCats[h] = {} => ParsOf(h) \cap MultiPars = {}
    /\ o.channels = 2 => \A g, h \in Channels :
         ParsOf(g) \cap ParsOf(h) \cap MultiPars # {} => ChanCats[g] = ChanCats[h]

\* What a mask hides.
Hidden(y, k, mk) ==
  SumFunctionOnSet([h \in Channels |-> Term(model, h, y, k)], Channels \cap mk.channels)
    + IF mk.constraints THEN Penalty(model, y) ELSE 0

Extra == IF opt.disassociate THEN MultiPars ELSE {}

\* What a call has frozen is what it will set floating, and the offset is what
\* the masks hide.
Layers ==
  /\ const \ (start.const \cup loop.frozen) \subseteq Extra
  /\ pc = "idle" => const = start.const
  /\ pc # "combo" => mask = NoMask /\ offset = 0
  /\ pc \in {"multi", "combo"} /\ opt.short =>
       Pars \ MultiPars \subseteq const /\ DOMAIN loop.clean \subseteq MultiPars
  /\ pc = "combo" =>
       /\ MaskChannels = 0 => ~mask.on /\ mask.channels = {}
       /\ mask.channels \subseteq NonDiscrete({})
       /\ mask.constraints => Hides /\ opt.constraints
       /\ offset = Hidden(x, idx, mask)
       /\ opt.short => \A p \in Pars \ MultiPars : loop.best.x[p] = x[p]

LeftInv == HeldInv /\ Layers

-----------------------------------------------------------------------------
(* Sums over finite sets.                                                  *)

Pick(S) == CHOOSE e \in S : TRUE
Unrolled(f, v, S) == IF S = {} THEN 0 ELSE f[Pick(S)] + v[S \ {Pick(S)}]
IsIter(g, f, S) == g = [s \in SUBSET S |-> Unrolled(f, g, s)]

LEMMA SmallestSubset ==
  ASSUME NEW S, IsFiniteSet(S), NEW B \in SUBSET SUBSET S, B # {}
  PROVE  \E s \in B : \A u \in B : u \subseteq s => u = s
<1>1. IsWellFoundedOn(StrictSubsetOrdering(S), SUBSET S)
  BY FS_StrictSubsetOrderingWellFounded, FS_FiniteSubsetsOfFinite
<1>2. PICK s \in B : \A u \in B : ~(<<u, s>> \in StrictSubsetOrdering(S))
  BY <1>1, WFMin, Zenon
<1>3. \A u \in B : u \subseteq s => u = s
  BY <1>2 DEF StrictSubsetOrdering
<1> QED  BY <1>3

LEMMA PickIn ==
  ASSUME NEW S, S # {}
  PROVE  Pick(S) \in S
  BY DEF Pick

LEMMA SumDef ==
  ASSUME NEW f, NEW S
  PROVE  SumFunctionOnSet(f, S) = (CHOOSE g : IsIter(g, f, S))[S]
  BY DEF SumFunctionOnSet, FoldFunctionOnSet, MapThenFoldSet, IsIter, Pick, Unrolled

LEMMA IterUnique ==
  ASSUME NEW f, NEW S, IsFiniteSet(S), NEW g, NEW h, IsIter(g, f, S), IsIter(h, f, S)
  PROVE  g = h
<1> DEFINE B == {s \in SUBSET S : g[s] # h[s]}
<1>1. \A s \in SUBSET S : g[s] = Unrolled(f, g, s) /\ h[s] = Unrolled(f, h, s)
  BY DEF IsIter
<1>2. B = {}
  <2>1. SUFFICES ASSUME B # {} PROVE FALSE
    OBVIOUS
  <2>2. PICK s \in B : \A u \in B : u \subseteq s => u = s
    <3>1. B \in SUBSET SUBSET S
      OBVIOUS
    <3> HIDE DEF B
    <3> QED  BY <2>1, <3>1, SmallestSubset
  <2>3. s # {}
    BY <1>1 DEF Unrolled
  <2>4. s \ {Pick(s)} \notin B
    BY <2>2, <2>3, PickIn
  <2>5. g[s \ {Pick(s)}] = h[s \ {Pick(s)}]
    BY <2>4
  <2> QED  BY <1>1, <2>3, <2>5 DEF Unrolled
<1> QED
  <2>1. \A s \in SUBSET S : g[s] = h[s]
    BY <1>2
  <2> QED  BY <2>1 DEF IsIter

LEMMA SumUnrolled ==
  ASSUME NEW f, NEW S, IsFiniteSet(S), S # {}
  PROVE  SumFunctionOnSet(f, S) = f[Pick(S)] + SumFunctionOnSet(f, S \ {Pick(S)})
<1> DEFINE V == [s \in SUBSET S |-> SumFunctionOnSet(f, s)]
           B == {s \in SUBSET S : V[s] # Unrolled(f, V, s)}
<1>1. B = {}
  <2>1. SUFFICES ASSUME B # {} PROVE FALSE
    OBVIOUS
  <2>2. PICK s \in B : \A u \in B : u \subseteq s => u = s
    <3>1. B \in SUBSET SUBSET S
      OBVIOUS
    <3> HIDE DEF B
    <3> QED  BY <2>1, <3>1, SmallestSubset
  <2> DEFINE h == [u \in SUBSET s |-> Unrolled(f, V, u)]
  <2>3. \A u \in SUBSET s : u # s => V[u] = Unrolled(f, V, u)
    BY <2>2
  <2>4. \A u \in SUBSET s : u # {} => u \ {Pick(u)} \in SUBSET s /\ u \ {Pick(u)} # s
    BY PickIn
  <2>5. \A u \in SUBSET s : u # {} => h[u \ {Pick(u)}] = V[u \ {Pick(u)}]
    BY <2>3, <2>4
  <2>6. \A u \in SUBSET s : Unrolled(f, V, u) = Unrolled(f, h, u)
    BY <2>5 DEF Unrolled
  <2>7. IsIter(h, f, s)
    BY <2>6, Zenon DEF IsIter
  <2>8. IsFiniteSet(s)
    BY FS_Subset
  <2>9. (CHOOSE g : IsIter(g, f, s)) = h
    BY <2>7, <2>8, IterUnique
  <2>10. V[s] = h[s]
    BY <2>9, SumDef
  <2> QED  BY <2>2, <2>10
<1>2. V[S] = Unrolled(f, V, S)
  BY <1>1
<1> QED  BY <1>2 DEF Unrolled

LEMMA SumEmpty ==
  ASSUME NEW f
  PROVE  SumFunctionOnSet(f, {}) = 0
<1> DEFINE h == [u \in {{}} |-> 0]
<1>1. IsIter(h, f, {})
  BY DEF IsIter, Unrolled
<1>2. IsFiniteSet({})
  BY FS_EmptySet
<1>3. (CHOOSE g : IsIter(g, f, {})) = h
  BY <1>1, <1>2, IterUnique
<1> QED  BY <1>3, SumDef

\* A sum of integers is an integer.
LEMMA SumInt ==
  ASSUME NEW f, NEW S, IsFiniteSet(S), \A s \in S : f[s] \in Int
  PROVE  SumFunctionOnSet(f, S) \in Int
<1> DEFINE B == {T \in SUBSET S : SumFunctionOnSet(f, T) \notin Int}
<1>1. SUFFICES ASSUME B # {} PROVE FALSE
  OBVIOUS
<1>2. PICK T \in B : \A u \in B : u \subseteq T => u = T
  <2>1. B \in SUBSET SUBSET S
    OBVIOUS
  <2> HIDE DEF B
  <2> QED  BY <1>1, <2>1, SmallestSubset
<1>3. T # {}
  BY SumEmpty
<1>4. SumFunctionOnSet(f, T \ {Pick(T)}) \in Int
  BY <1>2, <1>3, PickIn
<1>5. SumFunctionOnSet(f, T) = f[Pick(T)] + SumFunctionOnSet(f, T \ {Pick(T)})
  BY <1>3, SumUnrolled, FS_Subset
<1>6. f[Pick(T)] \in Int
  BY <1>3, PickIn
<1> QED  BY <1>4, <1>5, <1>6

\* Any element can be taken out of a sum.
LEMMA SumTake ==
  ASSUME NEW f, NEW S, IsFiniteSet(S), \A s \in S : f[s] \in Int, NEW e \in S
  PROVE  SumFunctionOnSet(f, S) = f[e] + SumFunctionOnSet(f, S \ {e})
<1> DEFINE Wrong(T, d) == SumFunctionOnSet(f, T) # f[d] + SumFunctionOnSet(f, T \ {d})
           B == {T \in SUBSET S : \E d \in T : Wrong(T, d)}
<1>1. SUFFICES ASSUME B # {} PROVE FALSE
  OBVIOUS
<1>2. PICK T \in B : \A u \in B : u \subseteq T => u = T
  <2>1. B \in SUBSET SUBSET S
    OBVIOUS
  <2> HIDE DEF B
  <2> QED  BY <1>1, <2>1, SmallestSubset
<1>3. PICK d \in T : Wrong(T, d)
  BY <1>2
<1> DEFINE p == Pick(T)
<1>4. p \in T /\ T # {} /\ SumFunctionOnSet(f, T) = f[p] + SumFunctionOnSet(f, T \ {p})
  BY <1>3, PickIn, SumUnrolled, FS_Subset
<1>5. p # d
  BY <1>3, <1>4
<1>6. SumFunctionOnSet(f, T \ {p}) = f[d] + SumFunctionOnSet(f, (T \ {p}) \ {d})
  <2>1. T \ {p} \notin B
    BY <1>2, <1>4
  <2> QED  BY <2>1, <1>3, <1>5
<1>7. SumFunctionOnSet(f, T \ {d}) = f[p] + SumFunctionOnSet(f, (T \ {d}) \ {p})
  <2>1. T \ {d} \notin B
    BY <1>2, <1>3
  <2> QED  BY <2>1, <1>4, <1>5
<1>8. (T \ {p}) \ {d} = (T \ {d}) \ {p}
  OBVIOUS
<1>9. SumFunctionOnSet(f, (T \ {p}) \ {d}) \in Int
  <2>1. (T \ {p}) \ {d} \in SUBSET S /\ IsFiniteSet((T \ {p}) \ {d})
    BY FS_Subset
  <2> QED  BY <2>1, SumInt
<1>10. f[p] \in Int /\ f[d] \in Int
  BY <1>3, <1>4
<1>11. SumFunctionOnSet(f, T \ {d}) = f[p] + SumFunctionOnSet(f, (T \ {p}) \ {d})
  BY <1>7, <1>8, Zenon
<1> QED  BY <1>3, <1>4, <1>6, <1>9, <1>10, <1>11

\* The sum depends on the values only.
LEMMA SumEqual ==
  ASSUME NEW f, NEW g, NEW S, IsFiniteSet(S), \A s \in S : f[s] = g[s]
  PROVE  SumFunctionOnSet(f, S) = SumFunctionOnSet(g, S)
<1> DEFINE B == {T \in SUBSET S : SumFunctionOnSet(f, T) # SumFunctionOnSet(g, T)}
<1>1. SUFFICES ASSUME B # {} PROVE FALSE
  OBVIOUS
<1>2. PICK T \in B : \A u \in B : u \subseteq T => u = T
  <2>1. B \in SUBSET SUBSET S
    OBVIOUS
  <2> HIDE DEF B
  <2> QED  BY <1>1, <2>1, SmallestSubset
<1>3. T # {} /\ Pick(T) \in T
  BY <1>2, SumEmpty, PickIn
<1>4. SumFunctionOnSet(f, T \ {Pick(T)}) = SumFunctionOnSet(g, T \ {Pick(T)})
  BY <1>2, <1>3
<1>5. /\ SumFunctionOnSet(f, T) = f[Pick(T)] + SumFunctionOnSet(f, T \ {Pick(T)})
      /\ SumFunctionOnSet(g, T) = g[Pick(T)] + SumFunctionOnSet(g, T \ {Pick(T)})
  BY <1>3, SumUnrolled, FS_Subset
<1> QED  BY <1>2, <1>3, <1>4, <1>5

\* A sum over the whole is the sum over two parts.
LEMMA SumParts ==
  ASSUME NEW f, NEW S, IsFiniteSet(S), \A s \in S : f[s] \in Int, NEW M
  PROVE  SumFunctionOnSet(f, S) = SumFunctionOnSet(f, S \ M) + SumFunctionOnSet(f, S \cap M)
<1> DEFINE B == {T \in SUBSET S : SumFunctionOnSet(f, T) # SumFunctionOnSet(f, T \ M) + SumFunctionOnSet(f, T \cap M)}
<1>1. SUFFICES ASSUME B # {} PROVE FALSE
  OBVIOUS
<1>2. PICK T \in B : \A u \in B : u \subseteq T => u = T
  <2>1. B \in SUBSET SUBSET S
    OBVIOUS
  <2> HIDE DEF B
  <2> QED  BY <1>1, <2>1, SmallestSubset
<1>3. T # {}
  <2>1. {} \ M = {} /\ {} \cap M = {}
    OBVIOUS
  <2>2. SumFunctionOnSet(f, {}) = 0 /\ SumFunctionOnSet(f, {} \ M) = 0 /\ SumFunctionOnSet(f, {} \cap M) = 0
    BY <2>1, SumEmpty, Zenon
  <2>3. SumFunctionOnSet(f, {}) = SumFunctionOnSet(f, {} \ M) + SumFunctionOnSet(f, {} \cap M)
    BY <2>2
  <2> QED  BY <1>2, <2>3
<1>4. PICK e \in T : TRUE
  BY <1>3
<1> DEFINE U == T \ {e}
<1>5. SumFunctionOnSet(f, U) = SumFunctionOnSet(f, U \ M) + SumFunctionOnSet(f, U \cap M)
  BY <1>2
<1>6. SumFunctionOnSet(f, T) = f[e] + SumFunctionOnSet(f, U)
  BY SumTake, FS_Subset
<1>7. \A V \in SUBSET S : IsFiniteSet(V) /\ SumFunctionOnSet(f, V) \in Int
  BY FS_Subset, SumInt
<1>8. U \ M \in SUBSET S /\ U \cap M \in SUBSET S /\ T \ M \in SUBSET S /\ T \cap M \in SUBSET S
  OBVIOUS
<1>11. f[e] \in Int /\ SumFunctionOnSet(f, U \ M) \in Int /\ SumFunctionOnSet(f, U \cap M) \in Int
  BY <1>7, <1>8
<1>9. CASE e \in M
  <2>1. U \ M = T \ M /\ (T \cap M) \ {e} = U \cap M /\ e \in T \cap M
    BY <1>9
  <2>2. SumFunctionOnSet(f, T \cap M) = f[e] + SumFunctionOnSet(f, (T \cap M) \ {e})
    BY <1>7, <1>8, <2>1, SumTake
  <2>3. SumFunctionOnSet(f, T \cap M) = f[e] + SumFunctionOnSet(f, U \cap M) /\ SumFunctionOnSet(f, U \ M) = SumFunctionOnSet(f, T \ M)
    BY <2>1, <2>2, Zenon
  <2> QED  BY <1>2, <1>5, <1>6, <1>11, <2>3
<1>10. CASE e \notin M
  <2>1. U \cap M = T \cap M /\ (T \ M) \ {e} = U \ M /\ e \in T \ M
    BY <1>10
  <2>2. SumFunctionOnSet(f, T \ M) = f[e] + SumFunctionOnSet(f, (T \ M) \ {e})
    BY <1>7, <1>8, <2>1, SumTake
  <2>3. SumFunctionOnSet(f, T \ M) = f[e] + SumFunctionOnSet(f, U \ M) /\ SumFunctionOnSet(f, U \cap M) = SumFunctionOnSet(f, T \cap M)
    BY <2>1, <2>2, Zenon
  <2> QED  BY <1>2, <1>5, <1>6, <1>11, <2>3
<1> QED  BY <1>9, <1>10

-----------------------------------------------------------------------------
(* Indices and combinations.                                               *)

LEMMA IndexingsFinite == IsFiniteSet(Indexings)
<1>1. IsFiniteSet(Cats)
  BY CatsAssumption, FS_Interval DEF Cats
<1>2. IsFiniteSet(AllIndices)
  <2> DEFINE f == [c \in Cats |-> Indices(c)]
             S == {Indices(c) : c \in Cats}
  <2>1. f \in Surjection(Cats, S)
    BY DEF Surjection
  <2>2. IsFiniteSet(S)
    BY <1>1, <2>1, FS_Surjection
  <2>3. \A T \in S : IsFiniteSet(T)
    <3>1. ASSUME NEW c \in Cats PROVE IsFiniteSet(Indices(c))
      <4>1. NPdf[c] - 1 \in Int
        BY CatsAssumption
      <4> QED  BY <4>1, FS_Interval DEF Indices
    <3> QED  BY <3>1
  <2> HIDE DEF S
  <2>4. IsFiniteSet(UNION S)
    BY <2>2, <2>3, FS_UNION
  <2> QED  BY <2>4 DEF AllIndices, S
<1> DEFINE P == Cats \X AllIndices
           graph == [k \in Indexings |-> {<<c, k[c]>> : c \in Cats}]
<1>3. IsFiniteSet(SUBSET P)
  BY <1>1, <1>2, FS_Product, FS_SUBSET
<1>4. graph \in Injection(Indexings, SUBSET P)
  <2>1. graph \in [Indexings -> SUBSET P]
    BY DEF Indexings
  <2>2. ASSUME NEW j \in Indexings, NEW k \in Indexings, graph[j] = graph[k] PROVE j = k
    <3>1. ASSUME NEW c \in Cats PROVE j[c] = k[c]
      <4>1. <<c, j[c]>> \in graph[k]
        BY <2>2
      <4>2. PICK d \in Cats : <<c, j[c]>> = <<d, k[d]>>
        BY <4>1
      <4> QED  BY <4>2
    <3> QED  BY <3>1 DEF Indexings
  <2> HIDE DEF P, graph
  <2> QED  BY <2>1, <2>2 DEF Injection, IsInjective
<1> HIDE DEF P, graph
<1> QED  BY <1>3, <1>4, FS_Injection

LEMMA BeforeOrders ==
  ASSUME NEW i \in Indexings, NEW j \in Indexings, NEW k \in Indexings
  PROVE  /\ ~Before(i, i)
         /\ Before(i, j) /\ Before(j, k) => Before(i, k)
<1>1. \A l \in Indexings : \A c \in Cats : l[c] \in Int
  BY CatsAssumption DEF Indexings, Indices
<1>2. Cats \subseteq Int
  BY CatsAssumption DEF Cats
<1>3. ASSUME Before(i, j), Before(j, k) PROVE Before(i, k)
  <2>1. PICK c \in Cats : i[c] < j[c] /\ \A d \in Cats : d > c => i[d] = j[d]
    BY <1>3 DEF Before
  <2>2. PICK e \in Cats : j[e] < k[e] /\ \A d \in Cats : d > e => j[d] = k[d]
    BY <1>3 DEF Before
  <2>3. CASE c > e
    <3>1. i[c] < k[c] /\ \A d \in Cats : d > c => i[d] = k[d]
      BY <1>1, <1>2, <2>1, <2>2, <2>3
    <3> QED  BY <3>1 DEF Before
  <2>4. CASE ~(c > e)
    <3>1. i[e] < k[e] /\ \A d \in Cats : d > e => i[d] = k[d]
      BY <1>1, <1>2, <2>1, <2>2, <2>4
    <3> QED  BY <3>1 DEF Before
  <2> QED  BY <2>3, <2>4
<1> QED  BY <1>1, <1>3 DEF Before

\* There is a first combination.
LEMMA FirstOfIn ==
  ASSUME NEW S \in SUBSET Indexings, S # {}
  PROVE  FirstOf(S) \in S /\ \A j \in S : ~Before(j, FirstOf(S))
<1> DEFINE NoFirst(T) == \A k \in T : \E j \in T : Before(j, k)
           B == {T \in SUBSET S : T # {} /\ NoFirst(T)}
<1>1. SUFFICES B = {}
  <2>1. SUFFICES ASSUME B = {} PROVE FirstOf(S) \in S /\ \A j \in S : ~Before(j, FirstOf(S))
    BY <1>1
  <2>2. \E k \in S : \A j \in S : ~Before(j, k)
    BY <2>1
  <2> QED  BY <2>2 DEF FirstOf
<1>2. SUFFICES ASSUME B # {} PROVE FALSE
  OBVIOUS
<1>3. PICK T \in B : \A u \in B : u \subseteq T => u = T
  <2>1. B \in SUBSET SUBSET S /\ IsFiniteSet(S)
    BY IndexingsFinite, FS_Subset
  <2> HIDE DEF B
  <2> QED  BY <1>2, <2>1, SmallestSubset
<1>4. PICK k \in T : TRUE
  BY <1>3
<1> DEFINE U == T \ {k}
<1>5. PICK j \in U : Before(j, k)
  BY <1>3, <1>4, BeforeOrders
<1>6. PICK m \in U : \A i \in U : ~Before(i, m)
  <2>1. U \notin B /\ U \in SUBSET S /\ U # {}
    BY <1>3, <1>4, <1>5
  <2>2. ~NoFirst(U)
    BY <2>1
  <2> QED  BY <2>2
<1>7. PICK i \in T : Before(i, m)
  BY <1>3, <1>6
<1>8. i = k
  BY <1>6, <1>7
<1>9. Before(j, m)
  BY <1>5, <1>7, <1>8, BeforeOrders
<1> QED  BY <1>5, <1>6, <1>9

\* Reordering gives indices of pdfs, whatever it starts from.
LEMMA ReorderedType ==
  ASSUME NEW k \in Indexings, NEW from \in Indexings
  PROVE  Reordered(k, from) \in Indexings
<1>1. ASSUME NEW c \in Cats PROVE (k[c] + from[c]) % NPdf[c] \in Indices(c)
  <2>1. k[c] \in Int /\ from[c] \in Int /\ NPdf[c] \in Nat \ {0}
    BY CatsAssumption DEF Indexings, Indices
  <2> QED  BY <2>1 DEF Indices
<1>2. \A c \in Cats : Indices(c) \subseteq AllIndices
  BY DEF AllIndices
<1> QED  BY <1>1, <1>2 DEF Reordered, Indexings

LEMMA PresentType == Present \in Indexings
  BY CatsAssumption DEF Present, Indexings, AllIndices, Indices

-----------------------------------------------------------------------------
(* The likelihood and the fits.                                            *)

Terms(y, k) == [h \in Channels |-> Term(model, h, y, k)]

LEMMA TermsInt ==
  ASSUME model \in Models, NEW y \in [Pars -> Vals], NEW k \in Indexings
  PROVE  \A h \in Channels : Terms(y, k)[h] \in Int
  BY LikelihoodAssumption DEF Terms

LEMMA NLLInt ==
  ASSUME model \in Models, NEW y \in [Pars -> Vals], NEW k \in Indexings, NEW mk
  PROVE  NLL(y, k, mk) \in Int
<1>1. Channels \ mk.channels \in SUBSET Channels
  OBVIOUS
<1>2. SumFunctionOnSet(Terms(y, k), Channels \ mk.channels) \in Int
  BY <1>1, TermsInt, SumInt, ChannelsAssumption, FS_Subset
<1>3. Penalty(model, y) \in Int
  BY LikelihoodAssumption
<1> QED  BY <1>2, <1>3 DEF NLL, Terms

\* What a fit leaves alone.
LEMMA FitsEnd ==
  ASSUME Typed, NEW y \in [Pars -> Vals], NEW k, NEW mk, NEW F, NEW f \in Fits(y, k, mk, F)
  PROVE  /\ f.x \in [Pars -> Vals] /\ \A p \in Pars \ F : f.x[p] = y[p]
         /\ f.failed \in {0, 1} /\ failures + f.failed \in 0..MaxFailures
<1>1. failures \in 0..MaxFailures /\ MaxFailures \in Nat
  BY BoundsAssumption DEF Typed, TypeOK
<1>2. f.x \in Ends(y, F) /\ (f.failed = 0 \/ (f.failed = 1 /\ failures < MaxFailures))
  BY DEF Fits
<1> QED  BY <1>1, <1>2 DEF Ends

LEMMA FrozenTypes ==
  ASSUME NEW cst \in SUBSET Pars, NEW k
  PROVE  Freeze(cst, k) \in SUBSET Pars /\ Float(cst, k) \in SUBSET Pars
<1>1. MultiPars \subseteq Pars
  BY CatsAssumption DEF MultiPars
<1> QED  BY <1>1 DEF Freeze, Float, Disassociated

LEMMA ListedType ==
  ASSUME NEW mk
  PROVE  Listed(mk) \subseteq Pars
<1>1. \A h \in Channels : ParsOf(h) \subseteq Pars
  BY CatsAssumption, ChannelsAssumption DEF ParsOf
<1> QED  BY <1>1 DEF Listed

LEMMA ImprovedEnds ==
  ASSUME Typed, NEW y \in [Pars -> Vals], NEW k, NEW cst \in SUBSET Pars, NEW mk,
         NEW force, NEW r \in Improved(y, k, cst, mk, force)
  PROVE  /\ r.x \in [Pars -> Vals] /\ \A p \in Freeze(cst, k) \cap Pars : r.x[p] = y[p]
         /\ r.const = Float(Freeze(cst, k), k) /\ r.const \in SUBSET Pars
         /\ r.list \in SUBSET Pars
         /\ r.failed \in {0, 1} /\ failures + r.failed \in 0..MaxFailures
<1> DEFINE known == IF force \/ list = {} THEN Listed(mk) ELSE list
           frozen == Freeze(cst, k)
<1>1. PICK f \in Fits(y, k, mk, known \ frozen) :
        r = [x |-> f.x, failed |-> f.failed, const |-> Float(frozen, k), list |-> known]
  BY DEF Improved
<1>2. r.x = f.x /\ r.failed = f.failed /\ r.const = Float(frozen, k) /\ r.list = known
  BY <1>1
<1>3. frozen \in SUBSET Pars /\ Float(frozen, k) \in SUBSET Pars
  BY FrozenTypes
<1>4. /\ f.x \in [Pars -> Vals] /\ \A p \in Pars \ (known \ frozen) : f.x[p] = y[p]
      /\ f.failed \in {0, 1} /\ failures + f.failed \in 0..MaxFailures
  BY FitsEnd
<1>5. known \in SUBSET Pars
  BY ListedType DEF Typed, TypeOK
<1> HIDE DEF frozen
<1> QED  BY <1>2, <1>3, <1>4, <1>5 DEF frozen

-----------------------------------------------------------------------------
(* Types.                                                                  *)

LEMMA ShownInt ==
  ASSUME Typed, NEW y \in [Pars -> Vals], NEW k \in Indexings, NEW mk, NEW o \in Int
  PROVE  Shown(y, k, mk, o) \in Int
<1>1. NLL(y, k, mk) \in Int
  BY NLLInt DEF Typed, TypeOK
<1> QED  BY <1>1 DEF Shown

LEMMA MaskedOffsetInt ==
  ASSUME Typed, NEW y \in [Pars -> Vals], NEW k \in Indexings, NEW o \in Int, NEW old, NEW new
  PROVE  MaskedOffset(o, y, k, old, new) \in Int
<1>1. NLL(y, k, old) \in Int /\ NLL(y, k, new) \in Int
  BY NLLInt DEF Typed, TypeOK
<1> QED  BY <1>1 DEF MaskedOffset

Masks == [on : BOOLEAN, channels : SUBSET Channels, constraints : BOOLEAN]

LEMMA MasksType ==
  /\ NoMask \in Masks
  /\ \A mk \in Masks : \A cst :
       /\ WithChannels(mk, cst) \in Masks /\ WithoutChannels(mk) \in Masks
       /\ \A b \in BOOLEAN : [mk EXCEPT !.constraints = b] \in Masks
  BY DEF Masks, NoMask, WithChannels, WithoutChannels, NonDiscrete

LEMMA OptionTypes ==
  ASSUME TypeOK
  PROVE  /\ {opt.short, opt.disassociate, opt.hide, opt.constraints, opt.analytic, opt.prefit} \subseteq BOOLEAN
         /\ opt.channels \in 0..2 /\ MaskChannels \in 0..2 /\ Hides \in BOOLEAN
  BY OptionsAssumption DEF TypeOK, MaskChannels, Hides

LEMMA LeastOfTwo ==
  ASSUME NEW a \in Int, NEW b \in Int
  PROVE  Min({a, b}) \in {a, b} /\ Min({a, b}) <= a /\ Min({a, b}) <= b
<1>1. \E m \in {a, b} : \A n \in {a, b} : m <= n
  OBVIOUS
<1> QED  BY <1>1 DEF Min

LEMMA NextCombinationType ==
  ASSUME Typed, pc = "combo", loop.todo # {}
  PROVE  NextCombination \in Indexings /\ Left \in SUBSET Indexings
<1>1. loop.todo \in SUBSET Indexings /\ loop.from \in Indexings
  BY DEF Typed, TypeOK, Locals
<1>2. FirstOf(loop.todo) \in Indexings
  BY <1>1, FirstOfIn
<1> QED  BY <1>1, <1>2, ReorderedType DEF NextCombination, Left

LEMMA TypedInit ==
  ASSUME Init
  PROVE  Typed
<1>1. x \in [Pars -> Vals]
  BY CallsAssumption DEF Init
<1>2. idx \in Indexings
  BY PresentType DEF Init, Present
<1>3. mask \in Masks
  BY MasksType DEF Init
<1>4. iterations \in 0..MaxIterations /\ calls \in 0..MaxCalls /\ failures \in 0..MaxFailures
  BY BoundsAssumption DEF Init
<1> QED  BY <1>1, <1>2, <1>3, <1>4 DEF Init, Typed, TypeOK, Locals, NoLoop, Masks

LEMMA TypedCall ==
  ASSUME Typed, Call
  PROVE  Typed'
<1>1. PICK cst \in Fixed : \E v \in [cst -> Vals] :
        /\ x' = [p \in Pars |-> IF p \in cst THEN v[p] ELSE x[p]]
        /\ const' = cst
        /\ start' = [x |-> x', const |-> cst]
  BY DEF Call
<1>2. cst \subseteq Pars
  BY CallsAssumption
<1>3. x' \in [Pars -> Vals] /\ start'.x = x' /\ start'.const = cst
  BY <1>1 DEF Typed, TypeOK
<1>4. calls' \in 0..MaxCalls /\ iterations' \in 0..MaxIterations /\ iterations' < MaxIterations
  BY BoundsAssumption DEF Call, Typed, TypeOK
<1>5. TypeOK'
  BY <1>1, <1>2, <1>3, <1>4 DEF Call, Typed, TypeOK
<1>6. Locals'
  BY <1>1, <1>2, <1>3, <1>4 DEF Call, Typed, Locals
<1> QED  BY <1>5, <1>6 DEF Typed

LEMMA TypedPreFit ==
  ASSUME Typed, PreFit
  PROVE  Typed'
<1> DEFINE frozen == Constrained \ Freeze(const, idx)
           held == Freeze(Freeze(const, idx) \cup frozen, idx)
<1>1. PICK f \in Fits(x, idx, mask, Listed(mask) \ held) :
        x' = f.x /\ failures' = failures + f.failed /\ const' = Float(held \ frozen, idx)
  BY DEF PreFit
<1>2. const \in SUBSET Pars /\ x \in [Pars -> Vals]
  BY DEF Typed, TypeOK
<1>3. held \in SUBSET Pars
  BY <1>2, FrozenTypes, ChannelsAssumption
<1>4. const' \in SUBSET Pars
  <2>1. held \ frozen \in SUBSET Pars
    BY <1>3
  <2> HIDE DEF held, frozen
  <2> QED  BY <1>1, <2>1, FrozenTypes
<1>5. x' \in [Pars -> Vals] /\ failures' \in 0..MaxFailures
  BY <1>1, <1>2, FitsEnd
<1>6. list' \subseteq Pars
  BY ListedType DEF PreFit
<1>7. TypeOK'
  BY <1>4, <1>5, <1>6 DEF PreFit, Typed, TypeOK
<1>8. Locals'
  BY DEF PreFit, Typed, Locals
<1> QED  BY <1>7, <1>8 DEF Typed

LEMMA TypedFirst ==
  ASSUME Typed, First
  PROVE  Typed'
<1>1. /\ const \in SUBSET Pars /\ x \in [Pars -> Vals] /\ idx \in Indexings
      /\ offset \in Int /\ list \in SUBSET Pars
  BY DEF Typed, TypeOK
<1>2. Freeze(const, idx) \in SUBSET Pars
  BY <1>1, FrozenTypes
<1>3. opt.short \in BOOLEAN /\ opt.analytic \in BOOLEAN
  BY OptionTypes DEF Typed
<1>4. CASE opt.short
  <2>1. PICK r \in Improved(x, idx, Freeze(const, idx), mask, opt.analytic) :
          /\ x' = r.x /\ const' = r.const /\ list' = r.list
          /\ failures' = failures + r.failed
          /\ minNLL' = Shown(r.x, idx, mask, offset)
          /\ prevNLL' = minNLL' /\ pc' = "iterate" /\ UNCHANGED loop
    BY <1>4 DEF First
  <2>2. /\ x' \in [Pars -> Vals] /\ const' \in SUBSET Pars /\ failures' \in 0..MaxFailures
        /\ list' \in SUBSET Pars
    BY <1>1, <1>2, <1>3, <2>1, ImprovedEnds, ListedType
  <2>3. minNLL' \in Int /\ prevNLL' \in Int
    BY <1>1, <2>1, <2>2, ShownInt
  <2>4. TypeOK'
    BY <2>1, <2>2, <2>3 DEF First, Typed, TypeOK
  <2>5. Locals'
    BY <2>1 DEF First, Typed, Locals
  <2> QED  BY <2>4, <2>5 DEF Typed
<1>5. CASE ~opt.short
  <2>1. /\ const' = Freeze(const, idx) /\ minNLL' = 10 + Shown(x, idx, mask, offset)
        /\ loop' = [NoLoop EXCEPT !.clean = x] /\ pc' = "multi"
        /\ UNCHANGED <<x, list, prevNLL, failures>>
    BY <1>5 DEF First
  <2>2. minNLL' \in Int
    BY <1>1, <2>1, ShownInt
  <2>3. /\ loop' = [mode |-> 0, from |-> <<>>, todo |-> {}, fits |-> 0, clean |-> x, best |-> <<>>,
                    frozen |-> {}, allowed |-> [c \in Cats |-> Indices(c)]]
    BY <2>1 DEF NoLoop
  <2>4. TypeOK'
    BY <1>2, <2>1, <2>2, <2>3 DEF First, Typed, TypeOK
  <2>5. Locals'
    BY <1>1, <2>1, <2>3 DEF First, Typed, Locals
  <2> QED  BY <2>4, <2>5 DEF Typed
<1> QED  BY <1>4, <1>5

LEMMA TypedIterate ==
  ASSUME Typed, Iterate
  PROVE  Typed'
<1> DEFINE cst == Freeze(const, idx)
<1>1. /\ const' = cst \cup FrozenForScan(cst)
      /\ loop' = [NoLoop EXCEPT !.clean = [p \in Pars \ const' |-> x[p]], !.frozen = FrozenForScan(cst)]
      /\ pc' = "multi"
  BY DEF Iterate
<1>2. const \in SUBSET Pars /\ x \in [Pars -> Vals]
  BY DEF Typed, TypeOK
<1>3. cst \in SUBSET Pars
  BY <1>2, FrozenTypes
<1>4. FrozenForScan(cst) \in SUBSET Pars
  BY ChannelsAssumption DEF FrozenForScan
<1>5. loop' = [mode |-> 0, from |-> <<>>, todo |-> {}, fits |-> 0,
               clean |-> [p \in Pars \ const' |-> x[p]], best |-> <<>>,
               frozen |-> FrozenForScan(cst), allowed |-> [c \in Cats |-> Indices(c)]]
  BY <1>1 DEF NoLoop
<1>6. /\ loop'.mode = 0 /\ loop'.todo = {} /\ loop'.frozen = FrozenForScan(cst)
      /\ loop'.clean = [p \in Pars \ const' |-> x[p]]
  BY <1>5
<1>7. const' \in SUBSET Pars
  BY <1>1, <1>3, <1>4
<1>8. TypeOK'
  BY <1>1, <1>4, <1>6, <1>7 DEF Iterate, Typed, TypeOK
<1>9. DOMAIN loop'.clean \subseteq Pars /\ \A p \in DOMAIN loop'.clean : loop'.clean[p] \in Vals
  BY <1>2, <1>6
<1>10. loop' = [mode |-> loop'.mode, from |-> loop'.from, todo |-> loop'.todo, fits |-> loop'.fits,
                clean |-> loop'.clean, best |-> loop'.best, frozen |-> loop'.frozen,
                allowed |-> loop'.allowed]
  BY <1>5
<1>11. Locals'
  BY <1>1, <1>9, <1>10 DEF Iterate, Typed, Locals
<1> QED  BY <1>8, <1>11 DEF Typed

LEMMA TypedStartMultiple ==
  ASSUME Typed, StartMultiple
  PROVE  Typed'
<1> DEFINE mk1 == IF MaskChannels # 0 THEN WithChannels(mask, {}) ELSE mask
           mk2 == IF Hides /\ opt.constraints THEN [mk1 EXCEPT !.constraints = TRUE] ELSE mk1
           todo == Chosen(loop.mode) \ (IF loop.mode = 0 THEN {} ELSE {Present})
           allowed == IF loop.mode = 0 THEN NoLoop.allowed ELSE loop.allowed
<1>1. /\ mask' = mk2
      /\ offset' = MaskedOffset(MaskedOffset(offset, x, idx, mask, mk1), x, idx, mk1, mk2)
      /\ loop' = [loop EXCEPT !.from = idx, !.todo = todo, !.fits = 0,
                              !.best = [x |-> x, idx |-> idx], !.allowed = allowed]
      /\ pc' = "combo" /\ pc = "multi"
  BY DEF StartMultiple
<1>2. x \in [Pars -> Vals] /\ idx \in Indexings /\ offset \in Int /\ mask \in Masks
  BY DEF Typed, TypeOK, Masks
<1>3. mk1 \in Masks /\ mk2 \in Masks
  BY <1>2, MasksType
<1>4. offset' \in Int
  <2>1. MaskedOffset(offset, x, idx, mask, mk1) \in Int
    BY <1>2, MaskedOffsetInt
  <2> HIDE DEF mk1, mk2
  <2> QED  BY <1>1, <1>2, <2>1, MaskedOffsetInt
<1>5. loop' = [mode |-> loop.mode, from |-> idx, todo |-> todo, fits |-> 0,
               clean |-> loop.clean, best |-> [x |-> x, idx |-> idx], frozen |-> loop.frozen,
               allowed |-> allowed]
  <2>1. loop = [mode |-> loop.mode, from |-> loop.from, todo |-> loop.todo, fits |-> loop.fits,
                clean |-> loop.clean, best |-> loop.best, frozen |-> loop.frozen, allowed |-> loop.allowed]
    BY DEF Typed, Locals
  <2> HIDE DEF todo, allowed
  <2> QED  BY <1>1, <2>1
<1>6. todo \subseteq Indexings
  BY DEF Chosen
<1>7. list' \subseteq Pars
  BY DEF StartMultiple, Typed, TypeOK
<1> HIDE DEF mk1, mk2, todo, allowed
<1>8. TypeOK'
  BY <1>1, <1>3, <1>4, <1>5, <1>6, <1>7 DEF StartMultiple, Typed, TypeOK, Masks
<1>9. /\ loop'.from = idx /\ loop'.clean = loop.clean
      /\ loop'.best = [x |-> x, idx |-> idx] /\ loop'.best.x = x /\ loop'.best.idx = idx
  BY <1>5
<1>10. loop' = [mode |-> loop'.mode, from |-> loop'.from, todo |-> loop'.todo, fits |-> loop'.fits,
                clean |-> loop'.clean, best |-> loop'.best, frozen |-> loop'.frozen,
                allowed |-> loop'.allowed]
  BY <1>5
<1>11. Locals'
  BY <1>1, <1>2, <1>9, <1>10 DEF StartMultiple, Typed, Locals
<1> QED  BY <1>8, <1>11 DEF Typed

LEMMA TypedSkip ==
  ASSUME Typed, SkipCombination
  PROVE  Typed'
<1> DEFINE k == NextCombination
<1>1. pc = "combo" /\ loop.todo # {} /\ loop' = [loop EXCEPT !.todo = Left]
  BY DEF SkipCombination
<1>2. k \in Indexings /\ Left \in SUBSET Indexings /\ idx \in Indexings
  BY <1>1, NextCombinationType DEF Typed, TypeOK
<1>3. idx' \in Indexings
  <2>1. PICK d : idx' = [c \in Cats |-> IF c < d THEN k[c] ELSE idx[c]]
    BY DEF SkipCombination
  <2> HIDE DEF k
  <2> QED  BY <1>2, <2>1 DEF Indexings
<1>4. loop' = [mode |-> loop.mode, from |-> loop.from, todo |-> Left, fits |-> loop.fits,
               clean |-> loop.clean, best |-> loop.best, frozen |-> loop.frozen,
               allowed |-> loop.allowed]
  BY <1>1 DEF Typed, Locals
<1>5. TypeOK'
  BY <1>2, <1>3, <1>4 DEF SkipCombination, Typed, TypeOK
<1>6. Locals'
  BY <1>1, <1>4 DEF SkipCombination, Typed, Locals
<1> QED  BY <1>5, <1>6 DEF Typed

\* Where the fit of a combination starts from.
Cleaned == IF loop.fits > 0 THEN [p \in Pars |-> IF p \in DOMAIN loop.clean THEN loop.clean[p] ELSE x[p]]
           ELSE x
Scanned(k) ==
  LET changed == {c \in Cats : idx[c] # k[c]} IN IF changed = {} THEN Cats ELSE {Max(changed)}
MaskDuring(k) == IF MaskChannels = 2 THEN WithChannels(mask, Cats \ Scanned(k)) ELSE mask
MaskAfter(k) == IF MaskChannels = 2 THEN WithoutChannels(MaskDuring(k)) ELSE MaskDuring(k)

\* The step of a combination, part by part.
LEMMA FitCombinationStep ==
  ASSUME Typed, FitCombination
  PROVE  LET k == NextCombination
             o1 == MaskedOffset(offset, Cleaned, k, mask, MaskDuring(k))
         IN /\ pc = "combo" /\ loop.todo # {} /\ k \in Indexings /\ Cleaned \in [Pars -> Vals]
            /\ MaskDuring(k) \in Masks /\ MaskAfter(k) \in Masks
            /\ idx' = k
            /\ \E r \in Improved(Cleaned, k, Freeze(const, k), MaskDuring(k), opt.disassociate) :
                 LET o2 == MaskedOffset(o1, r.x, k, MaskDuring(k), MaskAfter(k))
                     value == Shown(r.x, k, MaskAfter(k), o2)
                 IN /\ x' = r.x /\ list' = r.list /\ failures' = failures + r.failed
                    /\ const' = Float(r.const, k)
                    /\ mask' = MaskAfter(k) /\ offset' = o2
                    /\ minNLL' = Min({value, minNLL})
                    /\ loop'.best \in {loop.best, Better(loop.best, r.x, k)}
                    /\ loop'.best = IF value < minNLL THEN Better(loop.best, r.x, k) ELSE loop.best
                    /\ loop'.allowed = StillAllowed(k, value, minNLL', loop'.best.idx)
            /\ loop' = [mode |-> loop.mode, from |-> loop.from, todo |-> Left, fits |-> loop.fits + 1,
                        clean |-> loop.clean, best |-> loop'.best, frozen |-> loop.frozen,
                        allowed |-> loop'.allowed]
            /\ UNCHANGED <<model, opt, pc, prevNLL, iterations, start, calls>>
<1> DEFINE k == NextCombination
<1>1. pc = "combo" /\ loop.todo # {} /\ idx' = k
  BY DEF FitCombination
<1>2. k \in Indexings
  BY <1>1, NextCombinationType
<1>3. Cleaned \in [Pars -> Vals]
  BY <1>1 DEF Cleaned, Typed, TypeOK, Locals
<1>4. MaskDuring(k) \in Masks /\ MaskAfter(k) \in Masks
  BY MasksType DEF MaskDuring, MaskAfter, Typed, TypeOK, Masks
<1>5. loop = [mode |-> loop.mode, from |-> loop.from, todo |-> loop.todo, fits |-> loop.fits,
              clean |-> loop.clean, best |-> loop.best, frozen |-> loop.frozen, allowed |-> loop.allowed]
  BY DEF Typed, Locals
<1> DEFINE o1 == MaskedOffset(offset, Cleaned, k, mask, MaskDuring(k))
           o2(r) == MaskedOffset(o1, r.x, k, MaskDuring(k), MaskAfter(k))
           value(r) == Shown(r.x, k, MaskAfter(k), o2(r))
           best(r) == IF value(r) < minNLL THEN Better(loop.best, r.x, k) ELSE loop.best
           allowed(r) == StillAllowed(k, value(r), minNLL', best(r).idx)
<1>6. PICK r \in Improved(Cleaned, k, Freeze(const, k), MaskDuring(k), opt.disassociate) :
        /\ x' = r.x /\ list' = r.list /\ failures' = failures + r.failed
        /\ const' = Float(r.const, k)
        /\ mask' = MaskAfter(k) /\ offset' = o2(r)
        /\ minNLL' = Min({value(r), minNLL})
        /\ loop' = [loop EXCEPT !.todo = Left, !.fits = @ + 1, !.best = best(r),
                                !.allowed = allowed(r)]
  BY Zenon DEF FitCombination, Cleaned, Scanned, MaskDuring, MaskAfter
<1>7. /\ loop'.best = best(r) /\ loop'.allowed = allowed(r)
      /\ loop' = [mode |-> loop.mode, from |-> loop.from, todo |-> Left, fits |-> loop.fits + 1,
                  clean |-> loop.clean, best |-> loop'.best, frozen |-> loop.frozen,
                  allowed |-> loop'.allowed]
  <2> HIDE DEF best, allowed
  <2> QED  BY <1>5, <1>6
<1>8. /\ loop'.best \in {loop.best, Better(loop.best, r.x, k)}
      /\ loop'.best = IF value(r) < minNLL THEN Better(loop.best, r.x, k) ELSE loop.best
      /\ loop'.allowed = StillAllowed(k, value(r), minNLL', loop'.best.idx)
  <2> HIDE DEF value
  <2> QED  BY <1>7
<1>9. UNCHANGED <<model, opt, pc, prevNLL, iterations, start, calls>>
  BY DEF FitCombination
<1> HIDE DEF k, value, o1
<1> QED  BY <1>1, <1>2, <1>3, <1>4, <1>6, <1>7, <1>8, <1>9 DEF k, value, o1

LEMMA TypedFitCombination ==
  ASSUME Typed, FitCombination
  PROVE  Typed'
<1> DEFINE k == NextCombination
           o1 == MaskedOffset(offset, Cleaned, k, mask, MaskDuring(k))
<1>1. /\ pc = "combo" /\ loop.todo # {} /\ k \in Indexings /\ Cleaned \in [Pars -> Vals]
      /\ MaskDuring(k) \in Masks /\ MaskAfter(k) \in Masks
      /\ idx' = k
      /\ loop' = [mode |-> loop.mode, from |-> loop.from, todo |-> Left, fits |-> loop.fits + 1,
                  clean |-> loop.clean, best |-> loop'.best, frozen |-> loop.frozen,
                  allowed |-> loop'.allowed]
      /\ UNCHANGED <<model, opt, pc, prevNLL, iterations, start, calls>>
  BY FitCombinationStep
<1> DEFINE o2(r) == MaskedOffset(o1, r.x, k, MaskDuring(k), MaskAfter(k))
           value(r) == Shown(r.x, k, MaskAfter(k), o2(r))
<1>2. PICK r \in Improved(Cleaned, k, Freeze(const, k), MaskDuring(k), opt.disassociate) :
        /\ x' = r.x /\ list' = r.list /\ failures' = failures + r.failed
        /\ const' = Float(r.const, k)
        /\ mask' = MaskAfter(k) /\ offset' = o2(r)
        /\ minNLL' = Min({value(r), minNLL})
        /\ loop'.best \in {loop.best, Better(loop.best, r.x, k)}
  BY FitCombinationStep
<1>3. const \in SUBSET Pars /\ offset \in Int /\ minNLL \in Int /\ list \in SUBSET Pars
  BY DEF Typed, TypeOK
<1>4. Freeze(const, k) \in SUBSET Pars /\ opt.disassociate \in BOOLEAN
  BY <1>3, FrozenTypes, OptionTypes DEF Typed
<1> HIDE DEF k, value
<1>5. /\ r.x \in [Pars -> Vals] /\ r.const \in SUBSET Pars /\ failures + r.failed \in 0..MaxFailures
      /\ r.list \in SUBSET Pars
  BY <1>1, <1>3, <1>4, ImprovedEnds, ListedType
<1>6. Float(r.const, k) \in SUBSET Pars
  BY <1>5, FrozenTypes
<1>7. o1 \in Int
  BY <1>1, <1>3, MaskedOffsetInt
<1>8. o2(r) \in Int
  <2> HIDE DEF o1
  <2> QED  BY <1>1, <1>5, <1>7, MaskedOffsetInt
<1>9. value(r) \in Int
  <2> HIDE DEF o2
  <2> QED  BY <1>1, <1>5, <1>8, ShownInt DEF value
<1>10. minNLL' \in Int
  BY <1>2, <1>3, <1>9, LeastOfTwo
<1> HIDE DEF o2
<1>11. Left \in SUBSET Indexings
  BY <1>1, NextCombinationType
<1>12. TypeOK'
  BY <1>1, <1>2, <1>5, <1>6, <1>8, <1>10, <1>11 DEF Typed, TypeOK, Masks
<1>13. /\ loop'.best = [x |-> loop'.best.x, idx |-> loop'.best.idx]
       /\ loop'.best.x \in [Pars -> Vals] /\ loop'.best.idx \in Indexings
  BY <1>1, <1>2, <1>5 DEF Better, Typed, Locals
<1>14. /\ loop'.from = loop.from /\ loop'.clean = loop.clean
       /\ loop' = [mode |-> loop'.mode, from |-> loop'.from, todo |-> loop'.todo, fits |-> loop'.fits,
                   clean |-> loop'.clean, best |-> loop'.best, frozen |-> loop'.frozen,
                   allowed |-> loop'.allowed]
  BY <1>1
<1>15. Locals'
  BY <1>1, <1>13, <1>14 DEF Typed, Locals
<1> QED  BY <1>12, <1>15 DEF Typed

\* The masks that multipleMinimize leaves.
MaskEnd1 == IF MaskChannels # 0 THEN WithoutChannels(mask) ELSE mask
MaskEnd2 == IF Hides /\ opt.constraints THEN [MaskEnd1 EXCEPT !.constraints = FALSE] ELSE MaskEnd1

LEMMA TypedEndMultiple ==
  ASSUME Typed, EndMultiple
  PROVE  Typed'
<1>1. /\ pc = "combo" /\ x' = loop.best.x /\ idx' = loop.best.idx /\ mask' = MaskEnd2
      /\ offset' = MaskedOffset(MaskedOffset(offset, x', idx', mask, MaskEnd1), x', idx', MaskEnd1, MaskEnd2)
  BY DEF EndMultiple, MaskEnd1, MaskEnd2
<1>2. x' \in [Pars -> Vals] /\ idx' \in Indexings /\ offset \in Int /\ mask \in Masks
  BY <1>1 DEF Typed, TypeOK, Locals, Masks
<1>3. mask' \in Masks
  BY <1>1, <1>2, MasksType DEF MaskEnd1, MaskEnd2
<1>4. offset' \in Int
  <2>1. MaskedOffset(offset, x', idx', mask, MaskEnd1) \in Int
    BY <1>2, MaskedOffsetInt
  <2> QED  BY <1>1, <1>2, <2>1, MaskedOffsetInt
<1>5. /\ loop' \in {loop, [loop EXCEPT !.mode = @ + 1]} /\ loop'.mode \in 0..2
      /\ pc' \in {"full", "multi", "last"}
  <2>1. loop = [mode |-> loop.mode, from |-> loop.from, todo |-> loop.todo, fits |-> loop.fits,
                clean |-> loop.clean, best |-> loop.best, frozen |-> loop.frozen, allowed |-> loop.allowed]
    BY DEF Typed, Locals
  <2>2. loop.mode \in 0..2
    BY DEF Typed, TypeOK
  <2> QED  BY <2>1, <2>2 DEF EndMultiple
<1>6. loop' = [mode |-> loop'.mode, from |-> loop.from, todo |-> loop.todo, fits |-> loop.fits,
               clean |-> loop.clean, best |-> loop.best, frozen |-> loop.frozen, allowed |-> loop.allowed]
  BY <1>5 DEF Typed, Locals
<1>7. /\ loop'.todo = loop.todo /\ loop'.frozen = loop.frozen /\ loop'.clean = loop.clean
      /\ loop' = [mode |-> loop'.mode, from |-> loop'.from, todo |-> loop'.todo, fits |-> loop'.fits,
                  clean |-> loop'.clean, best |-> loop'.best, frozen |-> loop'.frozen,
                  allowed |-> loop'.allowed]
  BY <1>6
<1>8. list' \subseteq Pars
  BY DEF EndMultiple, Typed, TypeOK
<1>9. TypeOK'
  BY <1>2, <1>3, <1>4, <1>5, <1>7, <1>8 DEF EndMultiple, Typed, TypeOK, Masks
<1>10. Locals'
  BY <1>1, <1>5, <1>7 DEF EndMultiple, Typed, Locals
<1> QED  BY <1>9, <1>10 DEF Typed

LEMMA TypedFullFit ==
  ASSUME Typed, FullFit
  PROVE  Typed'
<1>1. /\ pc = "full"
      /\ const \in SUBSET Pars /\ x \in [Pars -> Vals] /\ idx \in Indexings
      /\ offset \in Int /\ list \in SUBSET Pars
  BY DEF FullFit, Again, Typed, TypeOK
<1>2. Unfrozen(const) \in SUBSET Pars /\ opt.analytic \in BOOLEAN
  BY <1>1, OptionTypes DEF Unfrozen, Typed
<1>3. PICK r \in Improved(x, idx, Unfrozen(const), mask, opt.analytic) :
        /\ x' = r.x /\ list' = r.list /\ failures' = failures + r.failed
        /\ const' = Float(r.const, idx)
        /\ minNLL' = Shown(r.x, idx, mask, offset)
  BY DEF FullFit, Again
<1>4. /\ r.x \in [Pars -> Vals] /\ r.const \in SUBSET Pars /\ failures' \in 0..MaxFailures
      /\ list' \in SUBSET Pars
  BY <1>1, <1>2, <1>3, ImprovedEnds, ListedType
<1>5. const' \in SUBSET Pars /\ minNLL' \in Int
  BY <1>1, <1>3, <1>4, FrozenTypes, ShownInt
<1>6. prevNLL' \in Int
  BY <1>5 DEF FullFit, Again, Typed, TypeOK
<1>7. /\ iterations' \in 0..MaxIterations /\ pc' \in {"end", "iterate"}
      /\ pc' = "iterate" => iterations' < MaxIterations
  BY <1>1, BoundsAssumption DEF FullFit, Again, Typed, TypeOK, Locals
<1>8. TypeOK'
  BY <1>3, <1>4, <1>5, <1>6, <1>7 DEF FullFit, Again, Typed, TypeOK, NoLoop
<1>9. Locals'
  BY <1>7 DEF FullFit, Again, Typed, Locals, NoLoop
<1> QED  BY <1>8, <1>9 DEF Typed

LEMMA TypedLastFit ==
  ASSUME Typed, LastFit
  PROVE  Typed'
<1>1. /\ const \in SUBSET Pars /\ x \in [Pars -> Vals] /\ idx \in Indexings
      /\ offset \in Int /\ list \in SUBSET Pars
  BY DEF Typed, TypeOK
<1>2. CASE opt.disassociate
  <2>1. PICK r \in Improved(x, idx, Freeze(const, idx), mask, TRUE) :
          /\ x' = r.x /\ list' = r.list /\ failures' = failures + r.failed
          /\ const' = Float(r.const, idx)
          /\ minNLL' = Shown(r.x, idx, mask, offset)
    BY <1>2 DEF LastFit
  <2>2. Freeze(const, idx) \in SUBSET Pars
    BY <1>1, FrozenTypes
  <2>3. /\ r.x \in [Pars -> Vals] /\ r.const \in SUBSET Pars /\ failures' \in 0..MaxFailures
        /\ list' \in SUBSET Pars
    BY <1>1, <2>1, <2>2, ImprovedEnds, ListedType
  <2>4. const' \in SUBSET Pars /\ minNLL' \in Int
    BY <1>1, <2>1, <2>3, FrozenTypes, ShownInt
  <2>5. TypeOK'
    BY <2>1, <2>3, <2>4 DEF LastFit, Typed, TypeOK
  <2>6. Locals'
    BY DEF LastFit, Typed, Locals
  <2> QED  BY <2>5, <2>6 DEF Typed
<1>3. CASE ~opt.disassociate
  BY <1>3 DEF LastFit, Typed, TypeOK, Locals
<1> QED  BY <1>2, <1>3

LEMMA TypedEnd ==
  ASSUME Typed, End
  PROVE  Typed'
<1>1. const' \in SUBSET Pars
  BY FrozenTypes DEF End, Typed, TypeOK
<1>2. TypeOK'
  BY <1>1 DEF End, Typed, TypeOK
<1>3. Locals'
  BY DEF End, Typed, Locals
<1> QED  BY <1>2, <1>3 DEF Typed

LEMMA TypedStep ==
  ASSUME Typed, [Next]_vars
  PROVE  Typed'
<1>1. CASE Next
  BY <1>1, TypedCall, TypedPreFit, TypedFirst, TypedIterate, TypedStartMultiple, TypedSkip,
     TypedFitCombination, TypedEndMultiple, TypedFullFit, TypedLastFit, TypedEnd DEF Next
<1>2. CASE UNCHANGED vars
  BY <1>2 DEF vars, Typed, TypeOK, Locals
<1> QED  BY <1>1, <1>2

\* The variables hold values of their types: the indices are those of pdfs, the
\* combinations left are combinations, and there is no more than MaxIterations
\* of iterativeMinimize in a call (minimize, multipleMinimize).
THEOREM Types == Spec => []TypeOK
<1>1. Init => Typed
  BY TypedInit
<1>2. Typed /\ [Next]_vars => Typed'
  BY TypedStep
<1>3. Typed => TypeOK
  BY DEF Typed
<1> QED  BY <1>1, <1>2, <1>3, PTL DEF Spec

-----------------------------------------------------------------------------
(* Parameters held by the caller.                                          *)

\* Freezing and floating again touches parameters of pdfs only.
LEMMA FreezeKeeps ==
  ASSUME NEW cst, NEW k, NEW H \in SUBSET cst, H \cap MultiPars = {}
  PROVE  H \subseteq Freeze(cst, k) /\ H \subseteq Float(cst, k)
  BY DEF Freeze, Float, Disassociated

LEMMA HoldingInit ==
  ASSUME Init
  PROVE  Holding
  BY DEF Init, Holding, NoLoop

LEMMA HoldingCall ==
  ASSUME Typed, Holding, Call, FixedApart
  PROVE  Holding'
<1>1. PICK cst \in Fixed : \E v \in [cst -> Vals] :
        /\ x' = [p \in Pars |-> IF p \in cst THEN v[p] ELSE x[p]]
        /\ const' = cst
        /\ start' = [x |-> x', const |-> cst]
  BY DEF Call
<1>2. cst \cap MultiPars = {} /\ start'.const = cst /\ start'.x = x'
  BY <1>1 DEF FixedApart
<1>3. loop' = loop /\ loop.frozen = {} /\ pc' = "begin"
  BY DEF Call, Holding
<1> QED  BY <1>1, <1>2, <1>3 DEF Holding

LEMMA HoldingPreFit ==
  ASSUME Typed, Holding, PreFit
  PROVE  Holding'
<1> DEFINE H == start.const
           frozen == Constrained \ Freeze(const, idx)
           held == Freeze(Freeze(const, idx) \cup frozen, idx)
<1>1. /\ H \subseteq const /\ H \subseteq Pars /\ H \cap MultiPars = {}
      /\ \A p \in H : x[p] = start.x[p]
      /\ x \in [Pars -> Vals]
      /\ loop.frozen = {}
  BY DEF PreFit, Holding, Typed, TypeOK, Locals
<1>2. PICK f \in Fits(x, idx, mask, Listed(mask) \ held) :
        x' = f.x /\ const' = Float(held \ frozen, idx)
  BY DEF PreFit
<1>3. H \subseteq Freeze(const, idx)
  BY <1>1, FreezeKeeps
<1>4. H \subseteq held
  <2>1. H \subseteq Freeze(const, idx) \cup frozen
    BY <1>3
  <2> HIDE DEF frozen, H
  <2> QED  BY <1>1, <2>1, FreezeKeeps
<1>5. H \subseteq const'
  <2>1. H \subseteq held \ frozen
    BY <1>3, <1>4
  <2> HIDE DEF frozen, held, H
  <2> QED  BY <1>1, <1>2, <2>1, FreezeKeeps
<1>6. \A p \in Pars \ (Listed(mask) \ held) : x'[p] = x[p]
  <2> HIDE DEF held
  <2> QED  BY <1>1, <1>2, FitsEnd
<1>7. \A p \in H : x'[p] = start.x[p]
  BY <1>1, <1>4, <1>6
<1> QED  BY <1>1, <1>5, <1>7 DEF PreFit, Holding

\* A fit by improve() leaves what the caller holds.
LEMMA ImprovedHolds ==
  ASSUME Typed, NEW y \in [Pars -> Vals], NEW k, NEW cst \in SUBSET Pars, NEW mk,
         NEW force, NEW r \in Improved(y, k, cst, mk, force),
         NEW H \in SUBSET cst, H \cap MultiPars = {}
  PROVE  /\ H \subseteq r.const /\ H \subseteq Float(r.const, k)
         /\ \A p \in H : r.x[p] = y[p]
<1>1. r.const = Float(Freeze(cst, k), k) /\ \A p \in Freeze(cst, k) \cap Pars : r.x[p] = y[p]
  BY ImprovedEnds
<1>2. H \subseteq Freeze(cst, k)
  BY FreezeKeeps
<1>3. H \subseteq r.const
  <2> DEFINE fr == Freeze(cst, k)
  <2>1. H \in SUBSET fr /\ r.const = Float(fr, k)
    BY <1>1, <1>2
  <2> HIDE DEF fr
  <2> QED  BY <2>1, FreezeKeeps
<1> QED  BY <1>1, <1>2, <1>3, FreezeKeeps

\* What the minimizer does not know of does not move.
LEMMA ImprovedUnlisted ==
  ASSUME NEW y, NEW k, NEW cst, NEW mk, NEW force, NEW r \in Improved(y, k, cst, mk, force),
         NEW p \in Pars, p \notin r.list
  PROVE  r.x[p] = y[p]
<1> DEFINE known == IF force \/ list = {} THEN Listed(mk) ELSE list
           fr == Freeze(cst, k)
<1>1. PICK f \in Fits(y, k, mk, known \ fr) :
        r = [x |-> f.x, failed |-> f.failed, const |-> Float(fr, k), list |-> known]
  BY DEF Improved
<1> HIDE DEF known, fr
<1>2. r.x = f.x /\ p \notin known
  BY <1>1
<1>3. f.x \in Ends(y, known \ fr)
  BY DEF Fits
<1> QED  BY <1>2, <1>3 DEF Ends

\* A minimizer made for the fit knows what is listed.
LEMMA ImprovedForced ==
  ASSUME NEW y, NEW k, NEW cst, NEW mk, NEW force, force, NEW r \in Improved(y, k, cst, mk, force)
  PROVE  r.list = Listed(mk)
<1>1. \E f : r = [x |-> f.x, failed |-> f.failed, const |-> Float(Freeze(cst, k), k), list |-> Listed(mk)]
  BY DEF Improved
<1> QED  BY <1>1

LEMMA HoldingFirst ==
  ASSUME Typed, Holding, First
  PROVE  Holding'
<1> DEFINE H == start.const
<1>1. /\ H \subseteq const /\ H \subseteq Pars /\ H \cap MultiPars = {}
      /\ \A p \in H : x[p] = start.x[p]
      /\ x \in [Pars -> Vals] /\ const \in SUBSET Pars
      /\ loop.frozen = {}
  BY DEF First, Holding, Typed, TypeOK, Locals
<1>2. H \subseteq Freeze(const, idx) /\ Freeze(const, idx) \in SUBSET Pars
  BY <1>1, FreezeKeeps, FrozenTypes
<1>3. CASE opt.short
  <2>1. PICK r \in Improved(x, idx, Freeze(const, idx), mask, opt.analytic) :
          /\ x' = r.x /\ const' = r.const /\ pc' = "iterate" /\ UNCHANGED loop
    BY <1>3 DEF First
  <2>2. opt.analytic \in BOOLEAN
    BY OptionTypes DEF Typed
  <2>3. H \subseteq const' /\ \A p \in H : x'[p] = start.x[p]
    BY <1>1, <1>2, <2>1, <2>2, ImprovedHolds
  <2> QED  BY <1>1, <2>1, <2>3 DEF First, Holding
<1>4. CASE ~opt.short
  <2>1. /\ const' = Freeze(const, idx) /\ loop' = [NoLoop EXCEPT !.clean = x]
        /\ pc' = "multi" /\ x' = x
    BY <1>4 DEF First
  <2>2. loop'.frozen = {} /\ loop'.clean = x
    BY <2>1 DEF NoLoop
  <2> QED  BY <1>1, <1>2, <2>1, <2>2 DEF First, Holding
<1> QED  BY <1>3, <1>4

LEMMA HoldingIterate ==
  ASSUME Typed, Holding, Iterate
  PROVE  Holding'
<1> DEFINE H == start.const
           cst == Freeze(const, idx)
<1>1. /\ H \subseteq const /\ H \cap MultiPars = {}
      /\ \A p \in H : x[p] = start.x[p]
  BY DEF Iterate, Holding
<1>2. H \subseteq cst
  BY <1>1, FreezeKeeps
<1>3. /\ const' = cst \cup FrozenForScan(cst)
      /\ loop' = [NoLoop EXCEPT !.clean = [p \in Pars \ const' |-> x[p]], !.frozen = FrozenForScan(cst)]
      /\ pc' = "multi" /\ x' = x /\ start' = start
  BY DEF Iterate
<1>4. loop'.frozen = FrozenForScan(cst) /\ DOMAIN loop'.clean = Pars \ const'
  BY <1>3 DEF NoLoop
<1>5. H \cap FrozenForScan(cst) = {}
  BY <1>2 DEF FrozenForScan
<1>6. opt.short /\ opt' = opt
  BY DEF Iterate, Holding
<1>7. H \cap DOMAIN loop'.clean = {}
  BY <1>2, <1>3, <1>4
<1> HIDE DEF cst
<1> QED  BY <1>1, <1>2, <1>3, <1>4, <1>5, <1>6, <1>7 DEF Holding

LEMMA HoldingStartMultiple ==
  ASSUME Typed, Holding, StartMultiple
  PROVE  Holding'
<1>1. /\ loop'.frozen = loop.frozen /\ loop'.clean = loop.clean /\ loop'.best = [x |-> x, idx |-> idx]
  BY DEF StartMultiple, Typed, Locals
<1> QED  BY <1>1 DEF StartMultiple, Holding

LEMMA HoldingSkip ==
  ASSUME Typed, Holding, SkipCombination
  PROVE  Holding'
<1>1. loop'.frozen = loop.frozen /\ loop'.clean = loop.clean /\ loop'.best = loop.best
  BY DEF SkipCombination, Typed, Locals
<1> QED  BY <1>1 DEF SkipCombination, Holding

LEMMA HoldingFitCombination ==
  ASSUME Typed, Holding, FitCombination
  PROVE  Holding'
<1> DEFINE H == start.const
           k == NextCombination
<1>1. /\ H \subseteq const /\ H \subseteq Pars /\ H \cap MultiPars = {}
      /\ \A p \in H : x[p] = start.x[p]
      /\ \A p \in H \cap DOMAIN loop.clean : loop.clean[p] = start.x[p]
      /\ \A p \in H : loop.best.x[p] = start.x[p]
      /\ const \in SUBSET Pars
  BY DEF FitCombination, Holding, Typed, TypeOK, Locals
<1>2. /\ pc = "combo" /\ k \in Indexings /\ Cleaned \in [Pars -> Vals]
      /\ loop' = [mode |-> loop.mode, from |-> loop.from, todo |-> Left, fits |-> loop.fits + 1,
                  clean |-> loop.clean, best |-> loop'.best, frozen |-> loop.frozen,
                  allowed |-> loop'.allowed]
      /\ pc' = pc /\ start' = start /\ opt' = opt
  BY FitCombinationStep
<1>3. PICK r \in Improved(Cleaned, k, Freeze(const, k), MaskDuring(k), opt.disassociate) :
        /\ x' = r.x /\ const' = Float(r.const, k)
        /\ loop'.best \in {loop.best, Better(loop.best, r.x, k)}
  BY FitCombinationStep
<1>4. H \subseteq Freeze(const, k) /\ Freeze(const, k) \in SUBSET Pars /\ opt.disassociate \in BOOLEAN
  BY <1>1, FreezeKeeps, FrozenTypes, OptionTypes DEF Typed
<1> HIDE DEF k, H
<1>5. H \subseteq const' /\ \A p \in H : x'[p] = Cleaned[p]
  BY <1>1, <1>2, <1>3, <1>4, ImprovedHolds
<1>6. \A p \in H : Cleaned[p] = start.x[p]
  BY <1>1 DEF Cleaned
<1>7. \A p \in H : loop'.best.x[p] = start.x[p]
  BY <1>1, <1>3, <1>5, <1>6 DEF Better
<1>8. loop'.frozen = loop.frozen /\ loop'.clean = loop.clean
  BY <1>2
<1>9. ~opt.short => loop.frozen = {}
  BY DEF Holding
<1>10. loop.frozen \cap H = {}
  BY <1>2 DEF Holding, H
<1>11. \A p \in H \cap DOMAIN loop'.clean : loop'.clean[p] = start.x[p]
  BY <1>1, <1>8
<1>12. \A p \in H : x'[p] = start.x[p]
  BY <1>5, <1>6
<1> QED  BY <1>1, <1>2, <1>5, <1>7, <1>8, <1>9, <1>10, <1>11, <1>12 DEF Holding, H

LEMMA HoldingEndMultiple ==
  ASSUME Typed, Holding, EndMultiple
  PROVE  Holding'
<1>1. loop'.frozen = loop.frozen /\ loop'.clean = loop.clean
  BY DEF EndMultiple, Typed, Locals
<1>2. /\ \A p \in start.const : x'[p] = start.x[p]
      /\ pc' = "last" => ~opt.short
      /\ pc' \in {"full", "multi", "last"} /\ pc = "combo"
  BY DEF EndMultiple, Holding
<1> QED  BY <1>1, <1>2 DEF EndMultiple, Holding

LEMMA HoldingFullFit ==
  ASSUME Typed, Holding, FullFit
  PROVE  Holding'
<1> DEFINE H == start.const
<1>1. /\ H \subseteq const /\ H \cap MultiPars = {} /\ loop.frozen \cap H = {}
      /\ \A p \in H : x[p] = start.x[p]
      /\ x \in [Pars -> Vals] /\ const \in SUBSET Pars
  BY DEF FullFit, Again, Holding, Typed, TypeOK
<1>2. PICK r \in Improved(x, idx, Unfrozen(const), mask, opt.analytic) :
        x' = r.x /\ const' = Float(r.const, idx)
  BY DEF FullFit, Again
<1>3. H \subseteq Unfrozen(const) /\ Unfrozen(const) \in SUBSET Pars /\ opt.analytic \in BOOLEAN
  BY <1>1, OptionTypes DEF Unfrozen, Typed
<1> HIDE DEF H
<1>4. H \subseteq const' /\ \A p \in H : x'[p] = start.x[p]
  BY <1>1, <1>2, <1>3, ImprovedHolds
<1>5. loop'.frozen = {} /\ pc' \in {"end", "iterate"}
  BY DEF FullFit, Again, NoLoop
<1>6. opt.short
  BY DEF FullFit, Again, Holding
<1> QED  BY <1>1, <1>4, <1>5, <1>6 DEF FullFit, Again, Holding, H

LEMMA HoldingLastFit ==
  ASSUME Typed, Holding, LastFit
  PROVE  Holding'
<1> DEFINE H == start.const
<1>1. /\ H \subseteq const /\ H \cap MultiPars = {} /\ loop.frozen = {}
      /\ \A p \in H : x[p] = start.x[p]
      /\ x \in [Pars -> Vals] /\ const \in SUBSET Pars
  BY DEF LastFit, Holding, Typed, TypeOK
<1>2. CASE opt.disassociate
  <2>1. PICK r \in Improved(x, idx, Freeze(const, idx), mask, TRUE) :
          x' = r.x /\ const' = Float(r.const, idx)
    BY <1>2 DEF LastFit
  <2>2. H \subseteq Freeze(const, idx) /\ Freeze(const, idx) \in SUBSET Pars
    BY <1>1, FreezeKeeps, FrozenTypes
  <2>3. PICK force \in BOOLEAN : r \in Improved(x, idx, Freeze(const, idx), mask, force)
    BY Zenon
  <2> HIDE DEF H
  <2>4. H \subseteq Float(r.const, idx) /\ \A p \in H : r.x[p] = x[p]
    BY <1>1, <2>2, <2>3, ImprovedHolds
  <2>5. H \subseteq const' /\ \A p \in H : x'[p] = start.x[p]
    BY <1>1, <2>1, <2>4
  <2> QED  BY <1>1, <2>5 DEF LastFit, Holding, H
<1>3. CASE ~opt.disassociate
  BY <1>1, <1>3 DEF LastFit, Holding
<1> QED  BY <1>2, <1>3

LEMMA HoldingEnd ==
  ASSUME Typed, Holding, End
  PROVE  Holding'
  BY DEF End, Holding

LEMMA HoldingStep ==
  ASSUME Typed, Holding, FixedApart, [Next]_vars
  PROVE  Holding'
<1>1. CASE Next
  BY <1>1, HoldingCall, HoldingPreFit, HoldingFirst, HoldingIterate, HoldingStartMultiple, HoldingSkip,
     HoldingFitCombination, HoldingEndMultiple, HoldingFullFit, HoldingLastFit, HoldingEnd DEF Next
<1>2. CASE UNCHANGED vars
  BY <1>2 DEF vars, Holding
<1> QED  BY <1>1, <1>2

\* What a caller holds constant stays where it is through every fit of the call,
\* when it holds no parameter of a pdf (the scans of MultiDimFit, minimize): the
\* hypothesis is needed, see the run discrete_scan.
THEOREM ScansHold == FixedApart => (Spec => []ConstantsKept)
<1> SUFFICES ASSUME FixedApart PROVE Spec => []ConstantsKept
  OBVIOUS
<1>1. Init => HeldInv
  BY TypedInit, HoldingInit DEF HeldInv
<1>2. HeldInv /\ [Next]_vars => HeldInv'
  BY TypedStep, HoldingStep DEF HeldInv
<1>3. HeldInv => ConstantsKept
  BY DEF HeldInv, Holding, ConstantsKept
<1> QED  BY <1>1, <1>2, <1>3, PTL DEF Spec

-----------------------------------------------------------------------------
(* Masks.                                                                  *)

LEMMA HiddenInt ==
  ASSUME model \in Models, NEW y \in [Pars -> Vals], NEW k \in Indexings, NEW mk
  PROVE  Hidden(y, k, mk) \in Int
<1>1. Channels \cap mk.channels \in SUBSET Channels
  OBVIOUS
<1>2. SumFunctionOnSet(Terms(y, k), Channels \cap mk.channels) \in Int
  BY <1>1, TermsInt, SumInt, ChannelsAssumption, FS_Subset
<1>3. Penalty(model, y) \in Int
  BY LikelihoodAssumption
<1> QED  BY <1>2, <1>3 DEF Hidden, Terms

\* The likelihood is what is shown and what is hidden.
LEMMA ShownAndHidden ==
  ASSUME model \in Models, NEW y \in [Pars -> Vals], NEW k \in Indexings, NEW mk
  PROVE  NLL(y, k, NoMask) = NLL(y, k, mk) + Hidden(y, k, mk)
<1> DEFINE all == SumFunctionOnSet(Terms(y, k), Channels)
           shown == SumFunctionOnSet(Terms(y, k), Channels \ mk.channels)
           hidden == SumFunctionOnSet(Terms(y, k), Channels \cap mk.channels)
<1>1. all = shown + hidden
  BY TermsInt, SumParts, ChannelsAssumption
<1>2. shown \in Int /\ hidden \in Int
  <2>1. Channels \ mk.channels \in SUBSET Channels /\ Channels \cap mk.channels \in SUBSET Channels
    OBVIOUS
  <2> QED  BY <2>1, TermsInt, SumInt, ChannelsAssumption, FS_Subset
<1>3. Penalty(model, y) \in Int
  BY LikelihoodAssumption
<1>4. NLL(y, k, NoMask) = all + Penalty(model, y)
  <2>1. Channels \ NoMask.channels = Channels /\ ~NoMask.constraints
    BY DEF NoMask
  <2> QED  BY <2>1, Zenon DEF NLL, Terms
<1>5. NLL(y, k, mk) = shown + (IF mk.constraints THEN 0 ELSE Penalty(model, y))
  BY DEF NLL, Terms
<1>6. Hidden(y, k, mk) = hidden + (IF mk.constraints THEN Penalty(model, y) ELSE 0)
  BY DEF Hidden, Terms
<1> HIDE DEF all, shown, hidden
<1> QED  BY <1>1, <1>2, <1>3, <1>4, <1>5, <1>6

\* Masking keeps the value.
LEMMA MaskingKeeps ==
  ASSUME model \in Models, NEW y \in [Pars -> Vals], NEW k \in Indexings, NEW old, NEW new
  PROVE  MaskedOffset(Hidden(y, k, old), y, k, old, new) = Hidden(y, k, new)
<1>1. /\ NLL(y, k, old) \in Int /\ NLL(y, k, new) \in Int
      /\ Hidden(y, k, old) \in Int /\ Hidden(y, k, new) \in Int
  BY NLLInt, HiddenInt
<1>2. NLL(y, k, old) + Hidden(y, k, old) = NLL(y, k, new) + Hidden(y, k, new)
  BY ShownAndHidden
<1> QED  BY <1>1, <1>2 DEF MaskedOffset

LEMMA NothingHidden ==
  ASSUME NEW y, NEW k
  PROVE  Hidden(y, k, NoMask) = 0
<1>1. Channels \cap NoMask.channels = {} /\ ~NoMask.constraints
  BY DEF NoMask
<1>2. SumFunctionOnSet(Terms(y, k), Channels \cap NoMask.channels) = 0
  BY <1>1, SumEmpty, Zenon
<1> QED  BY <1>1, <1>2 DEF Hidden, Terms

\* What is hidden does not change with what it does not depend on.
LEMMA SeenOf ==
  ASSUME NEW h \in Channels, NEW k \in Indexings
  PROVE  Seen(h, k) \subseteq ParsOf(h) /\ ParsOf(h) \subseteq Pars
<1>1. \A c \in ChanCats[h] : c \in Cats /\ k[c] \in AllIndices
  BY ChannelsAssumption DEF Indexings
<1>2. \A c \in ChanCats[h] : PdfPars[c][k[c]] \subseteq ParsOf(h)
  BY <1>1 DEF ParsOf
<1>3. ParsOf(h) \subseteq Pars
  BY CatsAssumption, ChannelsAssumption DEF ParsOf
<1> QED  BY <1>2, <1>3 DEF Seen, ParsOf

LEMMA HiddenEqual ==
  ASSUME model \in Models, NEW y \in [Pars -> Vals], NEW z \in [Pars -> Vals],
         NEW k \in Indexings, NEW l \in Indexings, NEW mk,
         \A h \in Channels \cap mk.channels :
           (\A p \in Seen(h, k) : y[p] = z[p]) /\ (\A c \in ChanCats[h] : k[c] = l[c]),
         mk.constraints => \A p \in Constrained : y[p] = z[p]
  PROVE  Hidden(y, k, mk) = Hidden(z, l, mk)
<1>1. \A h \in Channels \cap mk.channels : Terms(y, k)[h] = Terms(z, l)[h]
  BY LikelihoodAssumption DEF Terms
<1>2. IsFiniteSet(Channels \cap mk.channels)
  <2>1. Channels \cap mk.channels \in SUBSET Channels
    OBVIOUS
  <2> QED  BY <2>1, ChannelsAssumption, FS_Subset
<1>3. SumFunctionOnSet(Terms(y, k), Channels \cap mk.channels)
        = SumFunctionOnSet(Terms(z, l), Channels \cap mk.channels)
  BY <1>1, <1>2, SumEqual
<1>4. mk.constraints => Penalty(model, y) = Penalty(model, z)
  BY LikelihoodAssumption
<1> QED  BY <1>3, <1>4 DEF Hidden, Terms

LEMMA FreezeBounds ==
  ASSUME NEW cst, NEW k
  PROVE  Freeze(cst, k) \subseteq cst \cup Extra /\ Float(cst, k) \subseteq cst
  BY DEF Freeze, Float, Disassociated, Extra

LEMMA ImprovedBounds ==
  ASSUME Typed, NEW y \in [Pars -> Vals], NEW k, NEW cst \in SUBSET Pars, NEW mk,
         NEW force, NEW r \in Improved(y, k, cst, mk, force)
  PROVE  r.const \subseteq cst \cup Extra /\ Float(r.const, k) \subseteq cst \cup Extra
<1> DEFINE fr == Freeze(cst, k)
<1>1. r.const = Float(fr, k)
  BY ImprovedEnds
<1>2. fr \subseteq cst \cup Extra
  BY FreezeBounds
<1> HIDE DEF fr
<1>3. r.const \subseteq fr
  BY <1>1, FreezeBounds
<1> QED  BY <1>2, <1>3, FreezeBounds

LEMMA LayersInit ==
  ASSUME Init
  PROVE  Layers
  BY DEF Init, Layers, NoLoop

LEMMA LayersCall ==
  ASSUME HeldInv, Layers, Call
  PROVE  Layers'
<1>1. start'.const = const'
  BY DEF Call
<1> QED  BY <1>1 DEF Call, Layers, Extra

LEMMA LayersPreFit ==
  ASSUME HeldInv, Layers, PreFit
  PROVE  Layers'
<1> DEFINE frozen == Constrained \ Freeze(const, idx)
           held == Freeze(Freeze(const, idx) \cup frozen, idx)
<1>1. Freeze(const, idx) \subseteq const \cup Extra
  BY FreezeBounds
<1>2. held \subseteq (Freeze(const, idx) \cup frozen) \cup Extra
  <2> DEFINE all == Freeze(const, idx) \cup frozen
  <2>1. held = Freeze(all, idx)
    OBVIOUS
  <2> HIDE DEF all, held
  <2>2. held \subseteq all \cup Extra
    BY <2>1, FreezeBounds
  <2> QED  BY <2>2 DEF all
<1>3. held \ frozen \subseteq const \cup Extra
  BY <1>1, <1>2
<1>4. const' \subseteq held \ frozen
  BY FreezeBounds DEF PreFit
<1>5. const \ start.const \subseteq Extra
  BY DEF PreFit, Layers, HeldInv, Holding
<1>6. const' \ start.const \subseteq Extra
  BY <1>3, <1>4, <1>5
<1>7. loop'.frozen = {} /\ start' = start /\ Extra' = Extra /\ mask' = NoMask /\ offset' = 0 /\ pc' = "first"
  BY DEF PreFit, Layers, HeldInv, Holding, Extra
<1> QED  BY <1>6, <1>7 DEF Layers

LEMMA LayersFirst ==
  ASSUME HeldInv, Layers, First
  PROVE  Layers'
<1>1. /\ const \ start.const \subseteq Extra /\ x \in [Pars -> Vals] /\ const \in SUBSET Pars
      /\ mask = NoMask /\ offset = 0 /\ loop.frozen = {}
  BY DEF First, Layers, HeldInv, Holding, Typed, TypeOK
<1>2. Freeze(const, idx) \in SUBSET Pars /\ Freeze(const, idx) \subseteq const \cup Extra
  BY <1>1, FrozenTypes, FreezeBounds
<1>3. start' = start /\ Extra' = Extra /\ mask' = mask /\ offset' = offset /\ opt' = opt
  BY DEF First, Extra
<1>4. CASE opt.short
  <2>1. PICK r \in Improved(x, idx, Freeze(const, idx), mask, opt.analytic) :
          const' = r.const /\ pc' = "iterate" /\ UNCHANGED loop
    BY <1>4 DEF First
  <2>2. const' \subseteq Freeze(const, idx) \cup Extra
    BY <1>1, <1>2, <2>1, ImprovedBounds DEF HeldInv
  <2> QED  BY <1>1, <1>2, <1>3, <2>1, <2>2 DEF Layers
<1>5. CASE ~opt.short
  <2>1. const' = Freeze(const, idx) /\ loop' = [NoLoop EXCEPT !.clean = x] /\ pc' = "multi"
    BY <1>5 DEF First
  <2>2. loop'.frozen = {}
    BY <2>1 DEF NoLoop
  <2> QED  BY <1>1, <1>2, <1>3, <1>5, <2>1, <2>2 DEF Layers
<1> QED  BY <1>4, <1>5

LEMMA LayersIterate ==
  ASSUME HeldInv, Layers, Iterate
  PROVE  Layers'
<1> DEFINE cst == Freeze(const, idx)
<1>1. const \ start.const \subseteq Extra /\ mask = NoMask /\ offset = 0
  BY DEF Iterate, Layers, HeldInv, Holding
<1>2. cst \subseteq const \cup Extra
  BY FreezeBounds
<1>3. /\ const' = cst \cup FrozenForScan(cst)
      /\ loop' = [NoLoop EXCEPT !.clean = [p \in Pars \ const' |-> x[p]], !.frozen = FrozenForScan(cst)]
      /\ pc' = "multi" /\ start' = start /\ Extra' = Extra /\ mask' = mask /\ offset' = offset
  BY DEF Iterate, Extra
<1>4. loop'.frozen = FrozenForScan(cst) /\ DOMAIN loop'.clean = Pars \ const'
  BY <1>3 DEF NoLoop
<1>5. Pars \ MultiPars \subseteq cst \cup FrozenForScan(cst)
  BY DEF FrozenForScan
<1> HIDE DEF cst
<1>6. const' \ (start'.const \cup loop'.frozen) \subseteq Extra'
  BY <1>1, <1>2, <1>3, <1>4
<1>7. Pars \ MultiPars \subseteq const' /\ DOMAIN loop'.clean \subseteq MultiPars
  BY <1>3, <1>4, <1>5
<1> QED  BY <1>1, <1>3, <1>6, <1>7 DEF Layers

\* What is masked between two combinations does not move.
LEMMA MaskIsStill ==
  ASSUME HeldInv, Layers, Maskable, pc = "combo",
         NEW z \in [Pars -> Vals], NEW l \in Indexings,
         opt.short => \A p \in Pars \ MultiPars : z[p] = x[p]
  PROVE  Hidden(x, idx, mask) = Hidden(z, l, mask)
<1>1. /\ model \in Models /\ x \in [Pars -> Vals] /\ idx \in Indexings /\ opt \in Options
      /\ mask.channels \subseteq Channels
  BY DEF HeldInv, Typed, TypeOK
<1>2. MaskChannels # 0 => opt.disassociate /\ opt.channels # 0
  BY DEF MaskChannels
<1>3. ASSUME NEW h \in Channels \cap mask.channels
      PROVE  (\A p \in ParsOf(h) : x[p] = z[p]) /\ (\A c \in ChanCats[h] : idx[c] = l[c])
  <2>1. mask.channels # {} /\ ChanCats[h] = {}
    BY <1>3 DEF Layers, NonDiscrete
  <2>2. opt.disassociate /\ opt.channels # 0
    BY <1>2, <2>1 DEF Layers
  <2>3. opt.short /\ ParsOf(h) \cap MultiPars = {}
    BY <1>1, <2>1, <2>2 DEF Maskable
  <2>4. ParsOf(h) \subseteq Pars
    BY <2>1, ChannelsAssumption DEF ParsOf
  <2> QED  BY <2>1, <2>3, <2>4
<1>4. ASSUME mask.constraints PROVE \A p \in Constrained : x[p] = z[p]
  <2>1. opt.disassociate /\ opt.hide /\ opt.constraints
    BY <1>4 DEF Layers, Hides
  <2>2. opt.short /\ Constrained \cap MultiPars = {}
    BY <1>1, <2>1 DEF Maskable
  <2> QED  BY <2>2, ChannelsAssumption
<1>5. \A h \in Channels \cap mask.channels : \A p \in Seen(h, idx) : x[p] = z[p]
  BY <1>1, <1>3, SeenOf
<1> QED  BY <1>1, <1>3, <1>4, <1>5, HiddenEqual

LEMMA LayersStartMultiple ==
  ASSUME HeldInv, Layers, StartMultiple
  PROVE  Layers'
<1> DEFINE mk1 == IF MaskChannels # 0 THEN WithChannels(mask, {}) ELSE mask
           mk2 == IF Hides /\ opt.constraints THEN [mk1 EXCEPT !.constraints = TRUE] ELSE mk1
<1>1. /\ mask' = mk2
      /\ offset' = MaskedOffset(MaskedOffset(offset, x, idx, mask, mk1), x, idx, mk1, mk2)
      /\ pc' = "combo" /\ pc = "multi" /\ UNCHANGED <<model, opt, x, idx, const, start>>
  BY DEF StartMultiple
<1>2. /\ x \in [Pars -> Vals] /\ idx \in Indexings /\ model \in Models
      /\ mask = NoMask /\ offset = 0
  BY <1>1 DEF HeldInv, Typed, TypeOK, Layers
<1>3. /\ MaskChannels = 0 => ~mk2.on /\ mk2.channels = {}
      /\ mk2.channels \subseteq NonDiscrete({})
      /\ mk2.constraints => Hides /\ opt.constraints
  BY <1>2 DEF NoMask, WithChannels
<1>4. offset' = Hidden(x, idx, mk2)
  <2> HIDE DEF mk1, mk2
  <2>1. offset = Hidden(x, idx, mask)
    BY <1>2, NothingHidden
  <2>2. MaskedOffset(offset, x, idx, mask, mk1) = Hidden(x, idx, mk1)
    BY <1>2, <2>1, MaskingKeeps
  <2> QED  BY <1>1, <1>2, <2>2, MaskingKeeps
<1>6. /\ loop'.frozen = loop.frozen /\ loop'.clean = loop.clean /\ loop'.best.x = x
  BY DEF StartMultiple, HeldInv, Typed, Locals
<1>7. Extra' = Extra /\ MaskChannels' = MaskChannels /\ Hides' = Hides
  BY <1>1 DEF Extra, MaskChannels, Hides
<1>8. offset' = Hidden(x, idx, mask)'
  BY <1>1, <1>4 DEF Hidden
<1> HIDE DEF mk1, mk2
<1> QED  BY <1>1, <1>3, <1>6, <1>7, <1>8 DEF Layers, NonDiscrete

LEMMA LayersSkip ==
  ASSUME HeldInv, Layers, Maskable, SkipCombination
  PROVE  Layers'
<1>1. pc = "combo" /\ UNCHANGED <<model, opt, pc, x, const, mask, offset, start>>
  BY DEF SkipCombination
<1>2. x \in [Pars -> Vals] /\ idx' \in Indexings
  BY TypedSkip DEF HeldInv, Typed, TypeOK
<1>3. Hidden(x, idx, mask) = Hidden(x, idx', mask)
  BY <1>1, <1>2, MaskIsStill
<1>4. offset' = Hidden(x, idx, mask)'
  BY <1>1, <1>3 DEF Layers, Hidden
<1>5. loop'.frozen = loop.frozen /\ loop'.clean = loop.clean /\ loop'.best = loop.best
  BY DEF SkipCombination, HeldInv, Typed, Locals
<1>6. Extra' = Extra /\ MaskChannels' = MaskChannels /\ Hides' = Hides
  BY <1>1 DEF Extra, MaskChannels, Hides
<1> QED  BY <1>1, <1>4, <1>5, <1>6 DEF Layers, NonDiscrete

\* What is masked during the fit of a combination is not fitted by it.
LEMMA MaskedIsStill ==
  ASSUME HeldInv, Layers, Maskable, pc = "combo",
         NEW k \in Indexings, NEW z \in [Pars -> Vals],
         MaskChannels = 2 => \A p \in Pars \ Listed(MaskDuring(k)) : z[p] = Cleaned[p],
         opt.short => \A p \in Pars \ MultiPars : Cleaned[p] = x[p] /\ z[p] = x[p],
         Cleaned \in [Pars -> Vals]
  PROVE  Hidden(Cleaned, k, MaskDuring(k)) = Hidden(z, k, MaskDuring(k))
<1> DEFINE mk == MaskDuring(k)
<1>1. /\ model \in Models /\ x \in [Pars -> Vals] /\ opt \in Options
      /\ mask \in Masks
  BY DEF HeldInv, Typed, TypeOK, Masks
<1>2. mk.constraints = mask.constraints
  BY <1>1 DEF MaskDuring, WithChannels, Masks
<1>3. ASSUME NEW h \in Channels \cap mk.channels
      PROVE  \A p \in ParsOf(h) : Cleaned[p] = z[p]
  <2>1. ParsOf(h) \subseteq Pars
    BY CatsAssumption, ChannelsAssumption DEF ParsOf
  <2>2. CASE MaskChannels = 2
    <3>1. opt.disassociate /\ opt.channels = 2
      BY <2>2 DEF MaskChannels
    <3>2. /\ opt.short
          /\ \A g \in Channels : ParsOf(g) \cap ParsOf(h) \cap MultiPars # {} => ChanCats[g] = ChanCats[h]
      BY <1>1, <3>1 DEF Maskable
    <3>3. mk.on /\ mk.channels = NonDiscrete(Cats \ Scanned(k))
      BY <1>1, <2>2 DEF MaskDuring, WithChannels, Masks
    <3>4. ASSUME NEW p \in ParsOf(h), p \in MultiPars PROVE Cleaned[p] = z[p]
      <4>1. p \notin Listed(mk)
        <5>1. SUFFICES ASSUME NEW g \in Channels \ mk.channels, p \in ParsOf(g) PROVE FALSE
          BY <3>3 DEF Listed
        <5>2. ChanCats[g] = ChanCats[h]
          BY <3>2, <3>4, <5>1
        <5> QED  BY <3>3, <5>2 DEF NonDiscrete
      <4> QED  BY <2>1, <2>2, <4>1
    <3> QED  BY <2>1, <3>2, <3>4
  <2>3. CASE MaskChannels # 2
    <3>1. mk = mask
      BY <2>3 DEF MaskDuring
    <3>2. mask.channels # {} /\ ChanCats[h] = {}
      BY <1>3, <3>1 DEF Layers, NonDiscrete
    <3>3. opt.disassociate /\ opt.channels # 0
      BY <3>2 DEF Layers, MaskChannels
    <3>4. opt.short /\ ParsOf(h) \cap MultiPars = {}
      BY <1>1, <3>2, <3>3 DEF Maskable
    <3> QED  BY <2>1, <3>4
  <2> QED  BY <2>2, <2>3
<1>4. ASSUME mk.constraints PROVE \A p \in Constrained : Cleaned[p] = z[p]
  <2>1. opt.disassociate /\ opt.hide /\ opt.constraints
    BY <1>2, <1>4 DEF Layers, Hides
  <2>2. opt.short /\ Constrained \cap MultiPars = {}
    BY <1>1, <2>1 DEF Maskable
  <2> QED  BY <2>2, ChannelsAssumption
<1> HIDE DEF mk
<1>5. \A h \in Channels \cap mk.channels : \A p \in Seen(h, k) : Cleaned[p] = z[p]
  BY <1>3, SeenOf
<1>6. Hidden(Cleaned, k, mk) = Hidden(z, k, mk)
  BY <1>1, <1>4, <1>5, HiddenEqual
<1> QED  BY <1>6 DEF mk

LEMMA LayersFitCombination ==
  ASSUME HeldInv, Layers, Maskable, FitCombination
  PROVE  Layers'
<1> DEFINE k == NextCombination
           mk1 == MaskDuring(k)
           mk2 == MaskAfter(k)
           o1 == MaskedOffset(offset, Cleaned, k, mask, mk1)
<1>1. /\ pc = "combo" /\ k \in Indexings /\ Cleaned \in [Pars -> Vals]
      /\ loop' = [mode |-> loop.mode, from |-> loop.from, todo |-> Left, fits |-> loop.fits + 1,
                  clean |-> loop.clean, best |-> loop'.best, frozen |-> loop.frozen,
                  allowed |-> loop'.allowed]
      /\ idx' = k /\ UNCHANGED <<model, opt, pc, prevNLL, iterations, start, calls>>
  BY FitCombinationStep DEF HeldInv
<1>2. PICK r \in Improved(Cleaned, k, Freeze(const, k), mk1, opt.disassociate) :
        /\ x' = r.x /\ const' = Float(r.const, k)
        /\ mask' = mk2 /\ offset' = MaskedOffset(o1, r.x, k, mk1, mk2)
        /\ loop'.best \in {loop.best, Better(loop.best, r.x, k)}
  BY FitCombinationStep DEF HeldInv
<1>3. /\ model \in Models /\ x \in [Pars -> Vals] /\ idx \in Indexings /\ mask \in Masks
      /\ const \in SUBSET Pars /\ Freeze(const, k) \in SUBSET Pars
  BY FrozenTypes DEF HeldInv, Typed, TypeOK, Masks
<1> HIDE DEF k, mk1, mk2
\* Constants.
<1>4. const' \subseteq const \cup Extra
  <2>1. Float(r.const, k) \subseteq Freeze(const, k) \cup Extra
    BY <1>1, <1>3, ImprovedBounds DEF HeldInv
  <2>2. Freeze(const, k) \subseteq const \cup Extra
    BY FreezeBounds
  <2> QED  BY <1>2, <2>1, <2>2
<1>5. ASSUME opt.short PROVE Pars \ MultiPars \subseteq const' /\ \A p \in Pars \ MultiPars : r.x[p] = Cleaned[p]
  <2> DEFINE H == Pars \ MultiPars
  <2>1. H \in SUBSET const /\ H \cap MultiPars = {}
    BY <1>1, <1>5 DEF Layers
  <2> HIDE DEF H
  <2>2. H \in SUBSET Freeze(const, k)
    BY <2>1, FreezeKeeps
  <2>3. H \subseteq Float(r.const, k) /\ \A p \in H : r.x[p] = Cleaned[p]
    BY <1>1, <1>3, <2>1, <2>2, ImprovedHolds DEF HeldInv
  <2> QED  BY <1>2, <2>3 DEF H
<1>6. ASSUME opt.short PROVE \A p \in Pars \ MultiPars : Cleaned[p] = x[p]
  <2>1. DOMAIN loop.clean \subseteq MultiPars
    BY <1>1, <1>6 DEF Layers
  <2> QED  BY <2>1 DEF Cleaned
\* The offset.
<1>7. r.x \in [Pars -> Vals] /\ (MaskChannels = 2 => \A p \in Pars \ Listed(mk1) : r.x[p] = Cleaned[p])
  <2>1. /\ r.x \in [Pars -> Vals] /\ \A p \in Pars \ r.list : r.x[p] = Cleaned[p]
        /\ opt.disassociate => r.list = Listed(mk1)
    <3>1. r.x \in [Pars -> Vals] /\ \A p \in Pars \ r.list : r.x[p] = Cleaned[p]
      <4>1. r.x \in [Pars -> Vals]
        BY <1>1, <1>3, ImprovedEnds DEF HeldInv
      <4>2. ASSUME NEW p \in Pars, p \notin r.list PROVE r.x[p] = Cleaned[p]
        BY <4>2, ImprovedUnlisted
      <4> QED  BY <4>1, <4>2
    <3>2. ASSUME opt.disassociate PROVE r.list = Listed(mk1)
      BY <3>2, ImprovedForced, Zenon
    <3> QED  BY <3>1, <3>2
  <2>2. MaskChannels = 2 => opt.disassociate
    BY DEF MaskChannels
  <2> QED  BY <2>1, <2>2
<1>8. o1 = Hidden(Cleaned, k, mk1)
  <2>1. offset = Hidden(Cleaned, k, mask)
    BY <1>1, <1>6, MaskIsStill DEF Layers
  <2> QED  BY <1>1, <1>3, <2>1, MaskingKeeps
<1>9. Hidden(Cleaned, k, mk1) = Hidden(r.x, k, mk1)
  BY <1>1, <1>5, <1>6, <1>7, MaskedIsStill DEF mk1
<1>10. offset' = Hidden(r.x, k, mk2)
  <2> HIDE DEF o1
  <2> QED  BY <1>1, <1>2, <1>3, <1>7, <1>8, <1>9, MaskingKeeps
<1>11. offset' = Hidden(x, idx, mask)'
  BY <1>1, <1>2, <1>10 DEF Hidden
\* The mask that stays.
<1>12. /\ MaskChannels = 0 => ~mask'.on /\ mask'.channels = {}
       /\ mask'.channels \subseteq NonDiscrete({})
       /\ mask'.constraints => Hides /\ opt.constraints
  <2>1. /\ MaskChannels = 0 => ~mask.on /\ mask.channels = {}
        /\ mask.channels \subseteq NonDiscrete({})
        /\ mask.constraints => Hides /\ opt.constraints
    BY <1>1 DEF Layers
  <2>2. CASE MaskChannels = 2
    <3>1. mask'.channels = {} /\ mask'.constraints = mask.constraints
      BY <1>2, <1>3, <2>2 DEF mk2, MaskAfter, MaskDuring, WithChannels, WithoutChannels, Masks
    <3> QED  BY <2>1, <2>2, <3>1
  <2>3. CASE MaskChannels # 2
    BY <1>2, <2>1, <2>3 DEF mk2, MaskAfter, MaskDuring
  <2> QED  BY <2>2, <2>3
<1>13. opt.short => \A p \in Pars \ MultiPars : loop'.best.x[p] = x'[p]
  BY <1>1, <1>2, <1>5, <1>6 DEF Better, Layers
<1>14. loop'.frozen = loop.frozen /\ loop'.clean = loop.clean
  BY <1>1
<1>15. Extra' = Extra /\ MaskChannels' = MaskChannels /\ Hides' = Hides
  BY <1>1 DEF Extra, MaskChannels, Hides
<1>16. const' \ (start.const \cup loop.frozen) \subseteq Extra
  BY <1>4 DEF Layers
<1>17. opt.short => Pars \ MultiPars \subseteq const' /\ DOMAIN loop.clean \subseteq MultiPars
  BY <1>1, <1>5 DEF Layers
<1> HIDE DEF o1
<1> QED  BY <1>1, <1>11, <1>12, <1>13, <1>14, <1>15, <1>16, <1>17 DEF Layers, NonDiscrete

LEMMA LayersEndMultiple ==
  ASSUME HeldInv, Layers, Maskable, EndMultiple
  PROVE  Layers'
<1>1. /\ pc = "combo" /\ x' = loop.best.x /\ idx' = loop.best.idx /\ mask' = MaskEnd2
      /\ offset' = MaskedOffset(MaskedOffset(offset, x', idx', mask, MaskEnd1), x', idx', MaskEnd1, MaskEnd2)
      /\ UNCHANGED <<model, opt, const, start>> /\ pc' \in {"full", "multi", "last"}
      /\ pc' = "full" \/ ~opt.short
  BY DEF EndMultiple, MaskEnd1, MaskEnd2
<1>2. x' \in [Pars -> Vals] /\ idx' \in Indexings /\ model \in Models /\ mask \in Masks
  BY <1>1 DEF HeldInv, Typed, TypeOK, Locals, Masks
<1>3. mask' = NoMask
  <2>1. MaskEnd1 \in Masks /\ ~MaskEnd1.on /\ MaskEnd1.channels = {} /\ MaskEnd1.constraints = mask.constraints
    BY <1>1, <1>2 DEF MaskEnd1, WithoutChannels, Layers, Masks
  <2>2. MaskEnd2 \in Masks /\ ~MaskEnd2.on /\ MaskEnd2.channels = {} /\ ~MaskEnd2.constraints
    BY <1>1, <2>1 DEF MaskEnd2, Layers, Masks
  <2> QED  BY <1>1, <2>2 DEF Masks, NoMask
<1>4. offset = Hidden(x', idx', mask)
  <2>1. opt.short => \A p \in Pars \ MultiPars : x'[p] = x[p]
    BY <1>1 DEF Layers
  <2>2. offset = Hidden(x, idx, mask)
    BY <1>1 DEF Layers
  <2> QED  BY <1>1, <1>2, <2>1, <2>2, MaskIsStill
<1>5. offset' = Hidden(x', idx', MaskEnd2)
  <2>1. MaskedOffset(offset, x', idx', mask, MaskEnd1) = Hidden(x', idx', MaskEnd1)
    BY <1>2, <1>4, MaskingKeeps
  <2> QED  BY <1>1, <1>2, <2>1, MaskingKeeps
<1>6. offset' = 0
  BY <1>1, <1>3, <1>5, NothingHidden
<1>7. loop'.frozen = loop.frozen
  BY DEF EndMultiple, HeldInv, Typed, Locals
<1>8. Extra' = Extra
  BY <1>1 DEF Extra
<1> QED  BY <1>1, <1>3, <1>6, <1>7, <1>8 DEF Layers

LEMMA LayersFullFit ==
  ASSUME HeldInv, Layers, FullFit
  PROVE  Layers'
<1>1. /\ pc = "full" /\ x \in [Pars -> Vals] /\ const \in SUBSET Pars /\ Unfrozen(const) \in SUBSET Pars
      /\ Unfrozen(const) \ start.const \subseteq Extra /\ mask = NoMask /\ offset = 0
  BY DEF FullFit, Again, Layers, HeldInv, Typed, TypeOK, Unfrozen
<1>2. PICK r \in Improved(x, idx, Unfrozen(const), mask, opt.analytic) : const' = Float(r.const, idx)
  BY DEF FullFit, Again
<1>3. const' \subseteq Unfrozen(const) \cup Extra
  BY <1>1, <1>2, ImprovedBounds DEF HeldInv
<1>4. loop'.frozen = {} /\ pc' \in {"end", "iterate"}
  BY DEF FullFit, Again, NoLoop
<1>5. start' = start /\ Extra' = Extra /\ mask' = mask /\ offset' = offset
  BY DEF FullFit, Again, Extra
<1> QED  BY <1>1, <1>3, <1>4, <1>5 DEF Layers

LEMMA LayersLastFit ==
  ASSUME HeldInv, Layers, LastFit
  PROVE  Layers'
<1>1. /\ pc = "last" /\ x \in [Pars -> Vals] /\ const \in SUBSET Pars /\ Freeze(const, idx) \in SUBSET Pars
      /\ const \ start.const \subseteq Extra /\ mask = NoMask /\ offset = 0 /\ loop.frozen = {}
  BY FrozenTypes DEF LastFit, Layers, HeldInv, Holding, Typed, TypeOK
<1>2. Freeze(const, idx) \subseteq const \cup Extra
  BY FreezeBounds
<1>3. const' \subseteq const \cup Extra
  <2>1. CASE opt.disassociate
    <3>1. PICK r \in Improved(x, idx, Freeze(const, idx), mask, TRUE) : const' = Float(r.const, idx)
      BY <2>1 DEF LastFit
    <3>2. PICK force \in BOOLEAN : r \in Improved(x, idx, Freeze(const, idx), mask, force)
      BY Zenon
    <3>3. const' \subseteq Freeze(const, idx) \cup Extra
      BY <1>1, <3>1, <3>2, ImprovedBounds DEF HeldInv
    <3> QED  BY <1>2, <3>3
  <2>2. CASE ~opt.disassociate
    BY <2>2 DEF LastFit
  <2> QED  BY <2>1, <2>2
<1>4. start' = start /\ Extra' = Extra /\ mask' = mask /\ offset' = offset /\ loop' = loop /\ pc' = "end"
  BY DEF LastFit, Extra
<1> QED  BY <1>1, <1>3, <1>4 DEF Layers

LEMMA LayersEnd ==
  ASSUME HeldInv, Layers, End
  PROVE  Layers'
<1>1. /\ pc = "end" /\ loop.frozen = {} /\ const \ start.const \subseteq Extra
      /\ start.const \subseteq const /\ start.const \cap MultiPars = {}
      /\ mask = NoMask /\ offset = 0
  BY DEF End, Layers, HeldInv, Holding
<1>2. Float(const, idx) = start.const
  <2>1. CASE opt.disassociate
    BY <1>1, <2>1 DEF Float, Disassociated, Extra
  <2>2. CASE ~opt.disassociate
    BY <1>1, <2>2 DEF Float, Extra
  <2> QED  BY <2>1, <2>2
<1>3. const' = start'.const /\ pc' = "idle" /\ UNCHANGED <<mask, offset, loop, opt>>
  BY <1>2 DEF End
<1> QED  BY <1>1, <1>3 DEF Layers

LEMMA LayersStep ==
  ASSUME HeldInv, Layers, Maskable, [Next]_vars
  PROVE  Layers'
<1>1. CASE Next
  BY <1>1, LayersCall, LayersPreFit, LayersFirst, LayersIterate, LayersStartMultiple, LayersSkip,
     LayersFitCombination, LayersEndMultiple, LayersFullFit, LayersLastFit, LayersEnd DEF Next
<1>2. CASE UNCHANGED vars
  BY <1>2 DEF vars, Layers, Extra, MaskChannels, Hides, Hidden, NonDiscrete
<1> QED  BY <1>1, <1>2

\* minimize() gives back the constants it was given, with nothing masked and no
\* offset left, for every likelihood and whatever fits fail, when what it masks
\* depends on nothing that floats (CachingSimNLL, freezeDiscParams).
THEOREM CallsLeaveNothing == FixedApart /\ Maskable => (Spec => []LeftAsFound)
<1> SUFFICES ASSUME FixedApart, Maskable PROVE Spec => []LeftAsFound
  OBVIOUS
<1>1. Init => LeftInv
  BY TypedInit, HoldingInit, LayersInit DEF LeftInv, HeldInv
<1>2. LeftInv /\ [Next]_vars => LeftInv'
  BY TypedStep, HoldingStep, LayersStep DEF LeftInv, HeldInv
<1>3. LeftInv => LeftAsFound
  BY DEF LeftInv, Layers, LeftAsFound, Returned
<1> QED  BY <1>1, <1>2, <1>3, PTL DEF Spec

-----------------------------------------------------------------------------
(* What a fit that succeeds has found.                                     *)

LEMMA PointsFinite == IsFiniteSet([Pars -> Vals])
<1> DEFINE P == Pars \X Vals
           graph == [y \in [Pars -> Vals] |-> {<<p, y[p]>> : p \in Pars}]
<1>1. IsFiniteSet(SUBSET P)
  BY ValuesAssumption, FS_Product, FS_SUBSET
<1>2. graph \in Injection([Pars -> Vals], SUBSET P)
  <2>1. graph \in [[Pars -> Vals] -> SUBSET P]
    OBVIOUS
  <2>2. ASSUME NEW y \in [Pars -> Vals], NEW z \in [Pars -> Vals], graph[y] = graph[z] PROVE y = z
    <3>1. ASSUME NEW p \in Pars PROVE y[p] = z[p]
      <4>1. <<p, y[p]>> \in graph[z]
        BY <2>2
      <4>2. PICK q \in Pars : <<p, y[p]>> = <<q, z[q]>>
        BY <4>1
      <4> QED  BY <4>2
    <3> QED  BY <3>1
  <2> HIDE DEF P, graph
  <2> QED  BY <2>1, <2>2 DEF Injection, IsInjective
<1> HIDE DEF P, graph
<1> QED  BY <1>1, <1>2, FS_Injection

LEMMA SmallestIn ==
  ASSUME NEW S, IsFiniteSet(S), S # {}, NEW f, \A s \in S : f[s] \in Int
  PROVE  \E m \in S : \A s \in S : f[m] <= f[s]
<1> DEFINE B == {T \in SUBSET S : T # {} /\ \A m \in T : \E s \in T : ~(f[m] <= f[s])}
<1>1. SUFFICES ASSUME B # {} PROVE FALSE
  OBVIOUS
<1>2. PICK T \in B : \A u \in B : u \subseteq T => u = T
  <2>1. B \in SUBSET SUBSET S
    OBVIOUS
  <2> HIDE DEF B
  <2> QED  BY <1>1, <2>1, SmallestSubset
<1>3. PICK e \in T : TRUE
  BY <1>2
<1>4. T \ {e} \notin B
  BY <1>2, <1>3
<1>5. CASE T \ {e} = {}
  BY <1>2, <1>3, <1>5
<1>6. CASE T \ {e} # {}
  <2>1. PICK m \in T \ {e} : \A s \in T \ {e} : f[m] <= f[s]
    BY <1>2, <1>4, <1>6
  <2>2. \A s \in T : f[s] \in Int
    BY <1>2
  <2>3. CASE f[m] <= f[e]
    BY <1>2, <2>1, <2>3
  <2>4. CASE ~(f[m] <= f[e])
    <3>1. \A s \in T : f[e] <= f[s]
      BY <2>1, <2>2, <2>4, <1>3
    <3> QED  BY <1>2, <1>3, <3>1
  <2> QED  BY <2>3, <2>4
<1> QED  BY <1>5, <1>6

LEMMA BestIsLeast ==
  ASSUME model \in Models, NEW y \in [Pars -> Vals], NEW k \in Indexings, NEW mk, NEW F
  PROVE  /\ Best(y, k, mk, F) \in {NLL(z, k, mk) : z \in Ends(y, F)}
         /\ \A z \in Ends(y, F) : Best(y, k, mk, F) <= NLL(z, k, mk)
<1> DEFINE S == {NLL(z, k, mk) : z \in Ends(y, F)}
           E == Ends(y, F)
           f == [z \in E |-> NLL(z, k, mk)]
<1>1. E \subseteq [Pars -> Vals] /\ y \in E
  BY DEF Ends
<1>2. IsFiniteSet(E)
  BY <1>1, PointsFinite, FS_Subset
<1>3. \A z \in E : f[z] \in Int
  BY <1>1, NLLInt
<1>4. PICK z \in E : \A w \in E : f[z] <= f[w]
  <2> HIDE DEF E, f
  <2> QED  BY <1>1, <1>2, <1>3, SmallestIn
<1>5. \E n \in S : \A s \in S : n <= s
  BY <1>4
<1>6. Min(S) \in S /\ \A s \in S : Min(S) <= s
  <2> HIDE DEF S
  <2> QED  BY <1>5 DEF Min
<1> QED  BY <1>6 DEF Best

\* Terms and penalties see what is visible only.
LEMMA NLLEqual ==
  ASSUME model \in Models, NEW y \in [Pars -> Vals], NEW z \in [Pars -> Vals],
         NEW k \in Indexings, NEW l \in Indexings, NEW mk,
         \A h \in Channels \ mk.channels :
           (\A p \in Seen(h, k) : y[p] = z[p]) /\ (\A c \in ChanCats[h] : k[c] = l[c]),
         ~mk.constraints => \A p \in Constrained : y[p] = z[p]
  PROVE  NLL(y, k, mk) = NLL(z, l, mk)
<1>1. \A h \in Channels \ mk.channels : Terms(y, k)[h] = Terms(z, l)[h]
  BY LikelihoodAssumption DEF Terms
<1>2. IsFiniteSet(Channels \ mk.channels)
  <2>1. Channels \ mk.channels \in SUBSET Channels
    OBVIOUS
  <2> QED  BY <2>1, ChannelsAssumption, FS_Subset
<1>3. SumFunctionOnSet(Terms(y, k), Channels \ mk.channels)
        = SumFunctionOnSet(Terms(z, l), Channels \ mk.channels)
  BY <1>1, <1>2, SumEqual
<1>4. ~mk.constraints => Penalty(model, y) = Penalty(model, z)
  BY LikelihoodAssumption
<1> QED  BY <1>3, <1>4 DEF NLL, Terms

\* A successful fit is not worse than any point w that differs from where it
\* started in what it fits, or in what is not visible.
LEMMA FitBeats ==
  ASSUME Typed, NEW y \in [Pars -> Vals], NEW w \in [Pars -> Vals], NEW k \in Indexings,
         NEW cst \in SUBSET Pars, NEW mk, NEW force,
         NEW r \in Improved(y, k, cst, mk, force), r.failed = 0,
         \A h \in Channels \ mk.channels : \A p \in Seen(h, k) :
           w[p] = y[p] \/ p \in r.list \ Freeze(cst, k),
         ~mk.constraints => \A p \in Constrained : w[p] = y[p] \/ p \in r.list \ Freeze(cst, k)
  PROVE  NLL(r.x, k, mk) <= NLL(w, k, mk)
<1> DEFINE known == IF force \/ list = {} THEN Listed(mk) ELSE list
           frozen == Freeze(cst, k)
           F == known \ frozen
           z == [p \in Pars |-> IF p \in F THEN w[p] ELSE y[p]]
<1>1. PICK f \in Fits(y, k, mk, F) :
        r = [x |-> f.x, failed |-> f.failed, const |-> Float(frozen, k), list |-> known]
  BY DEF Improved
<1>2. r.x = f.x /\ r.failed = f.failed /\ r.list = known
  BY <1>1
<1>3. f.x \in Ends(y, F) /\ NLL(f.x, k, mk) = Best(y, k, mk, F)
  BY <1>1, <1>2 DEF Fits
<1>4. z \in Ends(y, F) /\ z \in [Pars -> Vals]
  BY DEF Ends
<1>5. model \in Models
  BY DEF Typed, TypeOK
<1>6. NLL(f.x, k, mk) <= NLL(z, k, mk)
  BY <1>3, <1>4, <1>5, BestIsLeast
<1>7. \A h \in Channels \ mk.channels : \A p \in Seen(h, k) : p \in Pars
  BY SeenOf
<1>8. \A h \in Channels \ mk.channels : \A p \in Seen(h, k) : z[p] = w[p]
  BY <1>2, <1>7
<1>9. ~mk.constraints => \A p \in Constrained : z[p] = w[p]
  BY <1>2, ChannelsAssumption
<1> HIDE DEF z, F
<1>10. NLL(z, k, mk) = NLL(w, k, mk)
  BY <1>4, <1>5, <1>8, <1>9, NLLEqual
<1> QED  BY <1>2, <1>6, <1>10

-----------------------------------------------------------------------------
(* Combinations: each is tried once, and they start from the first.        *)

LEMMA Turns ==
  ASSUME NEW n \in Nat \ {0}, NEW i \in 0..n - 1, NEW f \in 0..n - 1
  PROVE  (i + f) % n = IF i + f < n THEN i + f ELSE i + f - n
<1> DEFINE s == i + f
           q == s \div n
           r == s % n
<1>1. s = n * q + r /\ r \in Int /\ 0 <= r /\ r < n /\ q \in Int
  OBVIOUS
<1>2. s \in Int /\ 0 <= s /\ s < n + n
  OBVIOUS
<1> HIDE DEF s, q, r
<1>3. q < 2
  <2>1. SUFFICES ASSUME q >= 2 PROVE FALSE
    BY <1>1
  <2>2. n * q >= n * 2
    BY <1>1, <2>1
  <2> QED  BY <1>1, <1>2, <2>2
<1>4. q >= 0
  <2>1. SUFFICES ASSUME q <= -1 PROVE FALSE
    BY <1>1
  <2>2. n * q <= n * (-1)
    BY <1>1, <2>1
  <2> QED  BY <1>1, <1>2, <2>2
<1>5. q = 0 \/ q = 1
  BY <1>1, <1>3, <1>4
<1>6. r = IF s < n THEN s ELSE s - n
  BY <1>1, <1>2, <1>5
<1> QED  BY <1>6 DEF s, r

LEMMA IndexIn ==
  ASSUME NEW k \in Indexings, NEW c \in Cats
  PROVE  /\ NPdf[c] \in Nat \ {0} /\ k[c] \in 0..NPdf[c] - 1 /\ c \in Int /\ k[c] \in Int /\ k[c] \in AllIndices
         /\ Present[c] = 0
  BY CatsAssumption DEF Indexings, Indices, Cats, Present

LEMMA ReorderedSame ==
  ASSUME NEW j \in Indexings, NEW k \in Indexings, NEW from \in Indexings, NEW c \in Cats
  PROVE  /\ Reordered(j, from)[c] = Reordered(k, from)[c] <=> j[c] = k[c]
         /\ Reordered(j, from)[c] = from[c] <=> j[c] = 0
<1> DEFINE n == NPdf[c]
           f == from[c]
<1>1. n \in Nat \ {0} /\ j[c] \in 0..n - 1 /\ k[c] \in 0..n - 1 /\ f \in 0..n - 1
  BY IndexIn
<1>2. Reordered(j, from)[c] = (j[c] + f) % n /\ Reordered(k, from)[c] = (k[c] + f) % n
  BY DEF Reordered
<1> HIDE DEF n, f
<1>3. /\ (j[c] + f) % n = IF j[c] + f < n THEN j[c] + f ELSE j[c] + f - n
      /\ (k[c] + f) % n = IF k[c] + f < n THEN k[c] + f ELSE k[c] + f - n
  BY <1>1, Turns
<1>4. Reordered(j, from)[c] = Reordered(k, from)[c] <=> j[c] = k[c]
  BY <1>1, <1>2, <1>3
<1>5. Reordered(j, from)[c] = f <=> j[c] = 0
  BY <1>1, <1>2, <1>3
<1> QED  BY <1>4, <1>5 DEF f

LEMMA ReorderedPresent ==
  ASSUME NEW from \in Indexings
  PROVE  Reordered(Present, from) = from
<1>1. \A c \in Cats : Reordered(Present, from)[c] = from[c]
  BY PresentType, ReorderedSame, IndexIn
<1>2. Reordered(Present, from) \in Indexings
  BY PresentType, ReorderedType
<1> QED  BY <1>1, <1>2 DEF Indexings

\* Every indexing is reached.
LEMMA ReorderedOnto ==
  ASSUME NEW k \in Indexings, NEW from \in Indexings
  PROVE  \E j \in Indexings : Reordered(j, from) = k
<1> DEFINE back(c) == IF k[c] >= from[c] THEN k[c] - from[c] ELSE k[c] - from[c] + NPdf[c]
           j == [c \in Cats |-> back(c)]
<1>1. ASSUME NEW c \in Cats PROVE back(c) \in Indices(c) /\ (back(c) + from[c]) % NPdf[c] = k[c]
  <2> DEFINE n == NPdf[c]
             f == from[c]
             i == k[c]
             b == IF i >= f THEN i - f ELSE i - f + n
  <2>1. n \in Nat \ {0} /\ i \in 0..n - 1 /\ f \in 0..n - 1
    BY IndexIn
  <2>2. back(c) = b
    OBVIOUS
  <2> HIDE DEF n, f, i
  <2>3. b \in 0..n - 1 /\ (IF b + f < n THEN b + f ELSE b + f - n) = i
    BY <2>1
  <2> HIDE DEF b
  <2>4. (b + f) % n = i
    BY <2>1, <2>3, Turns
  <2> HIDE DEF back
  <2>5. b \in Indices(c)
    BY <2>3 DEF Indices, n
  <2> QED  BY <2>2, <2>4, <2>5 DEF n, f, i
<1> HIDE DEF back
<1>2. j \in Indexings
  BY <1>1 DEF Indexings, AllIndices
<1>3. \A c \in Cats : Reordered(j, from)[c] = k[c]
  BY <1>1 DEF Reordered
<1>4. Reordered(j, from) \in Indexings
  BY <1>2, ReorderedType
<1>5. Reordered(j, from) = k
  BY <1>3, <1>4 DEF Indexings
<1> QED  BY <1>2, <1>5

\* Of two combinations one is before the other.
LEMMA BeforeTotal ==
  ASSUME NEW j \in Indexings, NEW k \in Indexings, j # k
  PROVE  Before(j, k) \/ Before(k, j)
<1> DEFINE D == {c \in Cats : j[c] # k[c]}
           f == [c \in D |-> -c]
<1>1. D # {}
  BY DEF Indexings
<1>2. IsFiniteSet(D) /\ \A c \in D : f[c] \in Int
  <2>1. IsFiniteSet(Cats)
    BY CatsAssumption, FS_Interval DEF Cats
  <2>2. IsFiniteSet(D)
    BY <2>1, FS_Subset
  <2> QED  BY <2>2, IndexIn
<1>3. PICK m \in D : \A c \in D : f[m] <= f[c]
  <2> HIDE DEF D, f
  <2> QED  BY <1>1, <1>2, SmallestIn
<1>4. \A d \in Cats : d > m => j[d] = k[d]
  BY <1>3, IndexIn
<1>5. j[m] < k[m] \/ k[m] < j[m]
  BY IndexIn
<1> QED  BY <1>4, <1>5 DEF Before

\* The others follow the first.
LEMMA FirstOfLeads ==
  ASSUME NEW S \in SUBSET Indexings, NEW j \in S, j # FirstOf(S)
  PROVE  Before(FirstOf(S), j)
<1>1. FirstOf(S) \in S /\ ~Before(j, FirstOf(S))
  BY FirstOfIn
<1> QED  BY <1>1, BeforeTotal

LEMMA ChosenType ==
  ASSUME NEW mode
  PROVE  Chosen(mode) \in SUBSET Indexings /\ Present \in Chosen(mode)
<1>1. {c \in Cats : Present[c] # 0} = {}
  BY DEF Present
<1>2. Cardinality({c \in Cats : Present[c] # 0}) <= 1
  BY <1>1, FS_EmptySet
<1> QED  BY <1>2, PresentType DEF Chosen

LEMMA PresentIsFirst ==
  ASSUME NEW mode
  PROVE  FirstOf(Chosen(mode)) = Present
<1> DEFINE S == Chosen(mode)
           f == FirstOf(S)
<1>1. S \in SUBSET Indexings /\ Present \in S
  BY ChosenType
<1> HIDE DEF S
<1>2. f \in Indexings /\ (Present # f => Before(f, Present))
  BY <1>1, FirstOfIn, FirstOfLeads
<1>3. ~Before(f, Present)
  BY <1>2, IndexIn DEF Before
<1> QED  BY <1>2, <1>3 DEF S

\* A combination of modes 0 and 1 changes one category.
LEMMA ChosenChanges ==
  ASSUME NEW j \in Chosen(0), NEW c \in Cats, NEW d \in Cats, j[c] # 0, j[d] # 0
  PROVE  c = d
<1> DEFINE D == {e \in Cats : j[e] # 0}
<1>1. Cardinality(D) <= 1
  BY DEF Chosen
<1>2. IsFiniteSet(D)
  <2>1. IsFiniteSet(Cats)
    BY CatsAssumption, FS_Interval DEF Cats
  <2> QED  BY <2>1, FS_Subset
<1>3. ASSUME c # d PROVE FALSE
  <2>1. {c, d} \subseteq D
    OBVIOUS
  <2> HIDE DEF D
  <2>2. Cardinality({c, d}) <= Cardinality(D)
    BY <1>2, <2>1, FS_Subset
  <2>3. Cardinality({c}) = 1 /\ IsFiniteSet({c})
    BY FS_Singleton
  <2>4. {c, d} = {c} \cup {d} /\ d \notin {c}
    BY <1>3
  <2>5. Cardinality({c, d}) = 2
    BY <2>3, <2>4, FS_AddElement
  <2>6. IsFiniteSet(D) /\ Cardinality(D) \in Nat
    BY <1>2, FS_CardinalityType
  <2> QED  BY <1>1, <2>2, <2>5, <2>6
<1> QED  BY <1>3

LEMMA ChosenHas ==
  ASSUME NEW j \in Indexings, NEW c \in Cats, \A d \in Cats : j[d] # 0 => d = c, NEW mode
  PROVE  j \in Chosen(mode)
<1> DEFINE D == {e \in Cats : j[e] # 0}
<1>1. D = {} \/ D = {c}
  OBVIOUS
<1>2. Cardinality(D) <= 1
  BY <1>1, FS_EmptySet, FS_Singleton
<1> QED  BY <1>2 DEF Chosen

\* Changing one category is one of them.
LEMMA ChosenOnto ==
  ASSUME NEW from \in Indexings, NEW c \in Cats, NEW k \in Indices(c)
  PROVE  \E j \in Chosen(0) : Reordered(j, from) = [from EXCEPT ![c] = k]
<1> DEFINE l == [from EXCEPT ![c] = k]
<1>1. l \in Indexings
  BY DEF Indexings, AllIndices
<1>2. PICK j \in Indexings : Reordered(j, from) = l
  BY <1>1, ReorderedOnto
<1>3. \A d \in Cats : j[d] # 0 => d = c
  <2>1. ASSUME NEW d \in Cats, d # c PROVE j[d] = 0
    <3>1. Reordered(j, from)[d] = from[d]
      BY <1>2, <2>1 DEF Indexings
    <3> QED  BY <3>1, ReorderedSame
  <2> QED  BY <2>1
<1>4. j \in Chosen(0)
  BY <1>3, ChosenHas
<1> QED  BY <1>2, <1>4

\* All indexings are among the combinations of mode 2, or of any with one category.
LEMMA ChosenAll ==
  ASSUME NEW mode, mode = 2 \/ NCats = 1
  PROVE  Chosen(mode) = Indexings
<1>1. ASSUME NCats = 1, NEW j \in Indexings PROVE j \in Chosen(mode)
  <2>1. Cats = {1}
    BY <1>1 DEF Cats
  <2> QED  BY <2>1, ChosenHas
<1> QED  BY <1>1, ChosenType DEF Chosen

-----------------------------------------------------------------------------
(* What a fit is free to change.                                           *)

\* The parameters of the pdfs that categories choose from are theirs alone where
\* those of inactive pdfs are frozen, none of them is of interest, and a
\* minimizer that knows visible channels only is made anew for the last fit
\* (MINIMIZER_no_analytic is not set where channels are masked).
Separate ==
  /\ POIs \cap MultiPars = {}
  /\ \A o \in Options : o.disassociate =>
       /\ Constrained \cap MultiPars = {}
       /\ \A h \in Channels : ChanPars[h] \cap MultiPars = {}
       /\ o.channels # 0 => o.analytic

Active(k) == UNION {PdfPars[c][k[c]] : c \in Cats}

\* At the first combination of all nothing has changed yet.
Fresh == loop.mode = 0 /\ loop.fits = 0 /\ loop.todo = Chosen(0) /\ idx = loop.from

\* The parameters of active pdfs float.
Unpinned ==
  /\ loop.frozen \cap MultiPars = {}
  /\ pc \notin {"multi", "combo"} => const \cap MultiPars = {}
  /\ pc = "multi" => const \cap (IF loop.mode = 0 THEN Active(idx) ELSE MultiPars) = {}
  /\ pc = "combo" =>
       \/ Fresh /\ const \cap Active(idx) = {}
       \/ (loop.mode # 0 \/ loop.fits > 0) /\ const \cap MultiPars = {}

\* A minimizer knows all parameters unless channels are masked, modes follow
\* each other, and only mode 1 drops indices.
Known ==
  /\ MaskChannels = 0 => list \in {{}, Pars}
  /\ pc \in {"multi", "combo"} /\ opt.short => loop.mode = 0
  /\ pc = "combo" /\ loop.mode = 0 => \A c \in Cats : loop.allowed[c] = Indices(c)
  /\ pc = "last" => ~opt.short /\ (loop.mode = 2 \/ NCats = 1)
  /\ pc = "combo" => loop.fits \in Nat

FreeInv == LeftInv /\ Unpinned /\ Known

LEMMA ActiveIn ==
  ASSUME NEW k \in Indexings
  PROVE  Active(k) \subseteq MultiPars /\ MultiPars \subseteq Pars
<1>1. \A c \in Cats : k[c] \in AllIndices
  BY IndexIn
<1>2. MultiPars \subseteq Pars
  BY CatsAssumption DEF MultiPars
<1> QED  BY <1>1, <1>2 DEF Active, MultiPars

\* Where no pdf is frozen out, nothing is frozen; where it is, what is active
\* stays free, and all pdfs are free again afterwards.
LEMMA FreezeParts ==
  ASSUME NEW cst, NEW k
  PROVE  /\ Freeze(cst, k) \ MultiPars = cst \ MultiPars
         /\ cst \cap Active(k) = {} => Freeze(cst, k) \cap Active(k) = {}
         /\ ~opt.disassociate => Freeze(cst, k) = cst /\ Float(cst, k) = cst
         /\ opt.disassociate => Float(cst, k) \cap MultiPars = {}
         /\ Float(cst, k) \subseteq cst
         /\ cst \subseteq Freeze(cst, k)
  BY DEF Freeze, Float, Disassociated, Active

LEMMA ImprovedFrees ==
  ASSUME Typed, NEW y \in [Pars -> Vals], NEW k, NEW cst \in SUBSET Pars, NEW mk,
         NEW force, NEW r \in Improved(y, k, cst, mk, force),
         cst \cap MultiPars = {} \/ opt.disassociate
  PROVE  r.const \cap MultiPars = {} /\ Float(r.const, k) \cap MultiPars = {}
<1> DEFINE fr == Freeze(cst, k)
<1>1. r.const = Float(fr, k)
  BY ImprovedEnds
<1> HIDE DEF fr
<1>2. CASE opt.disassociate
  <2>1. r.const \cap MultiPars = {}
    BY <1>1, <1>2, FreezeParts
  <2> QED  BY <2>1, FreezeParts
<1>3. CASE ~opt.disassociate
  <2>1. fr = cst /\ Float(fr, k) = fr /\ Float(r.const, k) = r.const
    BY <1>3, FreezeParts DEF fr
  <2> QED  BY <1>1, <1>3, <2>1
<1> QED  BY <1>2, <1>3

\* What a minimizer knows.
LEMMA ImprovedKnows ==
  ASSUME NEW y, NEW k, NEW cst, NEW mk, NEW force, NEW r \in Improved(y, k, cst, mk, force)
  PROVE  r.list = IF force \/ list = {} THEN Listed(mk) ELSE list
<1> DEFINE known == IF force \/ list = {} THEN Listed(mk) ELSE list
<1>1. \E f : r = [x |-> f.x, failed |-> f.failed, const |-> Float(Freeze(cst, k), k), list |-> known]
  BY DEF Improved
<1> HIDE DEF known
<1> QED  BY <1>1 DEF known

LEMMA KnowsAll ==
  ASSUME NEW y, NEW k, NEW cst, NEW mk, NEW force, NEW r \in Improved(y, k, cst, mk, force),
         ~mk.on, force \/ list \in {{}, Pars}
  PROVE  r.list = Pars
<1>1. Listed(mk) = Pars
  BY DEF Listed
<1>2. r.list = IF force \/ list = {} THEN Listed(mk) ELSE list
  BY ImprovedKnows
<1> QED  BY <1>1, <1>2

-----------------------------------------------------------------------------
(* Parameters of active pdfs float when it matters.                        *)

LEMMA FreeInit ==
  ASSUME Init
  PROVE  Unpinned /\ Known
  BY DEF Init, Unpinned, Known, NoLoop

LEMMA FreeCall ==
  ASSUME FreeInv, FixedApart, Call
  PROVE  Unpinned' /\ Known'
<1>1. const' \in Fixed
  BY DEF Call
<1>2. const' \cap MultiPars = {}
  BY <1>1 DEF FixedApart
<1>3. MaskChannels' = MaskChannels /\ list' = list /\ pc' = "begin" /\ loop' = loop
  BY DEF Call, MaskChannels
<1> QED  BY <1>2, <1>3 DEF FreeInv, Unpinned, Known

LEMMA FreePreFit ==
  ASSUME FreeInv, PreFit
  PROVE  Unpinned' /\ Known'
<1> DEFINE frozen == Constrained \ Freeze(const, idx)
           held == Freeze(Freeze(const, idx) \cup frozen, idx)
<1>1. /\ const' = Float(held \ frozen, idx) /\ list' = Listed(mask) /\ pc' = "first"
      /\ UNCHANGED <<opt, loop>> /\ pc = "begin"
  BY DEF PreFit
<1>2. const \cap MultiPars = {} /\ mask = NoMask
  BY <1>1 DEF FreeInv, LeftInv, Layers, Unpinned
<1>3. const' \cap MultiPars = {}
  <2>1. CASE opt.disassociate
    <3> HIDE DEF held, frozen
    <3> QED  BY <1>1, <2>1, FreezeParts
  <2>2. CASE ~opt.disassociate
    <3>1. Freeze(const, idx) = const
      BY <2>2, FreezeParts
    <3>2. held = Freeze(const, idx) \cup frozen
      <4> HIDE DEF frozen
      <4> QED  BY <2>2, FreezeParts
    <3>3. held \ frozen \subseteq const
      BY <3>1, <3>2
    <3> HIDE DEF held, frozen
    <3> QED  BY <1>1, <1>2, <2>2, <3>3, FreezeParts
  <2> QED  BY <2>1, <2>2
<1>4. list' = Pars
  BY <1>1, <1>2 DEF Listed, NoMask
<1> QED  BY <1>1, <1>3, <1>4 DEF Unpinned, Known, FreeInv

LEMMA FreeFirst ==
  ASSUME FreeInv, Separate, First
  PROVE  Unpinned' /\ Known'
<1>1. /\ const \cap MultiPars = {} /\ mask = NoMask /\ x \in [Pars -> Vals] /\ const \in SUBSET Pars
      /\ idx \in Indexings /\ opt \in Options /\ Typed
      /\ Freeze(const, idx) \in SUBSET Pars
  BY FrozenTypes DEF First, FreeInv, LeftInv, HeldInv, Layers, Typed, TypeOK, Unpinned
<1>2. UNCHANGED <<opt, idx>> /\ MaskChannels' = MaskChannels
  BY DEF First, MaskChannels
<1>3. CASE opt.short
  <2>1. PICK r \in Improved(x, idx, Freeze(const, idx), mask, opt.analytic) :
          const' = r.const /\ list' = r.list /\ pc' = "iterate" /\ UNCHANGED loop
    BY <1>3 DEF First
  <2>2. Freeze(const, idx) \cap MultiPars = {} \/ opt.disassociate
    BY <1>1, FreezeParts
  <2>3. const' \cap MultiPars = {}
    BY <1>1, <2>1, <2>2, ImprovedFrees
  <2>4. MaskChannels = 0 => list' \in {{}, Pars}
    <3>1. SUFFICES ASSUME MaskChannels = 0 PROVE list' = Pars
      OBVIOUS
    <3>2. ~mask.on /\ list \in {{}, Pars}
      BY <1>1, <3>1 DEF NoMask, FreeInv, Known
    <3> QED  BY <2>1, <3>2, KnowsAll
  <2> QED  BY <1>2, <2>1, <2>3, <2>4 DEF Unpinned, Known, FreeInv
<1>4. CASE ~opt.short
  <2>1. const' = Freeze(const, idx) /\ loop' = [NoLoop EXCEPT !.clean = x] /\ pc' = "multi" /\ list' = list
    BY <1>4 DEF First
  <2>2. loop'.mode = 0 /\ loop'.frozen = {}
    BY <2>1 DEF NoLoop
  <2>3. const' \cap Active(idx') = {}
    BY <1>1, <1>2, <2>1, FreezeParts, ActiveIn
  <2> QED  BY <1>2, <1>4, <2>1, <2>2, <2>3 DEF Unpinned, Known, FreeInv
<1> QED  BY <1>3, <1>4

LEMMA FreeIterate ==
  ASSUME FreeInv, Separate, Iterate
  PROVE  Unpinned' /\ Known'
<1> DEFINE cst == Freeze(const, idx)
<1>1. const \cap MultiPars = {} /\ idx \in Indexings
  BY DEF Iterate, FreeInv, LeftInv, HeldInv, Typed, TypeOK, Unpinned
<1>2. /\ const' = cst \cup FrozenForScan(cst) /\ pc' = "multi" /\ UNCHANGED <<opt, idx, list>>
      /\ loop' = [NoLoop EXCEPT !.clean = [p \in Pars \ const' |-> x[p]], !.frozen = FrozenForScan(cst)]
  BY DEF Iterate
<1>3. loop'.mode = 0 /\ loop'.frozen = FrozenForScan(cst)
  BY <1>2 DEF NoLoop
<1>4. cst \cap Active(idx) = {}
  BY <1>1, FreezeParts, ActiveIn
<1> HIDE DEF cst
<1>5. FrozenForScan(cst) \cap MultiPars = {}
  BY DEF FrozenForScan, Separate
<1>6. const' \cap Active(idx') = {}
  BY <1>1, <1>2, <1>4, <1>5, ActiveIn
<1>7. MaskChannels' = MaskChannels
  BY <1>2 DEF MaskChannels
<1> QED  BY <1>2, <1>3, <1>5, <1>6, <1>7 DEF Unpinned, Known, FreeInv

LEMMA FreeStartMultiple ==
  ASSUME FreeInv, StartMultiple
  PROVE  Unpinned' /\ Known'
<1>1. /\ loop' = [loop EXCEPT !.from = idx,
                              !.todo = Chosen(loop.mode) \ (IF loop.mode = 0 THEN {} ELSE {Present}),
                              !.fits = 0, !.best = [x |-> x, idx |-> idx],
                              !.allowed = IF loop.mode = 0 THEN NoLoop.allowed ELSE @]
      /\ pc = "multi" /\ pc' = "combo" /\ UNCHANGED <<opt, idx, const>>
      /\ list' = IF Hides THEN {} ELSE list
  BY DEF StartMultiple
<1>2. /\ loop'.from = idx /\ loop'.fits = 0 /\ loop'.frozen = loop.frozen /\ loop'.mode = loop.mode
      /\ loop.mode = 0 => loop'.todo = Chosen(0) /\ loop'.allowed = NoLoop.allowed
  BY <1>1 DEF FreeInv, LeftInv, HeldInv, Typed, Locals
<1>3. \A c \in Cats : NoLoop.allowed[c] = Indices(c)
  BY DEF NoLoop
<1>4. \/ Fresh' /\ const' \cap Active(idx') = {}
      \/ (loop'.mode # 0 \/ loop'.fits > 0) /\ const' \cap MultiPars = {}
  BY <1>1, <1>2 DEF FreeInv, Unpinned, Fresh, Chosen
<1>5. MaskChannels' = MaskChannels
  BY <1>1 DEF MaskChannels
<1> QED  BY <1>1, <1>2, <1>3, <1>4, <1>5 DEF Unpinned, Known, FreeInv

\* Nothing is left out of mode 0.
LEMMA SkipIsLate ==
  ASSUME FreeInv, SkipCombination
  PROVE  loop.mode # 0
<1>1. SUFFICES ASSUME loop.mode = 0 PROVE FALSE
  OBVIOUS
<1>2. pc = "combo" /\ loop.todo # {} /\ Typed
  BY DEF SkipCombination, FreeInv, LeftInv, HeldInv
<1>3. NextCombination \in Indexings
  BY <1>2, NextCombinationType
<1>4. \A c \in Cats : NextCombination[c] \in loop.allowed[c]
  BY <1>1, <1>2, <1>3 DEF FreeInv, Known, Indexings
<1> QED  BY <1>4 DEF SkipCombination

LEMMA FreeSkip ==
  ASSUME FreeInv, SkipCombination
  PROVE  Unpinned' /\ Known'
<1>1. /\ pc = "combo" /\ loop' = [loop EXCEPT !.todo = Left]
      /\ UNCHANGED <<opt, pc, const, list>>
  BY DEF SkipCombination
<1>2. /\ loop'.mode = loop.mode /\ loop'.fits = loop.fits /\ loop'.allowed = loop.allowed
      /\ loop'.frozen = loop.frozen
  BY <1>1 DEF FreeInv, LeftInv, HeldInv, Typed, Locals
<1>3. loop.mode # 0 /\ const \cap MultiPars = {}
  BY <1>1, SkipIsLate DEF FreeInv, Unpinned, Fresh
<1>4. MaskChannels' = MaskChannels
  BY <1>1 DEF MaskChannels
<1> QED  BY <1>1, <1>2, <1>3, <1>4 DEF Unpinned, Known, FreeInv

\* The likelihood m with nothing masked.
Whole(m, y, k) == SumFunctionOnSet([h \in Channels |-> Term(m, h, y, k)], Channels) + Penalty(m, y)

LEMMA WholeIs ==
  ASSUME NEW y, NEW k, NEW mk, mk.channels = {}, ~mk.constraints
  PROVE  NLL(y, k, mk) = Whole(model, y, k)
<1>1. Channels \ mk.channels = Channels
  OBVIOUS
<1> QED  BY <1>1 DEF NLL, Whole

LEMMA WholeInt ==
  ASSUME NEW m \in Models, NEW y \in [Pars -> Vals], NEW k \in Indexings
  PROVE  Whole(m, y, k) \in Int
<1> DEFINE f == [h \in Channels |-> Term(m, h, y, k)]
<1>1. \A h \in Channels : f[h] \in Int
  BY LikelihoodAssumption
<1>2. SumFunctionOnSet(f, Channels) \in Int
  <2> HIDE DEF f
  <2> QED  BY <1>1, SumInt, ChannelsAssumption
<1>3. Penalty(m, y) \in Int
  BY LikelihoodAssumption
<1> QED  BY <1>2, <1>3 DEF Whole

\* What is compared between combinations is the whole likelihood, masked or not.
LEMMA CombinationFit ==
  ASSUME FreeInv, Maskable, FitCombination
  PROVE  LET k == NextCombination
         IN /\ pc = "combo" /\ loop.todo # {} /\ k \in Indexings /\ Cleaned \in [Pars -> Vals] /\ idx' = k
            /\ \E r \in Improved(Cleaned, k, Freeze(const, k), MaskDuring(k), opt.disassociate) :
                 /\ x' = r.x /\ list' = r.list /\ failures' = failures + r.failed
                 /\ const' = Float(r.const, k)
                 /\ minNLL' = Min({Whole(model, r.x, k), minNLL})
                 /\ loop'.best = IF Whole(model, r.x, k) < minNLL THEN Better(loop.best, r.x, k) ELSE loop.best
                 /\ loop'.allowed = StillAllowed(k, Whole(model, r.x, k), minNLL', loop'.best.idx)
            /\ loop'.mode = loop.mode /\ loop'.from = loop.from /\ loop'.todo = Left
            /\ loop'.fits = loop.fits + 1 /\ loop'.clean = loop.clean /\ loop'.frozen = loop.frozen
            /\ UNCHANGED <<model, opt, pc, prevNLL, iterations, start, calls>>
<1> DEFINE k == NextCombination
           mk1 == MaskDuring(k)
           mk2 == MaskAfter(k)
           o1 == MaskedOffset(offset, Cleaned, k, mask, mk1)
<1>1. /\ pc = "combo" /\ loop.todo # {} /\ k \in Indexings /\ Cleaned \in [Pars -> Vals] /\ idx' = k
      /\ loop' = [mode |-> loop.mode, from |-> loop.from, todo |-> Left, fits |-> loop.fits + 1,
                  clean |-> loop.clean, best |-> loop'.best, frozen |-> loop.frozen,
                  allowed |-> loop'.allowed]
      /\ UNCHANGED <<model, opt, pc, prevNLL, iterations, start, calls>>
  BY FitCombinationStep DEF FreeInv, LeftInv, HeldInv
<1>2. PICK r \in Improved(Cleaned, k, Freeze(const, k), mk1, opt.disassociate) :
        LET o2 == MaskedOffset(o1, r.x, k, mk1, mk2)
            value == Shown(r.x, k, mk2, o2)
        IN /\ x' = r.x /\ list' = r.list /\ failures' = failures + r.failed
           /\ const' = Float(r.const, k)
           /\ mask' = mk2 /\ offset' = o2
           /\ minNLL' = Min({value, minNLL})
           /\ loop'.best = IF value < minNLL THEN Better(loop.best, r.x, k) ELSE loop.best
           /\ loop'.allowed = StillAllowed(k, value, minNLL', loop'.best.idx)
  BY FitCombinationStep DEF FreeInv, LeftInv, HeldInv
<1>3. Shown(x', k, mask', offset') = Whole(model, x', k)
  <2>1. Layers' /\ Typed' /\ model \in Models /\ x' \in [Pars -> Vals]
    BY LayersFitCombination, TypedFitCombination DEF FreeInv, LeftInv, HeldInv, Typed, TypeOK
  <2>2. offset' = Hidden(x', k, mask')
    BY <1>1, <2>1 DEF Layers, Hidden
  <2>3. NLL(x', k, NoMask) = NLL(x', k, mask') + Hidden(x', k, mask')
    BY <1>1, <2>1, ShownAndHidden
  <2>4. NLL(x', k, NoMask) = Whole(model, x', k)
    BY WholeIs DEF NoMask
  <2> QED  BY <2>2, <2>3, <2>4 DEF Shown
<1> HIDE DEF k, mk1, mk2
<1>4. /\ x' = r.x /\ list' = r.list /\ failures' = failures + r.failed
      /\ const' = Float(r.const, k)
      /\ minNLL' = Min({Whole(model, r.x, k), minNLL})
      /\ loop'.best = IF Whole(model, r.x, k) < minNLL THEN Better(loop.best, r.x, k) ELSE loop.best
      /\ loop'.allowed = StillAllowed(k, Whole(model, r.x, k), minNLL', loop'.best.idx)
  BY <1>2, <1>3
<1>5. /\ loop'.mode = loop.mode /\ loop'.from = loop.from /\ loop'.todo = Left
      /\ loop'.fits = loop.fits + 1 /\ loop'.clean = loop.clean /\ loop'.frozen = loop.frozen
  BY <1>1
<1> QED  BY <1>1, <1>4, <1>5 DEF k, mk1

\* The first combination is what is there.
LEMMA FirstCombination ==
  ASSUME FreeInv, pc = "combo", Fresh
  PROVE  NextCombination = idx
<1>1. FirstOf(loop.todo) = Present /\ loop.from \in Indexings
  BY PresentIsFirst DEF Fresh, FreeInv, LeftInv, HeldInv, Typed, Locals
<1> QED  BY <1>1, ReorderedPresent DEF NextCombination, Fresh

LEMMA FreeFitCombination ==
  ASSUME FreeInv, Maskable, FitCombination
  PROVE  Unpinned' /\ Known'
<1> DEFINE k == NextCombination
<1>1. /\ pc = "combo" /\ k \in Indexings /\ Cleaned \in [Pars -> Vals] /\ idx' = k
      /\ loop'.mode = loop.mode /\ loop'.fits = loop.fits + 1 /\ loop'.frozen = loop.frozen
      /\ UNCHANGED <<opt, pc>>
  BY CombinationFit
<1>2. PICK r \in Improved(Cleaned, k, Freeze(const, k), MaskDuring(k), opt.disassociate) :
        /\ list' = r.list /\ const' = Float(r.const, k)
        /\ loop'.allowed = StillAllowed(k, Whole(model, r.x, k), minNLL', loop'.best.idx)
  BY CombinationFit
<1>3. Typed /\ const \in SUBSET Pars /\ Freeze(const, k) \in SUBSET Pars
  BY FrozenTypes DEF FreeInv, LeftInv, HeldInv, Typed, TypeOK
<1> HIDE DEF k
<1>4. Freeze(const, k) \cap MultiPars = {} \/ opt.disassociate
  <2>1. SUFFICES ASSUME ~opt.disassociate PROVE const \cap MultiPars = {}
    BY FreezeParts
  <2>2. const \subseteq start.const \cup loop.frozen
    BY <2>1 DEF FreeInv, LeftInv, Layers, Extra
  <2>3. start.const \cap MultiPars = {}
    BY DEF FreeInv, LeftInv, HeldInv, Holding
  <2>4. loop.frozen \cap MultiPars = {}
    BY DEF FreeInv, Unpinned
  <2> QED  BY <2>2, <2>3, <2>4
<1>5. const' \cap MultiPars = {}
  BY <1>1, <1>2, <1>3, <1>4, ImprovedFrees
<1>6. loop'.fits > 0 /\ loop'.fits \in Nat
  BY <1>1 DEF FreeInv, Known
<1>7. MaskChannels' = MaskChannels
  BY <1>1 DEF MaskChannels
<1>8. MaskChannels = 0 => list' = Pars
  <2>1. SUFFICES ASSUME MaskChannels = 0 PROVE list' = Pars
    OBVIOUS
  <2>2. ~mask.on /\ list \in {{}, Pars} /\ MaskDuring(k) = mask
    BY <1>1, <2>1 DEF MaskDuring, FreeInv, LeftInv, Layers, Known
  <2> QED  BY <1>2, <2>2, KnowsAll
<1>9. loop.mode = 0 => \A c \in Cats : loop'.allowed[c] = Indices(c)
  BY <1>1, <1>2 DEF StillAllowed, FreeInv, Known
<1> QED  BY <1>1, <1>5, <1>6, <1>7, <1>8, <1>9 DEF Unpinned, Known, FreeInv

LEMMA FreeEndMultiple ==
  ASSUME FreeInv, EndMultiple
  PROVE  Unpinned' /\ Known'
<1>1. /\ pc = "combo" /\ loop.todo = {} /\ const' = const /\ opt' = opt
      /\ list' = IF Hides THEN {} ELSE list
      /\ \/ opt.short /\ pc' = "full" /\ UNCHANGED loop
         \/ ~opt.short /\ loop.mode < 2 /\ NCats > 1 /\ pc' = "multi" /\ loop' = [loop EXCEPT !.mode = @ + 1]
         \/ ~opt.short /\ (loop.mode = 2 \/ NCats = 1) /\ pc' = "last" /\ UNCHANGED loop
  BY DEF EndMultiple
<1>2. const \cap MultiPars = {}
  <2>1. Present \in Chosen(0)
    BY ChosenType
  <2> QED  BY <1>1, <2>1 DEF FreeInv, Unpinned, Fresh
<1>3. loop'.frozen = loop.frozen /\ (pc' = "last" => loop'.mode = loop.mode)
  BY <1>1 DEF FreeInv, LeftInv, HeldInv, Typed, Locals
<1>4. const' \cap (IF loop'.mode = 0 THEN Active(idx') ELSE MultiPars) = {}
  <2>1. idx' \in Indexings
    BY TypedEndMultiple DEF FreeInv, LeftInv, HeldInv, Typed, TypeOK
  <2> QED  BY <1>1, <1>2, <2>1, ActiveIn
<1>5. MaskChannels' = MaskChannels
  BY <1>1 DEF MaskChannels
<1> QED  BY <1>1, <1>2, <1>3, <1>4, <1>5 DEF Unpinned, Known, FreeInv

LEMMA FreeFullFit ==
  ASSUME FreeInv, Separate, FullFit
  PROVE  Unpinned' /\ Known'
<1>1. /\ pc = "full" /\ x \in [Pars -> Vals] /\ const \in SUBSET Pars /\ Unfrozen(const) \in SUBSET Pars
      /\ mask = NoMask /\ Typed /\ const \cap MultiPars = {} /\ Unfrozen(const) \cap MultiPars = {}
  BY DEF FullFit, Again, FreeInv, LeftInv, HeldInv, Layers, Unpinned, Typed, TypeOK, Unfrozen
<1>2. PICK r \in Improved(x, idx, Unfrozen(const), mask, opt.analytic) :
        const' = Float(r.const, idx) /\ list' = r.list
  BY DEF FullFit, Again
<1>3. const' \cap MultiPars = {}
  BY <1>1, <1>2, ImprovedFrees
<1>4. loop'.frozen = {} /\ pc' \in {"end", "iterate"} /\ MaskChannels' = MaskChannels
  BY DEF FullFit, Again, NoLoop, MaskChannels
<1>5. MaskChannels = 0 => list' = Pars
  <2>1. SUFFICES ASSUME MaskChannels = 0 PROVE list' = Pars
    OBVIOUS
  <2>2. ~mask.on /\ list \in {{}, Pars}
    BY <1>1, <2>1 DEF NoMask, FreeInv, Known
  <2> QED  BY <1>2, <2>2, KnowsAll
<1> QED  BY <1>3, <1>4, <1>5 DEF Unpinned, Known

LEMMA FreeLastFit ==
  ASSUME FreeInv, LastFit
  PROVE  Unpinned' /\ Known'
<1>1. /\ pc = "last" /\ x \in [Pars -> Vals] /\ const \in SUBSET Pars /\ Freeze(const, idx) \in SUBSET Pars
      /\ mask = NoMask /\ Typed /\ const \cap MultiPars = {}
  BY FrozenTypes DEF LastFit, FreeInv, LeftInv, HeldInv, Layers, Unpinned, Typed, TypeOK
<1>2. const' \cap MultiPars = {} /\ (MaskChannels = 0 => list' \in {{}, Pars})
  <2>1. CASE opt.disassociate
    <3>1. PICK r \in Improved(x, idx, Freeze(const, idx), mask, TRUE) :
            const' = Float(r.const, idx) /\ list' = r.list
      BY <2>1 DEF LastFit
    <3>2. PICK force \in {TRUE} : r \in Improved(x, idx, Freeze(const, idx), mask, force)
      BY Zenon
    <3>3. const' \cap MultiPars = {}
      BY <1>1, <2>1, <3>1, <3>2, ImprovedFrees
    <3>4. ~mask.on
      BY <1>1 DEF NoMask
    <3>5. r.list = Pars
      BY <3>2, <3>4, KnowsAll
    <3> QED  BY <3>1, <3>3, <3>5
  <2>2. CASE ~opt.disassociate
    BY <1>1, <2>2 DEF LastFit, FreeInv, Known
  <2> QED  BY <2>1, <2>2
<1>3. loop' = loop /\ pc' = "end" /\ MaskChannels' = MaskChannels
  BY DEF LastFit, MaskChannels
<1> QED  BY <1>2, <1>3 DEF Unpinned, Known, FreeInv

LEMMA FreeEnd ==
  ASSUME FreeInv, End
  PROVE  Unpinned' /\ Known'
<1>1. /\ const \cap MultiPars = {} /\ const' = Float(const, idx) /\ pc' = "idle"
      /\ UNCHANGED <<loop, list>> /\ MaskChannels' = MaskChannels
  BY DEF End, FreeInv, Unpinned, MaskChannels
<1>2. const' \cap MultiPars = {}
  BY <1>1, FreezeParts
<1> QED  BY <1>1, <1>2 DEF Unpinned, Known, FreeInv

LEMMA FreeStep ==
  ASSUME FreeInv, FixedApart, Maskable, Separate, [Next]_vars
  PROVE  Unpinned' /\ Known'
<1>1. CASE Next
  BY <1>1, FreeCall, FreePreFit, FreeFirst, FreeIterate, FreeStartMultiple, FreeSkip,
     FreeFitCombination, FreeEndMultiple, FreeFullFit, FreeLastFit, FreeEnd DEF Next
<1>2. CASE UNCHANGED vars
  BY <1>2 DEF vars, FreeInv, Unpinned, Known, Fresh, MaskChannels
<1> QED  BY <1>1, <1>2

-----------------------------------------------------------------------------
(* Minima.                                                                 *)

\* No point that agrees with what the call s holds gives less than v.
Agrees(s, z) == \A p \in s.const : z[p] = s.x[p]
Everywhere(m, s, v, k) == \A z \in [Pars -> Vals] : Agrees(s, z) => v <= Whole(m, z, k)

\* None that differs from y in parameters of pdfs gives less than v.
ByPdfs(m, y, v, k) ==
  \A z \in [Pars -> Vals] : (\A p \in Pars \ MultiPars : z[p] = y[p]) => v <= Whole(m, z, k)

\* What a fit sees of the pdfs that are active floats.
LEMMA SeenFloats ==
  ASSUME FreeInv, Separate, NEW k \in Indexings, NEW cst \in SUBSET Pars, cst \cap Active(k) = {},
         cst \subseteq start.const \cup loop.frozen \cup Extra, NEW h \in Channels,
         NEW p \in Seen(h, k), p \in Freeze(cst, k)
  PROVE  p \in (start.const \cup loop.frozen) \cap cst
<1>1. opt \in Options
  BY DEF FreeInv, LeftInv, HeldInv, Typed, TypeOK
<1>2. CASE opt.disassociate
  <2>1. ChanPars[h] \cap MultiPars = {}
    BY <1>1, <1>2 DEF Separate
  <2>2. UNION {PdfPars[c][k[c]] : c \in ChanCats[h]} \subseteq Active(k)
    BY ChannelsAssumption DEF Active
  <2>3. p \notin Active(k)
    BY FreezeParts
  <2>4. p \notin MultiPars
    BY <2>1, <2>2, <2>3 DEF Seen
  <2>5. p \in cst
    BY <2>4, FreezeParts
  <2> QED  BY <2>4, <2>5 DEF Extra
<1>3. CASE ~opt.disassociate
  BY <1>3, FreezeParts DEF Extra
<1> QED  BY <1>2, <1>3

LEMMA ConstrainedFloats ==
  ASSUME FreeInv, Separate, NEW k \in Indexings, NEW cst \in SUBSET Pars,
         cst \subseteq start.const \cup loop.frozen \cup Extra, NEW p \in Constrained, p \in Freeze(cst, k)
  PROVE  p \in (start.const \cup loop.frozen) \cap cst
<1>1. opt \in Options
  BY DEF FreeInv, LeftInv, HeldInv, Typed, TypeOK
<1>2. CASE opt.disassociate
  <2>1. p \notin MultiPars
    BY <1>1, <1>2 DEF Separate
  <2>2. p \in cst
    BY <2>1, FreezeParts
  <2> QED  BY <2>1, <2>2 DEF Extra
<1>3. CASE ~opt.disassociate
  BY <1>3, FreezeParts DEF Extra
<1> QED  BY <1>2, <1>3

\* A fit of all that floats, with nothing masked and nothing frozen but pdfs that are not
\* active, finds a minimum.
LEMMA WholeFit ==
  ASSUME FreeInv, Separate, NEW y \in [Pars -> Vals], Agrees(start, y), NEW k \in Indexings,
         NEW cst \in SUBSET Pars, cst \cap Active(k) = {}, cst \subseteq start.const \cup Extra,
         NEW mk, mk.channels = {}, ~mk.constraints, NEW force,
         NEW r \in Improved(y, k, cst, mk, force), r.failed = 0, r.list = Pars
  PROVE  Everywhere(model, start, Whole(model, r.x, k), k)
<1>1. SUFFICES ASSUME NEW w \in [Pars -> Vals], Agrees(start, w)
               PROVE  Whole(model, r.x, k) <= Whole(model, w, k)
  BY DEF Everywhere
<1>2. Typed
  BY DEF FreeInv, LeftInv, HeldInv
<1>3. cst \subseteq start.const \cup loop.frozen \cup Extra
  OBVIOUS
<1>4. \A p \in start.const : w[p] = y[p]
  BY <1>1 DEF Agrees
<1>5. \A p \in cst : p \in start.const \/ (p \in MultiPars /\ opt.disassociate)
  BY DEF Extra
<1>6. ASSUME NEW p \in (start.const \cup loop.frozen) \cap cst, p \notin MultiPars
      PROVE  w[p] = y[p]
  BY <1>4, <1>5, <1>6
<1>7. loop.frozen \cap MultiPars = {} /\ start.const \cap MultiPars = {}
  BY DEF FreeInv, Unpinned, LeftInv, HeldInv, Holding
<1>8. \A h \in Channels \ mk.channels : \A p \in Seen(h, k) : w[p] = y[p] \/ p \in r.list \ Freeze(cst, k)
  <2>1. SUFFICES ASSUME NEW h \in Channels, NEW p \in Seen(h, k), p \in Freeze(cst, k) PROVE w[p] = y[p]
    BY SeenOf
  <2>2. p \in (start.const \cup loop.frozen) \cap cst
    BY <1>3, <2>1, SeenFloats
  <2> QED  BY <1>6, <1>7, <2>2
<1>9. \A p \in Constrained : w[p] = y[p] \/ p \in r.list \ Freeze(cst, k)
  <2>1. SUFFICES ASSUME NEW p \in Constrained, p \in Freeze(cst, k) PROVE w[p] = y[p]
    BY ChannelsAssumption
  <2>2. p \in (start.const \cup loop.frozen) \cap cst
    BY <1>3, <2>1, ConstrainedFloats
  <2> QED  BY <1>6, <1>7, <2>2
<1>10. NLL(r.x, k, mk) <= NLL(w, k, mk)
  BY <1>1, <1>2, <1>8, <1>9, FitBeats
<1> QED  BY <1>10, WholeIs

\* Where all combinations are tried with everything floating, nothing is masked.
LEMMA NothingMasked ==
  ASSUME FreeInv, Maskable, pc = "combo", ~opt.short, NEW k
  PROVE  /\ MaskChannels = 0 /\ ~mask.on /\ mask.channels = {} /\ ~mask.constraints
         /\ MaskDuring(k) = mask
<1>1. opt \in Options /\ opt.channels \in 0..2
  BY OptionTypes DEF FreeInv, LeftInv, HeldInv, Typed, TypeOK
<1>2. MaskChannels = 0
  BY <1>1 DEF MaskChannels, Maskable
<1>3. ~(Hides /\ opt.constraints)
  BY <1>1 DEF Hides, Maskable
<1> QED  BY <1>2, <1>3 DEF FreeInv, LeftInv, Layers, MaskDuring

\* Every parameter of a pdf that a visible channel sees is known.
LEMMA ScanLists ==
  ASSUME opt.disassociate, NEW y, NEW k, NEW cst, NEW mk,
         NEW r \in Improved(y, k, cst, mk, opt.disassociate)
  PROVE  r.list = Listed(mk)
<1>1. \E f : r = [x |-> f.x, failed |-> f.failed, const |-> Float(Freeze(cst, k), k), list |-> Listed(mk)]
  BY DEF Improved
<1> QED  BY <1>1

LEMMA SeenIsKnown ==
  ASSUME FreeInv, pc = "combo", NEW y, NEW k \in Indexings, NEW cst, NEW mk, mk = MaskDuring(k),
         NEW r \in Improved(y, k, cst, mk, opt.disassociate),
         NEW h \in Channels \ mk.channels, NEW p \in Seen(h, k)
  PROVE  p \in r.list
<1>1. p \in ParsOf(h) /\ p \in Pars
  BY SeenOf
<1>2. CASE opt.disassociate
  <2>1. r.list = Listed(mk)
    BY <1>2, ScanLists
  <2> QED  BY <1>1, <2>1 DEF Listed
<1>3. CASE ~opt.disassociate
  <2>1. MaskChannels = 0 /\ mk = mask
    BY <1>3 DEF MaskChannels, MaskDuring
  <2>2. ~mk.on /\ list \in {{}, Pars}
    BY <2>1 DEF FreeInv, LeftInv, Layers, Known
  <2>3. r.list = Pars
    BY <2>2, KnowsAll
  <2> QED  BY <1>1, <2>3
<1> QED  BY <1>2, <1>3

-----------------------------------------------------------------------------
(* The scan of one category after the other.                               *)

\* The category that a combination changes is being scanned: it is the last of those
\* that change with the combination before.
LEMMA ScansTheChanged ==
  ASSUME NEW cur \in Chosen(0), NEW j \in Chosen(0), NEW from \in Indexings,
         idx = Reordered(cur, from), Before(cur, j),
         NEW c \in Cats, Reordered(j, from)[c] # from[c]
  PROVE  c \in Scanned(Reordered(j, from))
<1> DEFINE k == Reordered(j, from)
           changed == {d \in Cats : idx[d] # k[d]}
<1>1. cur \in Indexings /\ j \in Indexings
  BY ChosenType
<1>2. j[c] # 0
  BY <1>1, ReorderedSame
<1>3. PICK d \in Cats : cur[d] < j[d] /\ \A e \in Cats : e > d => cur[e] = j[e]
  BY DEF Before
<1>4. cur[d] \in Nat /\ j[d] \in Nat
  BY <1>1, IndexIn
<1>5. j[d] # 0
  BY <1>3, <1>4
<1>6. d = c
  BY <1>2, <1>5, ChosenChanges
<1>7. c \in changed /\ \A e \in changed : e \in Cats /\ ~(e > c)
  BY <1>1, <1>3, <1>4, <1>6, ReorderedSame
<1>8. Cats \subseteq Int
  BY DEF Cats
<1>9. c \in changed /\ \A e \in changed : c >= e
  BY <1>7, <1>8
<1>10. Max(changed) = c
  <2> HIDE DEF changed
  <2>1. \E m \in changed : \A e \in changed : m >= e
    BY <1>9
  <2>2. Max(changed) \in changed /\ \A e \in changed : Max(changed) >= e
    BY <2>1 DEF Max
  <2>3. changed \subseteq Int
    BY <1>8 DEF changed
  <2>4. Max(changed) \in Int /\ c \in Int /\ Max(changed) >= c /\ c >= Max(changed)
    BY <1>9, <2>2, <2>3
  <2> QED  BY <2>4
<1> QED  BY <1>9, <1>10 DEF Scanned

\* What is masked while b is changed to w is least at b if the whole is.
LEMMA HiddenLeast ==
  ASSUME model \in Models, NEW b \in [Pars -> Vals], NEW w \in [Pars -> Vals],
         \A p \in Pars \ MultiPars : w[p] = b[p],
         NEW k \in Indexings, NEW from \in Indexings, NEW mk,
         \A h \in Channels \cap mk.channels : \A c \in ChanCats[h] : k[c] = from[c],
         \A h \in Channels \cap mk.channels, g \in Channels \ mk.channels :
           ParsOf(g) \cap ParsOf(h) \cap MultiPars = {},
         mk.constraints \/ mk.channels # {} => Constrained \cap MultiPars = {},
         \A z \in [Pars -> Vals] :
           (\A p \in Pars \ MultiPars : z[p] = b[p]) => Whole(model, b, from) <= Whole(model, z, from)
  PROVE  Hidden(b, from, mk) <= Hidden(w, k, mk)
<1> DEFINE P == {p \in MultiPars : \E h \in Channels \cap mk.channels : p \in ParsOf(h)}
           v == [p \in Pars |-> IF p \in P THEN w[p] ELSE b[p]]
<1>1. v \in [Pars -> Vals] /\ \A p \in Pars \ MultiPars : v[p] = b[p]
  OBVIOUS
<1>2. \A p \in Pars : v[p] = b[p] \/ p \in P
  OBVIOUS
<1>3. \A h \in Channels \cap mk.channels : \A p \in ParsOf(h) : v[p] = w[p]
  <2>1. \A h \in Channels : ParsOf(h) \subseteq Pars
    BY CatsAssumption, ChannelsAssumption DEF ParsOf
  <2>2. ASSUME NEW h \in Channels \cap mk.channels, NEW p \in ParsOf(h) PROVE v[p] = w[p]
    <3>1. p \in Pars /\ (p \in MultiPars => p \in P)
      BY <2>1
    <3> HIDE DEF P
    <3> QED  BY <3>1
  <2> QED  BY <2>2
<1>4. \A g \in Channels \ mk.channels : \A p \in ParsOf(g) : p \notin P
  <2>1. ASSUME NEW g \in Channels \ mk.channels, NEW p \in ParsOf(g), p \in P PROVE FALSE
    <3>1. PICK h \in Channels \cap mk.channels : p \in ParsOf(h) /\ p \in MultiPars
      BY <2>1
    <3> QED  BY <2>1, <3>1
  <2> QED  BY <2>1
<1>5. mk.channels = {} => P = {}
  OBVIOUS
<1> HIDE DEF v, P
<1>6. Whole(model, b, from) <= Whole(model, v, from)
  BY <1>1
<1>7. NLL(b, from, mk) = NLL(v, from, mk)
  <2>1. \A g \in Channels \ mk.channels : \A p \in Seen(g, from) : b[p] = v[p]
    BY <1>2, <1>4, SeenOf
  <2>2. ~mk.constraints => \A p \in Constrained : b[p] = v[p]
    BY <1>1, <1>2, <1>5, ChannelsAssumption
  <2> QED  BY <1>1, <2>1, <2>2, NLLEqual
<1>8. /\ Whole(model, b, from) = NLL(b, from, mk) + Hidden(b, from, mk)
      /\ Whole(model, v, from) = NLL(v, from, mk) + Hidden(v, from, mk)
  <2>1. NLL(b, from, NoMask) = Whole(model, b, from) /\ NLL(v, from, NoMask) = Whole(model, v, from)
    BY WholeIs DEF NoMask
  <2> QED  BY <1>1, <2>1, ShownAndHidden
<1>9. NLL(b, from, mk) \in Int /\ Hidden(b, from, mk) \in Int /\ Hidden(v, from, mk) \in Int
  BY <1>1, NLLInt, HiddenInt
<1>10. Hidden(b, from, mk) <= Hidden(v, from, mk)
  BY <1>6, <1>7, <1>8, <1>9
<1>11. Hidden(v, from, mk) = Hidden(w, k, mk)
  <2>1. \A h \in Channels \cap mk.channels : \A p \in Seen(h, from) : v[p] = w[p]
    BY <1>3, SeenOf
  <2>2. mk.constraints => \A p \in Constrained : v[p] = w[p]
    BY <1>1, ChannelsAssumption
  <2> QED  BY <1>1, <2>1, <2>2, HiddenEqual
<1> QED  BY <1>10, <1>11

\* What a mask leaves visible during a scan shares nothing that floats with what it hides.
LEMMA MaskApart ==
  ASSUME FreeInv, Maskable, Separate, pc = "combo", opt.short, NEW k \in Indexings,
         NEW mk, mk = MaskDuring(k)
  PROVE  /\ mk.channels \subseteq Channels
         /\ mk.channels # {} => opt.disassociate
         /\ \A h \in Channels \cap mk.channels :
              /\ ChanCats[h] \subseteq Cats \ Scanned(k)
              /\ ChanPars[h] \cap MultiPars = {}
         /\ \A h \in Channels \cap mk.channels, g \in Channels \ mk.channels :
              ParsOf(g) \cap ParsOf(h) \cap MultiPars = {}
         /\ mk.constraints \/ mk.channels # {} => Constrained \cap MultiPars = {}
<1>1. opt \in Options /\ mask \in Masks
  BY DEF FreeInv, LeftInv, HeldInv, Typed, TypeOK, Masks
<1>2. mk.constraints = mask.constraints
  BY <1>1 DEF MaskDuring, WithChannels, Masks
<1>3. mk.constraints => opt.disassociate
  BY <1>2 DEF FreeInv, LeftInv, Layers, Hides
<1>4. CASE MaskChannels = 2
  <2>1. opt.disassociate /\ opt.channels = 2
    BY <1>4 DEF MaskChannels
  <2>2. \A g, h \in Channels : ParsOf(g) \cap ParsOf(h) \cap MultiPars # {} => ChanCats[g] = ChanCats[h]
    BY <1>1, <2>1 DEF Maskable
  <2>3. mk.channels = NonDiscrete(Cats \ Scanned(k))
    BY <1>1, <1>4 DEF MaskDuring, WithChannels, Masks
  <2>4. /\ \A h \in Channels : ChanPars[h] \cap MultiPars = {}
        /\ Constrained \cap MultiPars = {}
    BY <1>1, <2>1 DEF Separate
  <2>5. \A h \in Channels \cap mk.channels, g \in Channels \ mk.channels :
          ParsOf(g) \cap ParsOf(h) \cap MultiPars = {}
    BY <2>2, <2>3 DEF NonDiscrete
  <2>6. mk.channels \subseteq Channels /\ \A h \in mk.channels : ChanCats[h] \subseteq Cats \ Scanned(k)
    BY <2>3 DEF NonDiscrete
  <2> QED  BY <2>1, <2>4, <2>5, <2>6
<1>5. CASE MaskChannels # 2
  <2>1. mk = mask /\ mk.channels \subseteq NonDiscrete({})
    BY <1>5 DEF MaskDuring, FreeInv, LeftInv, Layers
  <2>2. mk.channels \subseteq Channels /\ \A h \in mk.channels : ChanCats[h] = {}
    BY <2>1 DEF NonDiscrete
  <2>3. mk.channels # {} => opt.disassociate /\ opt.channels # 0
    BY <2>1 DEF FreeInv, LeftInv, Layers, MaskChannels
  <2>4. opt.disassociate =>
          /\ \A h \in Channels : ChanPars[h] \cap MultiPars = {}
          /\ Constrained \cap MultiPars = {}
    BY <1>1 DEF Separate
  <2>5. \A h \in mk.channels : ParsOf(h) \cap MultiPars = {}
    BY <1>1, <2>2, <2>3 DEF Maskable
  <2> QED  BY <1>3, <2>2, <2>3, <2>4, <2>5
<1> QED  BY <1>4, <1>5

\* What a fit of the scan sees floats.
LEMMA ScanFloats ==
  ASSUME FreeInv, Maskable, Separate, pc = "combo", NEW k \in Indexings, const \cap Active(k) = {},
         NEW mk, mk = MaskDuring(k), NEW y,
         NEW r \in Improved(y, k, Freeze(const, k), mk, opt.disassociate)
  PROVE  /\ \A h \in Channels \ mk.channels : \A p \in Seen(h, k) \cap MultiPars :
              p \in r.list \ Freeze(Freeze(const, k), k)
         /\ \A p \in Constrained \cap MultiPars : p \in r.list \ Freeze(Freeze(const, k), k)
<1> DEFINE cst == Freeze(const, k)
<1>1. const \in SUBSET Pars /\ opt \in Options
  BY DEF FreeInv, LeftInv, HeldInv, Typed, TypeOK
<1>2. cst \in SUBSET Pars /\ cst \cap Active(k) = {}
  BY <1>1, FrozenTypes, FreezeParts
<1>3. cst \subseteq start.const \cup loop.frozen \cup Extra
  <2>1. cst \subseteq const \cup Extra
    BY FreezeBounds
  <2>2. const \subseteq start.const \cup loop.frozen \cup Extra
    BY DEF FreeInv, LeftInv, Layers
  <2> QED  BY <2>1, <2>2
<1>4. (start.const \cup loop.frozen) \cap MultiPars = {}
  BY DEF FreeInv, Unpinned, LeftInv, HeldInv, Holding
<1>5. ~opt.disassociate => ~mk.on /\ list \in {{}, Pars}
  <2>1. SUFFICES ASSUME ~opt.disassociate PROVE ~mk.on /\ list \in {{}, Pars}
    OBVIOUS
  <2>2. MaskChannels = 0
    BY <2>1 DEF MaskChannels
  <2>3. mk = mask
    BY <2>2 DEF MaskDuring
  <2> QED  BY <2>2, <2>3 DEF FreeInv, LeftInv, Layers, Known
<1> HIDE DEF cst
<1>6. ASSUME NEW h \in Channels \ mk.channels, NEW p \in Seen(h, k), p \in MultiPars
      PROVE  p \in r.list \ Freeze(cst, k)
  <2>1. p \in r.list
    BY <1>6, SeenIsKnown DEF cst
  <2>2. p \notin Freeze(cst, k)
    <3>1. SUFFICES ASSUME p \in Freeze(cst, k) PROVE FALSE
      OBVIOUS
    <3>2. p \in (start.const \cup loop.frozen) \cap cst
      BY <1>2, <1>3, <1>6, <3>1, SeenFloats
    <3> QED  BY <1>4, <1>6, <3>2
  <2> QED  BY <2>1, <2>2
<1>7. ASSUME NEW p \in Constrained, p \in MultiPars
      PROVE  p \in r.list \ Freeze(cst, k)
  <2>1. ~opt.disassociate
    BY <1>1, <1>7 DEF Separate
  <2>2. r.list = Pars
    BY <1>5, <2>1, KnowsAll
  <2>3. p \notin Freeze(cst, k)
    <3>1. SUFFICES ASSUME p \in Freeze(cst, k) PROVE FALSE
      OBVIOUS
    <3>2. p \in (start.const \cup loop.frozen) \cap cst
      BY <1>2, <1>3, <1>7, <3>1, ConstrainedFloats
    <3> QED  BY <1>4, <1>7, <3>2
  <2> QED  BY <2>2, <2>3, ChannelsAssumption
<1> QED  BY <1>6, <1>7 DEF cst

\* A fit of the scan changes what it shows only.
LEMMA ScanHides ==
  ASSUME FreeInv, Maskable, pc = "combo", opt.short, NEW k \in Indexings,
         Cleaned \in [Pars -> Vals], NEW mk, mk = MaskDuring(k),
         NEW r \in Improved(Cleaned, k, Freeze(const, k), mk, opt.disassociate)
  PROVE  /\ r.x \in [Pars -> Vals] /\ \A p \in Pars \ MultiPars : r.x[p] = Cleaned[p] /\ Cleaned[p] = x[p]
         /\ Hidden(Cleaned, k, mk) = Hidden(r.x, k, mk)
<1> DEFINE cst == Freeze(const, k)
           H == Pars \ MultiPars
<1>1. const \in SUBSET Pars /\ cst \in SUBSET Pars /\ Typed /\ HeldInv /\ Layers
  BY FrozenTypes DEF FreeInv, LeftInv, HeldInv, Typed, TypeOK
<1>2. H \in SUBSET const /\ H \cap MultiPars = {}
  BY DEF FreeInv, LeftInv, Layers
<1> HIDE DEF H
<1>3. H \in SUBSET cst
  BY <1>2, FreezeKeeps
<1> HIDE DEF cst
<1>4. r \in Improved(Cleaned, k, cst, mk, opt.disassociate)
  BY DEF cst
<1>5. \A p \in H : r.x[p] = Cleaned[p]
  BY <1>1, <1>2, <1>3, <1>4, ImprovedHolds
<1>6. r.x \in [Pars -> Vals]
  BY <1>1, <1>4, ImprovedEnds
<1>7. \A p \in H : Cleaned[p] = x[p]
  <2>1. DOMAIN loop.clean \subseteq MultiPars
    BY DEF FreeInv, LeftInv, Layers
  <2> QED  BY <2>1 DEF Cleaned, H
<1>8. MaskChannels = 2 => \A p \in Pars \ Listed(mk) : r.x[p] = Cleaned[p]
  <2>1. SUFFICES ASSUME MaskChannels = 2, NEW p \in Pars, p \notin Listed(mk) PROVE r.x[p] = Cleaned[p]
    OBVIOUS
  <2>2. opt.disassociate
    BY <2>1 DEF MaskChannels
  <2>3. r.list = Listed(mk)
    BY <1>4, <2>2, ScanLists
  <2> QED  BY <1>4, <2>1, <2>3, ImprovedUnlisted
<1>9. Hidden(Cleaned, k, mk) = Hidden(r.x, k, mk)
  BY <1>1, <1>5, <1>6, <1>7, <1>8, MaskedIsStill DEF H
<1> QED  BY <1>5, <1>6, <1>7, <1>9 DEF H

\* One category changed from the indices where b is a minimum: what the fit ends with
\* is not worse than any point that differs from b in parameters of pdfs.
LEMMA ScanFit ==
  ASSUME FreeInv, Maskable, Separate, pc = "combo", opt.short, NEW k \in Indexings,
         NEW from \in Indexings, const \cap Active(k) = {},
         \A c \in Cats : k[c] # from[c] => c \in Scanned(k),
         NEW b \in [Pars -> Vals], Cleaned \in [Pars -> Vals],
         \A p \in Pars \ MultiPars : Cleaned[p] = b[p],
         \A p \in Active(from) : Cleaned[p] = b[p],
         \A z \in [Pars -> Vals] :
           (\A p \in Pars \ MultiPars : z[p] = b[p]) => Whole(model, b, from) <= Whole(model, z, from),
         NEW mk, mk = MaskDuring(k),
         NEW r \in Improved(Cleaned, k, Freeze(const, k), mk, opt.disassociate), r.failed = 0
  PROVE  ByPdfs(model, b, Whole(model, r.x, k), k)
<1>1. SUFFICES ASSUME NEW w \in [Pars -> Vals], \A p \in Pars \ MultiPars : w[p] = b[p]
               PROVE  Whole(model, r.x, k) <= Whole(model, w, k)
  BY DEF ByPdfs
<1>2. Typed /\ model \in Models /\ const \in SUBSET Pars /\ Freeze(const, k) \in SUBSET Pars
  BY FrozenTypes DEF FreeInv, LeftInv, HeldInv, Typed, TypeOK
<1>3. NLL(r.x, k, mk) <= NLL(w, k, mk)
  <2>1. \A h \in Channels \ mk.channels : \A p \in Seen(h, k) :
          w[p] = Cleaned[p] \/ p \in r.list \ Freeze(Freeze(const, k), k)
    <3>1. SUFFICES ASSUME NEW h \in Channels \ mk.channels, NEW p \in Seen(h, k), p \notin MultiPars
                   PROVE  w[p] = Cleaned[p]
      BY ScanFloats
    <3>2. p \in Pars
      BY <3>1, SeenOf
    <3> QED  BY <1>1, <3>1, <3>2
  <2>2. \A p \in Constrained : w[p] = Cleaned[p] \/ p \in r.list \ Freeze(Freeze(const, k), k)
    <3>1. SUFFICES ASSUME NEW p \in Constrained, p \notin MultiPars
                   PROVE  w[p] = Cleaned[p]
      BY ScanFloats
    <3> QED  BY <1>1, <3>1, ChannelsAssumption
  <2> QED  BY <1>1, <1>2, <2>1, <2>2, FitBeats
<1>4. r.x \in [Pars -> Vals] /\ Hidden(Cleaned, k, mk) = Hidden(r.x, k, mk)
  BY ScanHides
<1>5. /\ mk.channels # {} => opt.disassociate
      /\ \A h \in Channels \cap mk.channels : ChanCats[h] \subseteq Cats \ Scanned(k) /\ ChanPars[h] \cap MultiPars = {}
      /\ \A h \in Channels \cap mk.channels, g \in Channels \ mk.channels :
              ParsOf(g) \cap ParsOf(h) \cap MultiPars = {}
      /\ mk.constraints \/ mk.channels # {} => Constrained \cap MultiPars = {}
  BY MaskApart
<1>6. \A h \in Channels \cap mk.channels : \A c \in ChanCats[h] : k[c] = from[c]
  BY <1>5
<1>7. Hidden(b, from, mk) = Hidden(Cleaned, k, mk)
  <2>1. ASSUME NEW h \in Channels \cap mk.channels, NEW p \in Seen(h, from) PROVE b[p] = Cleaned[p]
    <3>1. p \in Pars
      BY <2>1, SeenOf
    <3>2. p \in MultiPars => p \in Active(from)
      <4>1. SUFFICES ASSUME p \notin ChanPars[h] PROVE p \in Active(from)
        BY <1>5, <2>1
      <4>2. UNION {PdfPars[c][from[c]] : c \in ChanCats[h]} \subseteq Active(from)
        BY <2>1, ChannelsAssumption DEF Active
      <4> QED  BY <2>1, <4>1, <4>2 DEF Seen
    <3> QED  BY <3>1, <3>2
  <2>2. mk.constraints => \A p \in Constrained : b[p] = Cleaned[p]
    BY <1>5, ChannelsAssumption
  <2> QED  BY <1>2, <1>6, <2>1, <2>2, HiddenEqual
<1>8. Hidden(b, from, mk) <= Hidden(w, k, mk)
  BY <1>1, <1>2, <1>5, <1>6, HiddenLeast
<1>9. /\ Whole(model, r.x, k) = NLL(r.x, k, mk) + Hidden(r.x, k, mk)
      /\ Whole(model, w, k) = NLL(w, k, mk) + Hidden(w, k, mk)
  <2>1. NLL(r.x, k, NoMask) = Whole(model, r.x, k) /\ NLL(w, k, NoMask) = Whole(model, w, k)
    BY WholeIs DEF NoMask
  <2> QED  BY <1>2, <1>4, <2>1, ShownAndHidden
<1>10. /\ NLL(r.x, k, mk) \in Int /\ NLL(w, k, mk) \in Int
       /\ Hidden(r.x, k, mk) \in Int /\ Hidden(w, k, mk) \in Int
  BY <1>2, <1>4, NLLInt, HiddenInt
<1>11. Hidden(r.x, k, mk) <= Hidden(w, k, mk)
  BY <1>4, <1>7, <1>8
<1> QED  BY <1>3, <1>9, <1>10, <1>11

-----------------------------------------------------------------------------
(* The search.                                                             *)

Tried == Chosen(loop.mode) \ loop.todo
Permitted(allowed, k) == \A c \in Cats : k[c] \in allowed[c]

\* minNLL is the minimum at the indices that are set, or at the best ones.
AtIndices == minNLL = Whole(model, x, idx) /\ Everywhere(model, start, minNLL, idx)
AtBest ==
  /\ minNLL = Whole(model, loop.best.x, loop.best.idx)
  /\ Everywhere(model, start, minNLL, loop.best.idx)

\* As long as nothing better is found, the point that the scan started from is least for
\* each combination so far, and the fits start with its parameters of the pdfs there.
Kept ==
  /\ loop.best.idx = loop.from /\ Everywhere(model, start, prevNLL, loop.from)
  /\ Active(loop.from) \subseteq DOMAIN loop.clean
  /\ \A p \in DOMAIN loop.clean : loop.clean[p] = loop.best.x[p]
  /\ loop.fits = 0 => x = loop.best.x
  /\ \A j \in Tried : ByPdfs(model, loop.best.x, prevNLL, Reordered(j, loop.from))

ShortScan ==
  /\ minNLL = Whole(model, loop.best.x, loop.best.idx) /\ minNLL <= prevNLL
  /\ minNLL = prevNLL => Kept
  /\ loop.todo \subseteq Chosen(0)
  /\ loop.fits > 0 => \E j \in Chosen(0) : idx = Reordered(j, loop.from) /\ \A i \in loop.todo : Before(j, i)

LongScan ==
  /\ (Fresh /\ loop.best = [x |-> x, idx |-> idx] /\ minNLL > Whole(model, x, idx)) \/ AtBest
  /\ \A j \in Tried :
       Permitted(loop.allowed, Reordered(j, loop.from)) => Everywhere(model, start, minNLL, Reordered(j, loop.from))

\* Changing one category and parameters of pdfs from y gains nothing.
OneByOne(m, y, v, k) == \A c \in Cats : \A i \in Indices(c) : ByPdfs(m, y, v, [k EXCEPT ![c] = i])

Promise ==
  /\ AtIndices /\ Agrees(start, x)
  /\ opt.short => \E y \in [Pars -> Vals] :
       Agrees(start, y) /\ Whole(model, y, idx) = minNLL /\ OneByOne(model, y, minNLL, idx)
  /\ ~opt.short => \A k \in Indexings : Permitted(loop.allowed, k) => Everywhere(model, start, minNLL, k)

Searching ==
  /\ pc = "iterate" => AtIndices /\ minNLL = prevNLL
  /\ pc = "multi" =>
       IF opt.short
       THEN /\ AtIndices /\ minNLL = prevNLL
            /\ Active(idx) \subseteq DOMAIN loop.clean /\ \A p \in DOMAIN loop.clean : loop.clean[p] = x[p]
       ELSE IF loop.mode = 0 THEN minNLL > Whole(model, x, idx) ELSE AtIndices
  /\ pc = "combo" => IF opt.short THEN ShortScan ELSE LongScan
  /\ pc = "full" =>
       /\ minNLL = Whole(model, x, idx) /\ minNLL <= prevNLL
       /\ minNLL = prevNLL => OneByOne(model, x, minNLL, idx)
  /\ pc \in {"last", "end"} \/ Returned => (iterations < MaxIterations => Promise)

Sound == failures = 0 => Searching

FoundInv == FreeInv /\ Sound

\* A fit of all that floats, with nothing masked.
LEMMA FitAll ==
  ASSUME FreeInv, Separate, mask = NoMask, NEW y \in [Pars -> Vals], Agrees(start, y),
         NEW k \in Indexings, NEW cst \in SUBSET Pars, cst \cap Active(k) = {},
         start.const \subseteq cst, cst \subseteq start.const \cup Extra,
         NEW force, force \/ MaskChannels = 0,
         NEW r \in Improved(y, k, cst, mask, force), r.failed = 0
  PROVE  /\ r.x \in [Pars -> Vals] /\ Agrees(start, r.x)
         /\ Everywhere(model, start, Whole(model, r.x, k), k)
<1>1. Typed /\ start.const \cap MultiPars = {} /\ start.const \in SUBSET cst
  BY DEF FreeInv, LeftInv, HeldInv, Holding
<1>2. ~mask.on /\ mask.channels = {} /\ ~mask.constraints
  BY DEF NoMask
<1>3. force \/ list \in {{}, Pars}
  BY DEF FreeInv, Known
<1>4. r.list = Pars
  BY <1>2, <1>3, KnowsAll
<1>5. r.x \in [Pars -> Vals]
  BY <1>1, ImprovedEnds
<1>6. \A p \in start.const : r.x[p] = y[p]
  BY <1>1, ImprovedHolds
<1>7. Agrees(start, r.x)
  BY <1>6 DEF Agrees
<1>8. Everywhere(model, start, Whole(model, r.x, k), k)
  BY <1>2, <1>4, WholeFit
<1> QED  BY <1>5, <1>7, <1>8

\* The value that is shown when nothing is masked.
LEMMA ShownWhole ==
  ASSUME FreeInv, mask = NoMask, offset = 0, NEW y \in [Pars -> Vals], NEW k \in Indexings
  PROVE  Shown(y, k, mask, offset) = Whole(model, y, k)
<1>1. NLL(y, k, mask) = Whole(model, y, k)
  BY WholeIs DEF NoMask
<1>2. Whole(model, y, k) \in Int
  BY WholeInt DEF FreeInv, LeftInv, HeldInv, Typed, TypeOK
<1> QED  BY <1>1, <1>2 DEF Shown

LEMMA EverywhereLess ==
  ASSUME NEW m \in Models, NEW s, NEW v \in Int, NEW u \in Int, u <= v, NEW k \in Indexings,
         Everywhere(m, s, v, k)
  PROVE  Everywhere(m, s, u, k)
<1>1. \A z \in [Pars -> Vals] : Whole(m, z, k) \in Int
  BY WholeInt
<1>2. ASSUME NEW z \in [Pars -> Vals], Agrees(s, z) PROVE u <= Whole(m, z, k)
  <2>1. v <= Whole(m, z, k)
    BY <1>2 DEF Everywhere
  <2>2. Whole(m, z, k) \in Int
    BY <1>1
  <2> QED  BY <2>1, <2>2
<1> QED  BY <1>2 DEF Everywhere

\* Where no parameter of a pdf is held, the minimum is one for those.
LEMMA EverywhereByPdfs ==
  ASSUME NEW m, NEW s, NEW v, NEW k, NEW b, Everywhere(m, s, v, k), Agrees(s, b),
         s.const \cap MultiPars = {}, s.const \subseteq Pars
  PROVE  ByPdfs(m, b, v, k)
<1>1. ASSUME NEW z \in [Pars -> Vals], \A p \in Pars \ MultiPars : z[p] = b[p]
      PROVE  v <= Whole(m, z, k)
  <2>1. Agrees(s, z)
    BY <1>1 DEF Agrees
  <2> QED  BY <2>1 DEF Everywhere
<1> QED  BY <1>1 DEF ByPdfs

-----------------------------------------------------------------------------
LEMMA SoundInit ==
  ASSUME Init
  PROVE  Sound
  BY DEF Init, Sound, Searching, Returned

LEMMA SoundCall ==
  ASSUME Call
  PROVE  Sound'
  BY DEF Call, Sound, Searching, Returned

LEMMA SoundPreFit ==
  ASSUME PreFit
  PROVE  Sound'
  BY DEF PreFit, Sound, Searching, Returned

LEMMA SoundFirst ==
  ASSUME FreeInv, Separate, First
  PROVE  Sound'
<1>1. /\ model \in Models /\ const \cap MultiPars = {} /\ mask = NoMask /\ offset = 0 /\ x \in [Pars -> Vals]
      /\ const \in SUBSET Pars /\ idx \in Indexings /\ opt \in Options /\ Typed /\ loop.frozen = {}
      /\ start.const \subseteq const /\ const \subseteq start.const \cup Extra
      /\ \A p \in start.const : x[p] = start.x[p]
      /\ failures \in Nat
  BY BoundsAssumption DEF First, FreeInv, LeftInv, HeldInv, Holding, Layers, Typed, TypeOK, Unpinned
<1>2. Agrees(start, x)
  BY <1>1 DEF Agrees
<1>3. UNCHANGED <<opt, idx, model, start>>
  BY DEF First
<1>4. CASE opt.short
  <2> DEFINE cst == Freeze(const, idx)
  <2>1. PICK r \in Improved(x, idx, cst, mask, opt.analytic) :
          /\ x' = r.x /\ failures' = failures + r.failed
          /\ minNLL' = Shown(r.x, idx, mask, offset)
          /\ prevNLL' = minNLL' /\ pc' = "iterate"
    BY <1>4 DEF First
  <2>2. SUFFICES ASSUME failures' = 0 PROVE Searching'
    BY DEF Sound
  <2>3. cst \in SUBSET Pars /\ cst \cap Active(idx) = {} /\ const \subseteq cst /\ cst \subseteq const \cup Extra
    BY <1>1, FrozenTypes, FreezeParts, FreezeBounds, ActiveIn
  <2> HIDE DEF cst
  <2>4. r.failed = 0
    <3>1. r.failed \in {0, 1}
      BY <1>1, <2>1, <2>3, ImprovedEnds
    <3> QED  BY <1>1, <2>1, <2>2, <3>1
  <2>5. opt.analytic \/ MaskChannels = 0
    BY <1>1 DEF MaskChannels, Separate
  <2>6. start.const \subseteq cst /\ cst \subseteq start.const \cup Extra
    BY <1>1, <2>3
  <2>7. r.x \in [Pars -> Vals] /\ Everywhere(model, start, Whole(model, r.x, idx), idx)
    BY <1>1, <1>2, <2>3, <2>4, <2>5, <2>6, FitAll
  <2>8. minNLL' = Whole(model, r.x, idx)
    BY <1>1, <2>1, <2>7, ShownWhole
  <2>9. AtIndices' /\ minNLL' = prevNLL'
    BY <1>3, <2>1, <2>7, <2>8 DEF AtIndices
  <2> QED  BY <2>1, <2>9 DEF Searching, Returned
<1>5. CASE ~opt.short
  <2>1. /\ minNLL' = 10 + Shown(x, idx, mask, offset) /\ pc' = "multi" /\ x' = x
        /\ loop' = [NoLoop EXCEPT !.clean = x]
    BY <1>5 DEF First
  <2>2. Shown(x, idx, mask, offset) = Whole(model, x, idx) /\ Whole(model, x, idx) \in Int
    BY <1>1, ShownWhole, WholeInt
  <2>3. minNLL' > Whole(model, x, idx)
    BY <2>1, <2>2
  <2>4. loop'.mode = 0
    BY <2>1 DEF NoLoop
  <2> QED  BY <1>3, <1>5, <2>1, <2>3, <2>4 DEF Sound, Searching, Returned
<1> QED  BY <1>4, <1>5

LEMMA SoundIterate ==
  ASSUME FoundInv, Separate, Iterate
  PROVE  Sound'
<1> DEFINE cst == Freeze(const, idx) \cup FrozenForScan(Freeze(const, idx))
<1>1. /\ pc = "iterate" /\ pc' = "multi" /\ const' = cst
      /\ loop' = [NoLoop EXCEPT !.clean = [p \in Pars \ cst |-> x[p]], !.frozen = FrozenForScan(Freeze(const, idx))]
      /\ UNCHANGED <<model, opt, x, idx, minNLL, prevNLL, start, failures>>
  BY DEF Iterate
<1>2. opt.short /\ FreeInv /\ idx \in Indexings
  BY <1>1 DEF FoundInv, FreeInv, LeftInv, HeldInv, Holding, Typed, TypeOK
<1>3. loop'.mode = 0 /\ loop'.clean = [p \in Pars \ cst |-> x[p]]
  BY <1>1 DEF NoLoop
<1>4. cst \cap Active(idx) = {}
  <2>1. Unpinned'
    BY <1>2, FreeIterate
  <2> HIDE DEF cst
  <2> QED  BY <1>1, <1>3, <2>1 DEF Unpinned
<1> HIDE DEF cst
<1>5. Active(idx) \subseteq Pars \ cst
  BY <1>2, <1>4, ActiveIn
<1>6. SUFFICES ASSUME failures = 0 PROVE Searching'
  BY <1>1 DEF Sound
<1>7. AtIndices /\ minNLL = prevNLL
  BY <1>1, <1>6 DEF FoundInv, Sound, Searching
<1>8. AtIndices'
  BY <1>1, <1>7 DEF AtIndices
<1>9. Active(idx') \subseteq DOMAIN loop'.clean /\ \A p \in DOMAIN loop'.clean : loop'.clean[p] = x'[p]
  BY <1>1, <1>3, <1>5
<1> QED  BY <1>1, <1>2, <1>7, <1>8, <1>9 DEF Searching, Returned

LEMMA SoundStartMultiple ==
  ASSUME FoundInv, StartMultiple
  PROVE  Sound'
<1>1. /\ loop' = [loop EXCEPT !.from = idx,
                              !.todo = Chosen(loop.mode) \ (IF loop.mode = 0 THEN {} ELSE {Present}),
                              !.fits = 0, !.best = [x |-> x, idx |-> idx],
                              !.allowed = IF loop.mode = 0 THEN NoLoop.allowed ELSE @]
      /\ pc = "multi" /\ pc' = "combo"
      /\ UNCHANGED <<model, opt, x, idx, minNLL, prevNLL, start, failures>>
  BY DEF StartMultiple
<1>2. /\ loop'.from = idx /\ loop'.fits = 0 /\ loop'.best = [x |-> x, idx |-> idx] /\ loop'.mode = loop.mode
      /\ loop'.clean = loop.clean
      /\ loop'.todo = Chosen(loop.mode) \ (IF loop.mode = 0 THEN {} ELSE {Present})
  BY <1>1 DEF FoundInv, FreeInv, LeftInv, HeldInv, Typed, Locals
<1>3. loop'.best.x = x /\ loop'.best.idx = idx
  BY <1>2
<1>4. idx \in Indexings /\ FreeInv
  BY DEF FoundInv, FreeInv, LeftInv, HeldInv, Typed, TypeOK
<1>5. SUFFICES ASSUME failures = 0 PROVE Searching'
  BY <1>1 DEF Sound
<1>6. Searching
  BY <1>5 DEF FoundInv, Sound
<1>7. Tried' = IF loop.mode = 0 THEN {} ELSE {Present}
  BY <1>2, ChosenType DEF Tried
<1>8. CASE opt.short
  <2>1. /\ AtIndices /\ minNLL = prevNLL
        /\ Active(idx) \subseteq DOMAIN loop.clean /\ \A p \in DOMAIN loop.clean : loop.clean[p] = x[p]
    BY <1>1, <1>6, <1>8 DEF Searching
  <2>2. loop.mode = 0
    BY <1>1, <1>4, <1>8 DEF FreeInv, Known
  <2>3. prevNLL \in Int
    BY <1>4 DEF FreeInv, LeftInv, HeldInv, Typed, TypeOK
  <2>4. Kept'
    <3>1. Tried' = {}
      BY <1>7, <2>2
    <3>2. loop'.best.idx = loop'.from /\ Everywhere(model, start, prevNLL, loop'.from)
      BY <1>2, <1>3, <2>1 DEF AtIndices
    <3>3. Active(loop'.from) \subseteq DOMAIN loop'.clean /\ \A p \in DOMAIN loop'.clean : loop'.clean[p] = loop'.best.x[p]
      BY <1>2, <1>3, <2>1
    <3> QED  BY <1>1, <1>3, <3>1, <3>2, <3>3 DEF Kept
  <2>5. ShortScan'
    <3>1. minNLL' = Whole(model', loop'.best.x, loop'.best.idx)
      BY <1>1, <1>3, <2>1 DEF AtIndices
    <3>2. minNLL' <= prevNLL' /\ ~(loop'.fits > 0)
      BY <1>1, <1>2, <2>1, <2>3
    <3>3. loop'.todo \subseteq Chosen(0)
      BY <1>2, <2>2
    <3> QED  BY <2>4, <3>1, <3>2, <3>3 DEF ShortScan
  <2> QED  BY <1>1, <1>8, <2>5 DEF Searching, Returned
<1>9. CASE ~opt.short
  <2>1. CASE loop.mode = 0
    <3>1. minNLL > Whole(model, x, idx)
      BY <1>1, <1>6, <1>9, <2>1 DEF Searching
    <3>2. Fresh'
      BY <1>1, <1>2, <2>1 DEF Fresh, Chosen
    <3>3. LongScan'
      BY <1>1, <1>2, <1>7, <2>1, <3>1, <3>2 DEF LongScan
    <3> QED  BY <1>1, <1>9, <3>3 DEF Searching, Returned
  <2>2. CASE loop.mode # 0
    <3>1. AtIndices
      BY <1>1, <1>6, <1>9, <2>2 DEF Searching
    <3>2. AtBest'
      BY <1>1, <1>3, <3>1 DEF AtBest, AtIndices
    <3>3. Reordered(Present, idx) = idx
      BY <1>4, ReorderedPresent
    <3>4. \A j \in Tried' : Everywhere(model, start, minNLL, Reordered(j, idx))
      BY <1>7, <2>2, <3>1, <3>3 DEF AtIndices
    <3>5. LongScan'
      BY <1>1, <1>2, <3>2, <3>4 DEF LongScan
    <3> QED  BY <1>1, <1>9, <3>5 DEF Searching, Returned
  <2> QED  BY <2>1, <2>2
<1> QED  BY <1>8, <1>9

\* What is left after a combination, and what was tried.
LEMMA TriedNext ==
  ASSUME FreeInv, pc = "combo", loop.todo # {}
  PROVE  /\ FirstOf(loop.todo) \in Indexings /\ loop.from \in Indexings /\ loop.todo \subseteq Indexings
         /\ FirstOf(loop.todo) \in loop.todo
         /\ Chosen(loop.mode) \ Left \subseteq Tried \cup {FirstOf(loop.todo)}
         /\ \A i \in Left : Before(FirstOf(loop.todo), i)
<1>1. loop.from \in Indexings /\ loop.todo \in SUBSET Indexings
  BY DEF FreeInv, LeftInv, HeldInv, Typed, TypeOK, Locals
<1>2. FirstOf(loop.todo) \in loop.todo
  BY <1>1, FirstOfIn
<1>3. \A i \in Left : Before(FirstOf(loop.todo), i)
  BY <1>1, FirstOfLeads DEF Left
<1> QED  BY <1>1, <1>2, <1>3 DEF Left, Tried

LEMMA SoundSkip ==
  ASSUME FoundInv, SkipCombination
  PROVE  Sound'
<1>1. /\ pc = "combo" /\ loop.todo # {} /\ loop' = [loop EXCEPT !.todo = Left]
      /\ {c \in Cats : NextCombination[c] \notin loop.allowed[c]} # {}
      /\ UNCHANGED <<model, opt, pc, minNLL, prevNLL, start, failures>>
  BY DEF SkipCombination
<1>2. /\ loop'.from = loop.from /\ loop'.best = loop.best /\ loop'.mode = loop.mode
      /\ loop'.allowed = loop.allowed /\ loop'.todo = Left
  BY <1>1 DEF FoundInv, FreeInv, LeftInv, HeldInv, Typed, Locals
<1>3. loop.mode # 0 /\ ~opt.short
  BY <1>1, SkipIsLate DEF FoundInv, FreeInv, Known
<1>4. SUFFICES ASSUME failures = 0 PROVE Searching'
  BY <1>1 DEF Sound
<1>5. LongScan
  BY <1>1, <1>3, <1>4 DEF FoundInv, Sound, Searching
<1>6. AtBest
  BY <1>3, <1>5 DEF LongScan, Fresh
<1>7. AtBest'
  BY <1>1, <1>2, <1>6 DEF AtBest
<1>8. ~Permitted(loop.allowed, Reordered(FirstOf(loop.todo), loop.from))
  BY <1>1 DEF Permitted, NextCombination
<1>9. Tried' \subseteq Tried \cup {FirstOf(loop.todo)}
  BY <1>1, <1>2, TriedNext DEF FoundInv, Tried
<1>10. LongScan'
  BY <1>1, <1>2, <1>5, <1>7, <1>8, <1>9 DEF LongScan
<1> QED  BY <1>1, <1>3, <1>10 DEF Searching, Returned

LEMMA SoundEndMultiple ==
  ASSUME FoundInv, EndMultiple
  PROVE  Sound'
<1>1. /\ pc = "combo" /\ loop.todo = {}
      /\ x' = loop.best.x /\ idx' = loop.best.idx
      /\ UNCHANGED <<model, opt, minNLL, prevNLL, start, failures>>
      /\ \/ opt.short /\ pc' = "full" /\ UNCHANGED loop
         \/ ~opt.short /\ loop.mode < 2 /\ NCats > 1 /\ pc' = "multi" /\ loop' = [loop EXCEPT !.mode = @ + 1]
         \/ ~opt.short /\ (loop.mode = 2 \/ NCats = 1) /\ pc' = "last" /\ UNCHANGED loop
  BY DEF EndMultiple
<1>2. SUFFICES ASSUME failures = 0 PROVE Searching'
  BY <1>1 DEF Sound
<1>3. Searching /\ loop.from \in Indexings
  BY <1>1, <1>2 DEF FoundInv, Sound, FreeInv, LeftInv, HeldInv, Typed, Locals
<1>4. Tried = Chosen(loop.mode)
  BY <1>1 DEF Tried
<1>5. CASE opt.short
  <2>1. ShortScan
    BY <1>1, <1>3, <1>5 DEF Searching
  <2>2. loop.mode = 0 /\ pc' = "full"
    BY <1>1, <1>5 DEF FoundInv, FreeInv, Known
  <2>3. ASSUME minNLL = prevNLL PROVE OneByOne(model, loop.best.x, minNLL, loop.best.idx)
    <3>1. Kept
      BY <2>1, <2>3 DEF ShortScan
    <3>2. ASSUME NEW c \in Cats, NEW i \in Indices(c)
          PROVE  ByPdfs(model, loop.best.x, minNLL, [loop.from EXCEPT ![c] = i])
      <4>1. PICK j \in Chosen(0) : Reordered(j, loop.from) = [loop.from EXCEPT ![c] = i]
        BY <1>3, ChosenOnto
      <4>2. ByPdfs(model, loop.best.x, prevNLL, Reordered(j, loop.from))
        BY <1>4, <2>2, <3>1 DEF Kept
      <4> QED  BY <2>3, <4>1, <4>2
    <3>3. loop.best.idx = loop.from
      BY <3>1 DEF Kept
    <3> QED  BY <3>2, <3>3 DEF OneByOne
  <2> QED  BY <1>1, <2>1, <2>2, <2>3 DEF Searching, Returned, ShortScan
<1>6. CASE ~opt.short
  <2>1. LongScan
    BY <1>1, <1>3, <1>6 DEF Searching
  <2>2. AtBest
    <3>1. Present \in Chosen(0)
      BY ChosenType
    <3> QED  BY <1>1, <2>1, <3>1 DEF LongScan, Fresh
  <2>3. AtIndices'
    BY <1>1, <2>2 DEF AtIndices, AtBest
  <2>4. CASE pc' = "multi"
    <3>1. loop'.mode = loop.mode + 1 /\ loop.mode \in 0..2
      BY <1>1, <1>6, <2>4 DEF FoundInv, FreeInv, LeftInv, HeldInv, Typed, Locals, TypeOK
    <3>2. loop'.mode # 0
      BY <3>1
    <3> QED  BY <1>1, <1>6, <2>3, <2>4, <3>2 DEF Searching, Returned
  <2>5. CASE pc' # "multi"
    <3>1. (loop.mode = 2 \/ NCats = 1) /\ pc' = "last" /\ loop' = loop
      BY <1>1, <1>6, <2>5
    <3>2. Tried = Indexings
      BY <1>4, <3>1, ChosenAll
    <3>3. ASSUME NEW k \in Indexings, Permitted(loop.allowed, k) PROVE Everywhere(model, start, minNLL, k)
      <4>1. PICK j \in Indexings : Reordered(j, loop.from) = k
        BY <1>3, ReorderedOnto
      <4> QED  BY <2>1, <3>2, <3>3, <4>1 DEF LongScan
    <3>4. Agrees(start, x)'
      <4>1. \A p \in start.const : loop.best.x[p] = start.x[p]
        BY <1>1 DEF FoundInv, FreeInv, LeftInv, HeldInv, Holding
      <4> QED  BY <1>1, <4>1 DEF Agrees
    <3>5. Promise'
      BY <1>1, <1>6, <2>3, <3>1, <3>3, <3>4 DEF Promise
    <3> QED  BY <3>1, <3>5 DEF Searching, Returned
  <2> QED  BY <2>4, <2>5
<1> QED  BY <1>5, <1>6

\* One more combination does not gain anything either.
LEMMA ScanStep ==
  ASSUME FoundInv, Maskable, Separate, pc = "combo", loop.todo # {}, opt.short, ShortScan, Kept,
         minNLL = prevNLL, NEW k, k = NextCombination, Cleaned \in [Pars -> Vals],
         NEW r \in Improved(Cleaned, k, Freeze(const, k), MaskDuring(k), opt.disassociate), r.failed = 0,
         minNLL <= Whole(model, r.x, k)
  PROVE  ByPdfs(model, loop.best.x, prevNLL, k)
<1> DEFINE b == loop.best.x
           from == loop.from
           j == FirstOf(loop.todo)
<1>1. /\ FreeInv /\ model \in Models /\ const \in SUBSET Pars /\ Freeze(const, k) \in SUBSET Pars /\ Typed
      /\ from \in Indexings /\ b \in [Pars -> Vals] /\ prevNLL \in Int
  BY FrozenTypes DEF FoundInv, FreeInv, LeftInv, HeldInv, Typed, TypeOK, Locals
<1>2. k \in Indexings /\ k = Reordered(j, from)
  BY <1>1, NextCombinationType DEF NextCombination
<1>3. start.const \cap MultiPars = {} /\ start.const \subseteq Pars /\ Agrees(start, b)
  BY <1>1 DEF FreeInv, LeftInv, HeldInv, Holding, Typed, Locals, Agrees
<1>4. Everywhere(model, start, prevNLL, from) /\ Whole(model, b, from) = prevNLL
  BY DEF Kept, ShortScan
<1>5. ByPdfs(model, b, prevNLL, from)
  BY <1>3, <1>4, EverywhereByPdfs
<1>6. CASE k = from
  BY <1>5, <1>6
<1>7. CASE k # from
  <2>1. ~Fresh
    <3>1. SUFFICES ASSUME Fresh PROVE k = from
      BY <1>7
    <3>2. k = idx
      BY <1>1, <3>1, FirstCombination
    <3> QED  BY <3>1, <3>2 DEF Fresh
  <2>2. const \cap MultiPars = {} /\ loop.fits > 0
    BY <1>1, <2>1 DEF FreeInv, Unpinned, Known
  <2>3. const \cap Active(k) = {}
    BY <1>2, <2>2, ActiveIn
  <2>4. PICK cur \in Chosen(0) : idx = Reordered(cur, from) /\ \A i \in loop.todo : Before(cur, i)
    BY <2>2 DEF ShortScan
  <2>5. j \in Chosen(0) /\ Before(cur, j)
    <3>1. j \in loop.todo
      BY <1>1, TriedNext
    <3> QED  BY <2>4, <3>1 DEF ShortScan
  <2> HIDE DEF j
  <2>6. \A c \in Cats : k[c] # from[c] => c \in Scanned(k)
    BY <1>1, <1>2, <2>4, <2>5, ScansTheChanged
  <2>7. PICK mk \in {MaskDuring(k)} : r \in Improved(Cleaned, k, Freeze(const, k), mk, opt.disassociate)
    OBVIOUS
  <2>8. \A p \in Pars \ MultiPars : Cleaned[p] = b[p]
    <3>1. \A p \in Pars \ MultiPars : Cleaned[p] = x[p]
      BY <1>1, <1>2, <2>7, ScanHides
    <3> QED  BY <1>1, <3>1 DEF FreeInv, LeftInv, Layers
  <2>9. \A p \in Active(from) : Cleaned[p] = b[p]
    <3>1. \A p \in Active(from) : p \in Pars /\ p \in DOMAIN loop.clean /\ loop.clean[p] = b[p]
      BY <1>1, ActiveIn DEF Kept
    <3> QED  BY <2>2, <3>1 DEF Cleaned
  <2>10. \A z \in [Pars -> Vals] :
           (\A p \in Pars \ MultiPars : z[p] = b[p]) => Whole(model, b, from) <= Whole(model, z, from)
    BY <1>4, <1>5 DEF ByPdfs
  <2> HIDE DEF b, from
  <2>11. ByPdfs(model, b, Whole(model, r.x, k), k)
    BY <1>1, <1>2, <2>3, <2>6, <2>7, <2>8, <2>9, <2>10, ScanFit
  <2>12. r.x \in [Pars -> Vals]
    BY <1>1, <1>2, <2>7, ScanHides
  <2>13. Whole(model, r.x, k) \in Int /\ prevNLL <= Whole(model, r.x, k)
    BY <1>1, <1>2, <2>12, WholeInt
  <2>14. ASSUME NEW z \in [Pars -> Vals], \A p \in Pars \ MultiPars : z[p] = b[p]
         PROVE  prevNLL <= Whole(model, z, k)
    <3>1. Whole(model, r.x, k) <= Whole(model, z, k)
      BY <2>11, <2>14 DEF ByPdfs
    <3>2. Whole(model, z, k) \in Int
      BY <1>1, <1>2, WholeInt
    <3> QED  BY <1>1, <2>13, <3>1, <3>2
  <2>15. ByPdfs(model, b, prevNLL, k)
    BY <2>14 DEF ByPdfs
  <2> QED  BY <2>15 DEF b
<1> QED  BY <1>6, <1>7

LEMMA SoundFitShort ==
  ASSUME FoundInv, Maskable, Separate, FitCombination, opt.short
  PROVE  Sound'
<1> DEFINE k == NextCombination
<1>1. /\ pc = "combo" /\ loop.todo # {} /\ k \in Indexings /\ Cleaned \in [Pars -> Vals] /\ idx' = k
      /\ loop'.mode = loop.mode /\ loop'.from = loop.from /\ loop'.todo = Left
      /\ loop'.fits = loop.fits + 1 /\ loop'.clean = loop.clean
      /\ UNCHANGED <<model, opt, pc, prevNLL, start>>
  BY CombinationFit DEF FoundInv
<1>2. PICK r \in Improved(Cleaned, k, Freeze(const, k), MaskDuring(k), opt.disassociate) :
        /\ failures' = failures + r.failed
        /\ minNLL' = Min({Whole(model, r.x, k), minNLL})
        /\ loop'.best = IF Whole(model, r.x, k) < minNLL THEN Better(loop.best, r.x, k) ELSE loop.best
  BY CombinationFit DEF FoundInv
<1>3. /\ FreeInv /\ model \in Models /\ Typed /\ const \in SUBSET Pars /\ Freeze(const, k) \in SUBSET Pars
      /\ minNLL \in Int /\ prevNLL \in Int /\ failures \in Nat
  BY FrozenTypes, BoundsAssumption DEF FoundInv, FreeInv, LeftInv, HeldInv, Typed, TypeOK
<1> DEFINE value == Whole(model, r.x, k)
<1>4. k = NextCombination /\ k = Reordered(FirstOf(loop.todo), loop.from)
  BY DEF NextCombination
<1> HIDE DEF k
<1>5. r.x \in [Pars -> Vals] /\ r.failed \in {0, 1}
  BY <1>1, <1>3, ImprovedEnds
<1>6. value \in Int
  BY <1>1, <1>3, <1>5, WholeInt
<1>7. SUFFICES ASSUME failures' = 0 PROVE ShortScan'
  BY <1>1 DEF Sound, Searching, Returned
<1>8. failures = 0 /\ r.failed = 0
  BY <1>2, <1>3, <1>5, <1>7
<1>9. ShortScan
  BY <1>1, <1>8 DEF FoundInv, Sound, Searching
<1>10. loop'.fits > 0 /\ loop'.fits # 0
  BY <1>1, <1>3 DEF FreeInv, Known
<1>11. loop'.todo \subseteq Chosen(0) /\ FirstOf(loop.todo) \in Chosen(0)
  BY <1>1, <1>3, <1>9, TriedNext DEF ShortScan, Left
<1>12. idx' = Reordered(FirstOf(loop.todo), loop'.from) /\ \A i \in loop'.todo : Before(FirstOf(loop.todo), i)
  BY <1>1, <1>3, <1>4, TriedNext
<1> HIDE DEF value
<1>16. \E i \in Chosen(0) : idx' = Reordered(i, loop'.from) /\ \A l \in loop'.todo : Before(i, l)
  BY <1>11, <1>12
<1>13. minNLL <= prevNLL /\ minNLL = Whole(model, loop.best.x, loop.best.idx)
  BY <1>9 DEF ShortScan
<1>14. CASE value < minNLL
  <2>1. loop'.best = [x |-> r.x, idx |-> k]
    BY <1>2, <1>14 DEF Better, value
  <2>2. minNLL' = value
    <3>1. minNLL' = Min({value, minNLL})
      BY <1>2 DEF value
    <3>2. minNLL' \in {value, minNLL} /\ minNLL' <= value /\ minNLL' <= minNLL
      BY <1>3, <1>6, <3>1, LeastOfTwo
    <3> QED  BY <1>3, <1>6, <1>14, <3>2
  <2>3. minNLL' <= prevNLL' /\ minNLL' # prevNLL'
    BY <1>1, <1>3, <1>6, <1>13, <1>14, <2>2
  <2>4. minNLL' = Whole(model', loop'.best.x, loop'.best.idx)
    BY <1>1, <2>1, <2>2 DEF value
  <2> QED  BY <1>11, <1>16, <2>3, <2>4 DEF ShortScan
<1>15. CASE ~(value < minNLL)
  <2>1. loop'.best = loop.best
    BY <1>2, <1>15 DEF value
  <2>2. minNLL' = minNLL /\ minNLL <= value
    <3>1. minNLL' = Min({value, minNLL})
      BY <1>2 DEF value
    <3>2. minNLL' \in {value, minNLL} /\ minNLL' <= value /\ minNLL' <= minNLL
      BY <1>3, <1>6, <3>1, LeastOfTwo
    <3> QED  BY <1>3, <1>6, <1>15, <3>2
  <2>3. ASSUME minNLL = prevNLL PROVE Kept'
    <3>1. Kept
      BY <1>9, <2>3 DEF ShortScan
    <3>2. ByPdfs(model, loop.best.x, prevNLL, k)
      BY <1>1, <1>4, <1>8, <1>9, <2>2, <2>3, <3>1, ScanStep DEF value
    <3>3. Tried' \subseteq Tried \cup {FirstOf(loop.todo)}
      BY <1>1, <1>3, TriedNext DEF Tried
    <3>4. \A i \in Tried' : ByPdfs(model, loop.best.x, prevNLL, Reordered(i, loop.from))
      BY <1>4, <3>1, <3>2, <3>3 DEF Kept
    <3>5. /\ loop.best.idx = loop.from /\ Everywhere(model, start, prevNLL, loop.from)
          /\ Active(loop.from) \subseteq DOMAIN loop.clean
          /\ \A p \in DOMAIN loop.clean : loop.clean[p] = loop.best.x[p]
      BY <3>1 DEF Kept
    <3> QED  BY <1>1, <1>10, <2>1, <3>4, <3>5 DEF Kept
  <2>4. minNLL' <= prevNLL' /\ minNLL' = Whole(model', loop'.best.x, loop'.best.idx)
    BY <1>1, <1>13, <2>1, <2>2
  <2>5. minNLL' = prevNLL' => Kept'
    BY <1>1, <2>2, <2>3
  <2> QED  BY <1>11, <1>16, <2>4, <2>5 DEF ShortScan
<1> QED  BY <1>14, <1>15

LEMMA SoundFitLong ==
  ASSUME FoundInv, Maskable, Separate, FitCombination, ~opt.short
  PROVE  Sound'
<1> DEFINE k == NextCombination
           cst == Freeze(const, k)
           value(r) == Whole(model, r.x, k)
<1>1. /\ pc = "combo" /\ loop.todo # {} /\ k \in Indexings /\ Cleaned \in [Pars -> Vals] /\ idx' = k
      /\ loop'.mode = loop.mode /\ loop'.from = loop.from /\ loop'.todo = Left
      /\ UNCHANGED <<model, opt, pc, start>>
  BY CombinationFit DEF FoundInv
<1>2. PICK r \in Improved(Cleaned, k, cst, MaskDuring(k), opt.disassociate) :
        /\ failures' = failures + r.failed
        /\ minNLL' = Min({value(r), minNLL})
        /\ loop'.best = IF value(r) < minNLL THEN Better(loop.best, r.x, k) ELSE loop.best
        /\ loop'.allowed = StillAllowed(k, value(r), minNLL', loop'.best.idx)
  BY CombinationFit DEF FoundInv
<1>3. /\ FreeInv /\ model \in Models /\ Typed /\ const \in SUBSET Pars /\ cst \in SUBSET Pars
      /\ minNLL \in Int /\ failures \in Nat /\ x \in [Pars -> Vals] /\ mask \in Masks
  BY FrozenTypes, BoundsAssumption DEF FoundInv, FreeInv, LeftInv, HeldInv, Typed, TypeOK, Masks
<1>4. k = NextCombination /\ k = Reordered(FirstOf(loop.todo), loop.from)
  BY DEF NextCombination
<1>5. Fresh => k = idx
  BY <1>1, <1>3, FirstCombination
<1> HIDE DEF k
<1>6. r.x \in [Pars -> Vals] /\ r.failed \in {0, 1}
  BY <1>1, <1>3, ImprovedEnds
<1>7. value(r) \in Int
  BY <1>1, <1>3, <1>6, WholeInt
<1>8. SUFFICES ASSUME failures' = 0 PROVE LongScan'
  BY <1>1 DEF Sound, Searching, Returned
<1>9. failures = 0 /\ r.failed = 0
  BY <1>2, <1>3, <1>6, <1>8
<1>10. LongScan
  BY <1>1, <1>9 DEF FoundInv, Sound, Searching
\* The fit.
<1>11. MaskChannels = 0 /\ mask = NoMask /\ MaskDuring(k) = mask
  <2>1. /\ MaskChannels = 0 /\ ~mask.on /\ mask.channels = {} /\ ~mask.constraints /\ MaskDuring(k) = mask
    BY <1>1, <1>3, NothingMasked
  <2> QED  BY <1>3, <2>1 DEF Masks, NoMask
<1>12. cst \cap Active(k) = {} /\ start.const \subseteq cst /\ cst \subseteq start.const \cup Extra
  <2>1. const \cap Active(k) = {}
    BY <1>1, <1>3, <1>5, ActiveIn DEF FreeInv, Unpinned
  <2>2. start.const \subseteq const /\ const \subseteq start.const \cup Extra
    BY <1>1, <1>3 DEF FreeInv, LeftInv, HeldInv, Holding, Layers
  <2>3. const \subseteq cst /\ cst \subseteq const \cup Extra /\ cst \cap Active(k) = {}
    BY <2>1, FreezeParts, FreezeBounds
  <2> QED  BY <2>2, <2>3
<1>13. Agrees(start, Cleaned)
  <2>1. /\ \A p \in start.const : x[p] = start.x[p] /\ p \in Pars
        /\ \A p \in start.const \cap DOMAIN loop.clean : loop.clean[p] = start.x[p]
    BY <1>1, <1>3 DEF FreeInv, LeftInv, HeldInv, Holding, Typed, Locals
  <2> QED  BY <2>1 DEF Agrees, Cleaned
<1> HIDE DEF cst
<1>14. Everywhere(model, start, value(r), k)
  <2>1. r \in Improved(Cleaned, k, cst, mask, opt.disassociate)
    BY <1>2, <1>11
  <2> QED  BY <1>1, <1>3, <1>9, <1>11, <1>12, <1>13, <2>1, FitAll
<1> DEFINE v == value(r)
<1>15. v \in Int /\ Everywhere(model, start, v, k) /\ v = Whole(model, r.x, k)
  BY <1>7, <1>14
<1>16. minNLL' = Min({v, minNLL}) /\ loop'.best = IF v < minNLL THEN Better(loop.best, r.x, k) ELSE loop.best
  BY <1>2
<1>17. loop'.allowed = StillAllowed(k, v, minNLL', loop'.best.idx)
  BY <1>2
<1> HIDE DEF value, v
<1>18. minNLL' \in {v, minNLL} /\ minNLL' <= v /\ minNLL' <= minNLL
  BY <1>3, <1>15, <1>16, LeastOfTwo
\* The best.
<1>19. AtBest'
  <2>1. CASE v < minNLL
    <3>1. loop'.best = [x |-> r.x, idx |-> k] /\ minNLL' = v
      BY <1>3, <1>15, <1>16, <1>18, <2>1 DEF Better
    <3>2. loop'.best.x = r.x /\ loop'.best.idx = k
      BY <3>1
    <3> QED  BY <1>1, <1>15, <3>1, <3>2 DEF AtBest
  <2>2. CASE ~(v < minNLL)
    <3>1. loop'.best = loop.best /\ minNLL' = minNLL
      BY <1>3, <1>15, <1>16, <1>18, <2>2
    <3>2. AtBest
      <4>1. SUFFICES ASSUME Fresh, minNLL > Whole(model, x, idx) PROVE FALSE
        BY <1>10 DEF LongScan
      <4>2. Agrees(start, x)
        BY <1>1, <1>3 DEF FreeInv, LeftInv, HeldInv, Holding, Agrees
      <4>3. v <= Whole(model, x, k) /\ k = idx
        BY <1>3, <1>5, <1>15, <4>1, <4>2 DEF Everywhere
      <4>4. Whole(model, x, k) \in Int
        BY <1>1, <1>3, WholeInt
      <4> QED  BY <1>3, <1>15, <2>2, <4>1, <4>3, <4>4
    <3> QED  BY <1>1, <3>1, <3>2 DEF AtBest
  <2> QED  BY <2>1, <2>2
\* What was tried.
<1>20. ASSUME NEW l, Permitted(loop'.allowed, l) PROVE Permitted(loop.allowed, l)
  BY <1>17, <1>20 DEF Permitted, StillAllowed
<1>21. ASSUME NEW i \in Tried', Permitted(loop'.allowed, Reordered(i, loop.from))
       PROVE  Everywhere(model, start, minNLL', Reordered(i, loop.from))
  <2>1. Tried' \subseteq Tried \cup {FirstOf(loop.todo)}
    BY <1>1, <1>3, TriedNext DEF Tried
  <2>2. minNLL' \in Int
    BY <1>3, <1>15, <1>18
  <2>3. CASE i \in Tried
    <3>1. Everywhere(model, start, minNLL, Reordered(i, loop.from))
      BY <1>10, <1>20, <1>21, <2>3 DEF LongScan
    <3>2. Reordered(i, loop.from) \in Indexings
      BY <1>1, <1>3, <2>3, TriedNext, ChosenType, ReorderedType DEF Tried
    <3> QED  BY <1>3, <1>18, <2>2, <3>1, <3>2, EverywhereLess
  <2>4. CASE i = FirstOf(loop.todo)
    BY <1>1, <1>3, <1>4, <1>15, <1>18, <2>2, <2>4, EverywhereLess
  <2> QED  BY <1>21, <2>1, <2>3, <2>4
<1> QED  BY <1>1, <1>19, <1>21 DEF LongScan

LEMMA SoundFullFit ==
  ASSUME FoundInv, Separate, FullFit
  PROVE  Sound'
<1> DEFINE cst == Unfrozen(const)
<1>1. /\ pc = "full" /\ x \in [Pars -> Vals] /\ const \in SUBSET Pars /\ cst \in SUBSET Pars
      /\ mask = NoMask /\ offset = 0 /\ Typed /\ FreeInv /\ model \in Models /\ idx \in Indexings
      /\ opt \in Options /\ opt.short /\ failures \in Nat /\ minNLL \in Int /\ prevNLL \in Int
      /\ iterations \in Nat
  BY BoundsAssumption DEF FullFit, FoundInv, FreeInv, LeftInv, HeldInv, Layers, Typed, TypeOK, Unfrozen, Holding
<1>2. PICK r \in Improved(x, idx, cst, mask, opt.analytic) :
        x' = r.x /\ failures' = failures + r.failed /\ minNLL' = Shown(r.x, idx, mask, offset)
  BY DEF FullFit
<1>3. /\ iterations' = iterations + 1 /\ UNCHANGED <<model, opt, idx, start>>
      /\ IF Again(minNLL', iterations')
         THEN pc' = "iterate" /\ prevNLL' = minNLL' ELSE pc' = "end" /\ UNCHANGED prevNLL
  BY DEF FullFit
<1>4. /\ cst \cap Active(idx) = {} /\ start.const \subseteq cst /\ cst \subseteq start.const \cup Extra
      /\ Agrees(start, x)
  <2>1. /\ const \cap MultiPars = {} /\ start.const \subseteq const /\ loop.frozen \cap start.const = {}
        /\ const \subseteq start.const \cup loop.frozen \cup Extra
        /\ \A p \in start.const : x[p] = start.x[p]
    BY <1>1 DEF FreeInv, LeftInv, HeldInv, Holding, Layers, Unpinned
  <2> QED  BY <1>1, <2>1, ActiveIn DEF Unfrozen, Agrees
<1> HIDE DEF cst
<1>5. SUFFICES ASSUME failures' = 0 PROVE Searching'
  BY DEF Sound
<1>6. failures = 0 /\ r.failed = 0
  <2>1. r.failed \in {0, 1}
    BY <1>1, <1>2, ImprovedEnds
  <2> QED  BY <1>1, <1>2, <1>5, <2>1
<1>7. opt.analytic \/ MaskChannels = 0
  BY <1>1 DEF MaskChannels, Separate
<1>8. r.x \in [Pars -> Vals] /\ Agrees(start, r.x) /\ Everywhere(model, start, Whole(model, r.x, idx), idx)
  BY <1>1, <1>2, <1>4, <1>6, <1>7, FitAll
<1>9. minNLL' = Whole(model, r.x, idx) /\ minNLL' \in Int
  BY <1>1, <1>2, <1>8, ShownWhole, WholeInt
<1>10. AtIndices' /\ Agrees(start', x')
  BY <1>2, <1>3, <1>8, <1>9 DEF AtIndices
<1>11. CASE pc' = "iterate"
  BY <1>3, <1>10, <1>11 DEF Searching, Returned
<1>12. CASE pc' = "end"
  <2>1. SUFFICES ASSUME iterations' < MaxIterations PROVE Promise'
    BY <1>12 DEF Searching, Returned
  <2>2. minNLL' = prevNLL
    BY <1>3, <1>12, <2>1 DEF Again
  <2>3. minNLL = Whole(model, x, idx) /\ minNLL <= prevNLL /\ (minNLL = prevNLL => OneByOne(model, x, minNLL, idx))
    BY <1>1, <1>6 DEF FoundInv, Sound, Searching
  <2>4. minNLL' <= minNLL
    BY <1>1, <1>4, <1>8, <1>9, <2>3 DEF Everywhere
  <2>5. minNLL' = minNLL /\ minNLL = prevNLL
    BY <1>1, <1>9, <2>2, <2>3, <2>4
  <2>6. Agrees(start', x) /\ Whole(model', x, idx') = minNLL' /\ OneByOne(model', x, minNLL', idx')
    BY <1>3, <1>4, <2>3, <2>5
  <2> QED  BY <1>1, <1>3, <1>10, <2>6 DEF Promise
<1> QED  BY <1>3, <1>11, <1>12

LEMMA SoundLastFit ==
  ASSUME FoundInv, Separate, LastFit
  PROVE  Sound'
<1> DEFINE cst == Freeze(const, idx)
<1>1. /\ pc = "last" /\ x \in [Pars -> Vals] /\ const \in SUBSET Pars /\ cst \in SUBSET Pars
      /\ mask = NoMask /\ offset = 0 /\ Typed /\ FreeInv /\ model \in Models /\ idx \in Indexings
      /\ failures \in Nat /\ minNLL \in Int /\ const \cap MultiPars = {} /\ loop.frozen = {}
      /\ start.const \subseteq const /\ const \subseteq start.const \cup Extra
      /\ \A p \in start.const : x[p] = start.x[p]
      /\ ~opt.short
  <2>1. pc = "last" /\ FreeInv
    BY DEF LastFit, FoundInv
  <2>2. ~opt.short
    BY <2>1 DEF LastFit, FreeInv, Known
  <2>3. /\ x \in [Pars -> Vals] /\ const \in SUBSET Pars /\ Typed /\ model \in Models /\ idx \in Indexings
        /\ failures \in Nat /\ minNLL \in Int
    BY <2>1, BoundsAssumption DEF FreeInv, LeftInv, HeldInv, Typed, TypeOK
  <2>4. /\ loop.frozen = {} /\ start.const \subseteq const /\ \A p \in start.const : x[p] = start.x[p]
    BY <2>1, <2>2 DEF FreeInv, LeftInv, HeldInv, Holding
  <2>5. mask = NoMask /\ offset = 0 /\ const \subseteq start.const \cup Extra /\ const \cap MultiPars = {}
    BY <2>1, <2>4 DEF FreeInv, LeftInv, Layers, Unpinned
  <2>6. cst \in SUBSET Pars
    BY <2>3, FrozenTypes
  <2> QED  BY <2>1, <2>2, <2>3, <2>4, <2>5, <2>6
<1>2. UNCHANGED <<model, opt, idx, loop, iterations, start>> /\ pc' = "end"
  BY DEF LastFit
<1>3. CASE opt.disassociate
  <2>1. PICK r \in Improved(x, idx, cst, mask, TRUE) :
          x' = r.x /\ failures' = failures + r.failed /\ minNLL' = Shown(r.x, idx, mask, offset)
    BY <1>3 DEF LastFit
  <2>2. /\ cst \cap Active(idx) = {} /\ start.const \subseteq cst /\ cst \subseteq start.const \cup Extra
        /\ Agrees(start, x)
    <3>1. const \cap Active(idx) = {}
      BY <1>1, ActiveIn
    <3>2. const \subseteq cst /\ cst \subseteq const \cup Extra /\ cst \cap Active(idx) = {}
      BY <3>1, FreezeParts, FreezeBounds
    <3> QED  BY <1>1, <3>2 DEF Agrees
  <2> HIDE DEF cst
  <2>3. SUFFICES ASSUME failures' = 0, iterations' < MaxIterations PROVE Promise'
    BY <1>2 DEF Sound, Searching, Returned
  <2>4. failures = 0 /\ r.failed = 0
    <3>1. r.failed \in {0, 1}
      BY <1>1, <2>1, ImprovedEnds
    <3> QED  BY <1>1, <2>1, <2>3, <3>1
  <2>5. PICK force \in {TRUE} : r \in Improved(x, idx, cst, mask, force)
    BY Zenon
  <2>6. r.x \in [Pars -> Vals] /\ Agrees(start, r.x) /\ Everywhere(model, start, Whole(model, r.x, idx), idx)
    BY <1>1, <2>2, <2>4, <2>5, FitAll
  <2>7. minNLL' = Whole(model, r.x, idx) /\ minNLL' \in Int
    BY <1>1, <2>1, <2>6, ShownWhole, WholeInt
  <2>8. AtIndices' /\ Agrees(start', x')
    BY <1>2, <2>1, <2>6, <2>7 DEF AtIndices
  <2>9. Promise
    BY <1>1, <1>2, <2>3, <2>4 DEF FoundInv, Sound, Searching
  <2>10. minNLL' <= minNLL
    BY <1>1, <2>2, <2>6, <2>7, <2>9 DEF Everywhere, Promise, AtIndices
  <2>11. ASSUME NEW k \in Indexings, Permitted(loop.allowed, k) PROVE Everywhere(model, start, minNLL', k)
    <3>1. Everywhere(model, start, minNLL, k)
      BY <1>1, <2>9, <2>11 DEF Promise
    <3> QED  BY <1>1, <2>7, <2>10, <3>1, EverywhereLess
  <2> QED  BY <1>1, <1>2, <2>8, <2>11 DEF Promise
<1>4. CASE ~opt.disassociate
  <2>1. UNCHANGED <<x, failures, minNLL>>
    BY <1>4 DEF LastFit
  <2>2. SUFFICES ASSUME failures = 0, iterations < MaxIterations PROVE Promise'
    BY <1>2, <2>1 DEF Sound, Searching, Returned
  <2>3. Promise
    BY <1>1, <2>2 DEF FoundInv, Sound, Searching
  <2> QED  BY <1>2, <2>1, <2>3 DEF Promise, AtIndices
<1> QED  BY <1>3, <1>4

LEMMA SoundEnd ==
  ASSUME FoundInv, End
  PROVE  Sound'
<1>1. /\ pc = "end" /\ pc' = "idle"
      /\ UNCHANGED <<model, opt, x, idx, loop, minNLL, iterations, start, failures>>
  BY DEF End
<1>2. SUFFICES ASSUME failures = 0, iterations < MaxIterations PROVE Promise'
  BY <1>1 DEF Sound, Searching
<1>3. Promise
  BY <1>1, <1>2 DEF FoundInv, Sound, Searching
<1> QED  BY <1>1, <1>3 DEF Promise, AtIndices

LEMMA SoundStep ==
  ASSUME FoundInv, Maskable, Separate, [Next]_vars
  PROVE  Sound'
<1>1. FreeInv
  BY DEF FoundInv
<1>2. CASE Next
  BY <1>1, <1>2, SoundCall, SoundPreFit, SoundFirst, SoundIterate, SoundStartMultiple, SoundSkip,
     SoundFitShort, SoundFitLong, SoundEndMultiple, SoundFullFit, SoundLastFit, SoundEnd DEF Next
<1>3. CASE UNCHANGED vars
  BY <1>3 DEF vars, FoundInv, Sound, Searching, AtIndices, AtBest, ShortScan, LongScan, Kept, Promise,
     Fresh, Tried, Returned
<1> QED  BY <1>2, <1>3

\* Minima over values that can be reached.
LEMMA SettledNow ==
  ASSUME FoundInv
  PROVE  Settled
<1>1. SUFFICES ASSUME Returned, failures = 0, iterations < MaxIterations
               PROVE  LET value == NLL(x, idx, NoMask)
                      IN /\ value = Best(x, idx, NoMask, Pars \ const)
                         /\ opt.short => \E y \in Ends(x, Pars \ const) :
                              /\ NLL(y, idx, NoMask) = value
                              /\ \A c \in Cats : \A k \in Indices(c) :
                                   value <= Best(y, [idx EXCEPT ![c] = k], NoMask, MultiPars \ const)
                         /\ ~opt.short => \A k \in Indexings :
                              (\A c \in Cats : k[c] \in loop.allowed[c]) => value <= Best(x, k, NoMask, Pars \ const)
  BY DEF Settled
<1>2. /\ model \in Models /\ x \in [Pars -> Vals] /\ idx \in Indexings /\ const \in SUBSET Pars
      /\ minNLL \in Int /\ const = start.const
  BY <1>1 DEF Returned, FoundInv, FreeInv, LeftInv, HeldInv, Layers, Typed, TypeOK
<1>3. Promise
  BY <1>1 DEF FoundInv, Sound, Searching
<1>4. \A y \in [Pars -> Vals] : \A k \in Indexings :
        NLL(y, k, NoMask) = Whole(model, y, k) /\ Whole(model, y, k) \in Int
  BY <1>2, WholeIs, WholeInt DEF NoMask
<1>5. minNLL = Whole(model, x, idx) /\ Agrees(start, x) /\ Everywhere(model, start, minNLL, idx)
  BY <1>3 DEF Promise, AtIndices
<1>6. \A z \in Ends(x, Pars \ const) : z \in [Pars -> Vals] /\ Agrees(start, z)
  BY <1>2, <1>5 DEF Ends, Agrees
<1>7. ASSUME NEW k \in Indexings, Everywhere(model, start, minNLL, k)
      PROVE  minNLL <= Best(x, k, NoMask, Pars \ const)
  <2>1. PICK z \in Ends(x, Pars \ const) : Best(x, k, NoMask, Pars \ const) = NLL(z, k, NoMask)
    BY <1>2, BestIsLeast
  <2> QED  BY <1>4, <1>6, <1>7, <2>1 DEF Everywhere
<1>8. NLL(x, idx, NoMask) = minNLL
  BY <1>2, <1>4, <1>5
<1>9. minNLL = Best(x, idx, NoMask, Pars \ const)
  <2>1. minNLL <= Best(x, idx, NoMask, Pars \ const)
    BY <1>2, <1>5, <1>7
  <2>2. x \in Ends(x, Pars \ const)
    BY <1>2 DEF Ends
  <2>3. Best(x, idx, NoMask, Pars \ const) <= minNLL
    BY <1>2, <1>8, <2>2, BestIsLeast
  <2>4. Best(x, idx, NoMask, Pars \ const) \in Int
    <3>1. PICK z \in Ends(x, Pars \ const) : Best(x, idx, NoMask, Pars \ const) = NLL(z, idx, NoMask)
      BY <1>2, BestIsLeast
    <3> QED  BY <1>2, <1>4, <1>6, <3>1
  <2> QED  BY <1>2, <2>1, <2>3, <2>4
<1>10. ASSUME opt.short
       PROVE  \E y \in Ends(x, Pars \ const) :
                /\ NLL(y, idx, NoMask) = minNLL
                /\ \A c \in Cats : \A k \in Indices(c) :
                     minNLL <= Best(y, [idx EXCEPT ![c] = k], NoMask, MultiPars \ const)
  <2>1. PICK y \in [Pars -> Vals] : Agrees(start, y) /\ Whole(model, y, idx) = minNLL /\ OneByOne(model, y, minNLL, idx)
    BY <1>3, <1>10 DEF Promise
  <2>2. y \in Ends(x, Pars \ const) /\ NLL(y, idx, NoMask) = minNLL
    BY <1>2, <1>4, <1>5, <2>1 DEF Ends, Agrees
  <2>3. ASSUME NEW c \in Cats, NEW i \in Indices(c)
        PROVE  minNLL <= Best(y, [idx EXCEPT ![c] = i], NoMask, MultiPars \ const)
    <3> DEFINE k == [idx EXCEPT ![c] = i]
    <3>1. k \in Indexings
      BY <1>2 DEF Indexings, AllIndices
    <3>2. ByPdfs(model, y, minNLL, k)
      BY <2>1 DEF OneByOne
    <3> HIDE DEF k
    <3>3. PICK z \in Ends(y, MultiPars \ const) : Best(y, k, NoMask, MultiPars \ const) = NLL(z, k, NoMask)
      BY <1>2, <2>1, <3>1, BestIsLeast
    <3>4. z \in [Pars -> Vals] /\ \A p \in Pars \ MultiPars : z[p] = y[p]
      BY <3>3 DEF Ends
    <3>5. minNLL <= Best(y, k, NoMask, MultiPars \ const)
      BY <1>4, <3>1, <3>2, <3>3, <3>4 DEF ByPdfs
    <3> QED  BY <3>5 DEF k
  <2> QED  BY <2>2, <2>3
<1>11. ASSUME ~opt.short, NEW k \in Indexings, \A c \in Cats : k[c] \in loop.allowed[c]
       PROVE  minNLL <= Best(x, k, NoMask, Pars \ const)
  <2>1. Everywhere(model, start, minNLL, k)
    BY <1>3, <1>11 DEF Promise, Permitted
  <2> QED  BY <1>7, <2>1
<1> QED  BY <1>8, <1>9, <1>10, <1>11

\* When all its fits succeed, minimize() returns a minimum over all floating
\* parameters, and no other index that it tried would give less, for every likelihood
\* and every combination of options where calls hold no parameter of a pdf, what is
\* masked depends on nothing that floats, and the parameters of pdfs are theirs alone
\* (CascadeMinimizer::minimize, iterativeMinimize, multipleMinimize).
THEOREM MinimaSettle == FixedApart /\ Maskable /\ Separate => (Spec => []Settled)
<1> SUFFICES ASSUME FixedApart, Maskable, Separate PROVE Spec => []Settled
  OBVIOUS
<1>1. Init => FoundInv
  BY TypedInit, HoldingInit, LayersInit, FreeInit, SoundInit DEF FoundInv, FreeInv, LeftInv, HeldInv
<1>2. FoundInv /\ [Next]_vars => FoundInv'
  BY TypedStep, HoldingStep, LayersStep, FreeStep, SoundStep DEF FoundInv, FreeInv, LeftInv, HeldInv
<1>3. FoundInv => Settled
  BY SettledNow
<1> QED  BY <1>1, <1>2, <1>3, PTL DEF Spec
=============================================================================
