---------------------------- MODULE ShapeToolsProofs ----------------------------
(***************************************************************************)
(* What ShapeTools keeps, for every binning, every set of templates and    *)
(* every setting of the tools: types, with squared errors that are never   *)
(* negative or infinite; the predictions of templates that are rebinned    *)
(* and zeroed; the promise of AutoRebin; and that BinByBinFactory moves    *)
(* errors, and makes nuisances for all that were to get one.               *)
(***************************************************************************)
EXTENDS ShapeTools, FiniteSetTheorems, WellFoundedInduction, TLAPS

-----------------------------------------------------------------------------
(* Folds.  Sums of integers, sums of fractions and the loop that removes   *)
(* errors are folds over finite sets; a record k says which.               *)

Choice(k, S) == IF k.kind = "removal" THEN LastOf(S, k.b, k.address) ELSE CHOOSE e \in S : TRUE
Start(k) == CASE k.kind = "sum" -> 0 [] k.kind = "fractions" -> Whole(0) [] k.kind = "removal" -> Nothing
Step(k, e, y) ==
  CASE k.kind = "sum" -> k.f[e] + y
    [] k.kind = "fractions" -> Plus(k.f[e], y)
    [] k.kind = "removal" -> Visit(k.f, k.M, e, y, k.total, k.b, k.address)

Unrolled(k, v, S) == IF S = {} THEN Start(k) ELSE Step(k, Choice(k, S), v[S \ {Choice(k, S)}])
IsIter(g, k, S) == g = [s \in SUBSET S |-> Unrolled(k, g, s)]
Fold(k, S) == (CHOOSE g : IsIter(g, k, S))[S]
Chooses(k, S) == \A s \in SUBSET S : s # {} => Choice(k, s) \in s

SumOf(f) == [kind |-> "sum", f |-> f]
FractionsOf(f) == [kind |-> "fractions", f |-> f]
RemovalOf(f, M, total, b, address) ==
  [kind |-> "removal", f |-> f, M |-> M, total |-> total, b |-> b, address |-> address]

LEMMA SmallestSubset ==
  ASSUME NEW S, IsFiniteSet(S), NEW B \in SUBSET SUBSET S, B # {}
  PROVE  \E s \in B : \A u \in B : u \subseteq s => u = s
<1>1. IsWellFoundedOn(StrictSubsetOrdering(S), SUBSET S)
  BY FS_StrictSubsetOrderingWellFounded, FS_FiniteSubsetsOfFinite
<1>2. PICK s \in B : \A u \in B : ~(<<u, s>> \in StrictSubsetOrdering(S))
  BY <1>1, WFMin, Zenon
<1>3. \A u \in B : u \subseteq s => u = s
  BY <1>2 DEF StrictSubsetOrdering
<1> QED  BY <1>3

LEMMA IterUnique ==
  ASSUME NEW k, NEW S, IsFiniteSet(S), Chooses(k, S), NEW g, NEW h, IsIter(g, k, S), IsIter(h, k, S)
  PROVE  g = h
<1> DEFINE B == {s \in SUBSET S : g[s] # h[s]}
<1>1. \A s \in SUBSET S : g[s] = Unrolled(k, g, s) /\ h[s] = Unrolled(k, h, s)
  BY DEF IsIter
<1>2. B = {}
  <2>1. SUFFICES ASSUME B # {} PROVE FALSE
    OBVIOUS
  <2>2. PICK s \in B : \A u \in B : u \subseteq s => u = s
    <3>1. B \in SUBSET SUBSET S
      OBVIOUS
    <3> HIDE DEF B
    <3> QED  BY <2>1, <3>1, SmallestSubset
  <2>3. s # {}
    BY <1>1 DEF Unrolled
  <2>4. s \ {Choice(k, s)} \notin B
    BY <2>2, <2>3 DEF Chooses
  <2>5. g[s \ {Choice(k, s)}] = h[s \ {Choice(k, s)}]
    BY <2>4
  <2> QED  BY <1>1, <2>3, <2>5 DEF Unrolled
<1> QED
  <2>1. \A s \in SUBSET S : g[s] = h[s]
    BY <1>2
  <2> QED  BY <2>1 DEF IsIter

LEMMA FoldUnrolled ==
  ASSUME NEW k, NEW S, IsFiniteSet(S), Chooses(k, S), S # {}
  PROVE  Fold(k, S) = Step(k, Choice(k, S), Fold(k, S \ {Choice(k, S)}))
<1> DEFINE V == [s \in SUBSET S |-> Fold(k, s)]
           B == {s \in SUBSET S : V[s] # Unrolled(k, V, s)}
<1>1. B = {}
  <2>1. SUFFICES ASSUME B # {} PROVE FALSE
    OBVIOUS
  <2>2. PICK s \in B : \A u \in B : u \subseteq s => u = s
    <3>1. B \in SUBSET SUBSET S
      OBVIOUS
    <3> HIDE DEF B
    <3> QED  BY <2>1, <3>1, SmallestSubset
  <2> DEFINE h == [u \in SUBSET s |-> Unrolled(k, V, u)]
  <2>3. \A u \in SUBSET s : u # s => V[u] = Unrolled(k, V, u)
    BY <2>2
  <2>4. \A u \in SUBSET s : u # {} => u \ {Choice(k, u)} \in SUBSET s /\ u \ {Choice(k, u)} # s
    BY DEF Chooses
  <2>5. \A u \in SUBSET s : u # {} => h[u \ {Choice(k, u)}] = V[u \ {Choice(k, u)}]
    BY <2>3, <2>4
  <2>6. \A u \in SUBSET s : Unrolled(k, V, u) = Unrolled(k, h, u)
    BY <2>5 DEF Unrolled
  <2>7. IsIter(h, k, s)
    BY <2>6, Zenon DEF IsIter
  <2>8. IsFiniteSet(s) /\ Chooses(k, s)
    BY FS_Subset DEF Chooses
  <2>9. (CHOOSE g : IsIter(g, k, s)) = h
    BY <2>7, <2>8, IterUnique
  <2>10. V[s] = h[s]
    BY <2>9 DEF Fold
  <2> QED  BY <2>2, <2>10
<1>2. V[S] = Unrolled(k, V, S)
  BY <1>1
<1> QED  BY <1>2 DEF Unrolled, Chooses

LEMMA FoldEmpty ==
  ASSUME NEW k
  PROVE  Fold(k, {}) = Start(k)
<1> DEFINE h == [u \in {{}} |-> Start(k)]
<1>1. IsIter(h, k, {})
  BY DEF IsIter, Unrolled
<1>2. IsFiniteSet({}) /\ Chooses(k, {})
  BY FS_EmptySet DEF Chooses
<1>3. (CHOOSE g : IsIter(g, k, {})) = h
  BY <1>1, <1>2, IterUnique
<1> QED  BY <1>3 DEF Fold

LEMMA SumIsFold ==
  ASSUME NEW f, NEW S
  PROVE  /\ SumFunctionOnSet(f, S) = Fold(SumOf(f), S)
         /\ SumFractions(f, S) = Fold(FractionsOf(f), S)
         /\ Chooses(SumOf(f), S) /\ Chooses(FractionsOf(f), S)
<1>1. SumFunctionOnSet(f, S) = Fold(SumOf(f), S)
  BY DEF SumFunctionOnSet, FoldFunctionOnSet, MapThenFoldSet, Fold, IsIter, Unrolled, Choice, Step, Start, SumOf
<1>2. SumFractions(f, S) = Fold(FractionsOf(f), S)
  BY DEF SumFractions, FoldFunctionOnSet, MapThenFoldSet, Fold, IsIter, Unrolled, Choice, Step, Start, FractionsOf
<1>3. \A s \in SUBSET S : s # {} => (CHOOSE e \in s : TRUE) \in s
  OBVIOUS
<1> QED  BY <1>1, <1>2, <1>3 DEF Chooses, Choice, SumOf, FractionsOf

LEMMA RemovalIsFold ==
  ASSUME NEW f, NEW M, NEW total, NEW b, NEW address
  PROVE  Removal(f, M, total, b, address) = Fold(RemovalOf(f, M, total, b, address), M)
BY DEF Removal, MapThenFoldSet, Fold, IsIter, Unrolled, Choice, Step, Start, RemovalOf
-----------------------------------------------------------------------------
(* Sums of integers.                                                       *)

Pick(S) == CHOOSE e \in S : TRUE

LEMMA PickIn ==
  ASSUME NEW S, S # {}
  PROVE  Pick(S) \in S
  BY DEF Pick

LEMMA SumUnrolled ==
  ASSUME NEW f, NEW S, IsFiniteSet(S), S # {}
  PROVE  SumFunctionOnSet(f, S) = f[Pick(S)] + SumFunctionOnSet(f, S \ {Pick(S)})
<1>1. Choice(SumOf(f), S) = Pick(S)
  BY DEF Choice, SumOf, Pick
<1>2. Fold(SumOf(f), S) = Step(SumOf(f), Pick(S), Fold(SumOf(f), S \ {Pick(S)}))
  BY <1>1, SumIsFold, FoldUnrolled
<1>3. \A y : Step(SumOf(f), Pick(S), y) = f[Pick(S)] + y
  BY DEF Step, SumOf
<1> QED  BY <1>2, <1>3, SumIsFold

LEMMA SumEmpty ==
  ASSUME NEW f
  PROVE  SumFunctionOnSet(f, {}) = 0
<1>1. Start(SumOf(f)) = 0
  BY DEF Start, SumOf
<1> QED  BY <1>1, SumIsFold, FoldEmpty

\* A sum of integers is an integer.
LEMMA SumInt ==
  ASSUME NEW f, NEW S, IsFiniteSet(S), \A s \in S : f[s] \in Int
  PROVE  SumFunctionOnSet(f, S) \in Int
<1> DEFINE B == {T \in SUBSET S : SumFunctionOnSet(f, T) \notin Int}
<1>1. SUFFICES ASSUME B # {} PROVE FALSE
  OBVIOUS
<1>2. PICK T \in B : \A u \in B : u \subseteq T => u = T
  <2>1. B \in SUBSET SUBSET S
    OBVIOUS
  <2> HIDE DEF B
  <2> QED  BY <1>1, <2>1, SmallestSubset
<1>3. T # {}
  BY SumEmpty
<1>4. SumFunctionOnSet(f, T \ {Pick(T)}) \in Int
  BY <1>2, <1>3, PickIn
<1>5. SumFunctionOnSet(f, T) = f[Pick(T)] + SumFunctionOnSet(f, T \ {Pick(T)})
  BY <1>3, SumUnrolled, FS_Subset
<1>6. f[Pick(T)] \in Int
  BY <1>3, PickIn
<1> QED  BY <1>4, <1>5, <1>6

\* Any element can be taken out of a sum.
LEMMA SumTake ==
  ASSUME NEW f, NEW S, IsFiniteSet(S), \A s \in S : f[s] \in Int, NEW e \in S
  PROVE  SumFunctionOnSet(f, S) = f[e] + SumFunctionOnSet(f, S \ {e})
<1> DEFINE Wrong(T, d) == SumFunctionOnSet(f, T) # f[d] + SumFunctionOnSet(f, T \ {d})
           B == {T \in SUBSET S : \E d \in T : Wrong(T, d)}
<1>1. SUFFICES ASSUME B # {} PROVE FALSE
  OBVIOUS
<1>2. PICK T \in B : \A u \in B : u \subseteq T => u = T
  <2>1. B \in SUBSET SUBSET S
    OBVIOUS
  <2> HIDE DEF B
  <2> QED  BY <1>1, <2>1, SmallestSubset
<1>3. PICK d \in T : Wrong(T, d)
  BY <1>2
<1> DEFINE p == Pick(T)
<1>4. p \in T /\ T # {} /\ SumFunctionOnSet(f, T) = f[p] + SumFunctionOnSet(f, T \ {p})
  BY <1>3, PickIn, SumUnrolled, FS_Subset
<1>5. p # d
  BY <1>3, <1>4
<1>6. SumFunctionOnSet(f, T \ {p}) = f[d] + SumFunctionOnSet(f, (T \ {p}) \ {d})
  <2>1. T \ {p} \notin B
    BY <1>2, <1>4
  <2> QED  BY <2>1, <1>3, <1>5
<1>7. SumFunctionOnSet(f, T \ {d}) = f[p] + SumFunctionOnSet(f, (T \ {d}) \ {p})
  <2>1. T \ {d} \notin B
    BY <1>2, <1>3
  <2> QED  BY <2>1, <1>4, <1>5
<1>8. (T \ {p}) \ {d} = (T \ {d}) \ {p}
  OBVIOUS
<1>9. SumFunctionOnSet(f, (T \ {p}) \ {d}) \in Int
  <2>1. (T \ {p}) \ {d} \in SUBSET S /\ IsFiniteSet((T \ {p}) \ {d})
    BY FS_Subset
  <2> QED  BY <2>1, SumInt
<1>10. f[p] \in Int /\ f[d] \in Int
  BY <1>3, <1>4
<1>11. SumFunctionOnSet(f, T \ {d}) = f[p] + SumFunctionOnSet(f, (T \ {p}) \ {d})
  BY <1>7, <1>8, Zenon
<1> QED  BY <1>3, <1>4, <1>6, <1>9, <1>10, <1>11

\* The sum depends on the values only.
LEMMA SumEqual ==
  ASSUME NEW f, NEW g, NEW S, IsFiniteSet(S), \A s \in S : f[s] = g[s]
  PROVE  SumFunctionOnSet(f, S) = SumFunctionOnSet(g, S)
<1> DEFINE B == {T \in SUBSET S : SumFunctionOnSet(f, T) # SumFunctionOnSet(g, T)}
<1>1. SUFFICES ASSUME B # {} PROVE FALSE
  OBVIOUS
<1>2. PICK T \in B : \A u \in B : u \subseteq T => u = T
  <2>1. B \in SUBSET SUBSET S
    OBVIOUS
  <2> HIDE DEF B
  <2> QED  BY <1>1, <2>1, SmallestSubset
<1>3. T # {} /\ Pick(T) \in T
  BY <1>2, SumEmpty, PickIn
<1>4. SumFunctionOnSet(f, T \ {Pick(T)}) = SumFunctionOnSet(g, T \ {Pick(T)})
  BY <1>2, <1>3
<1>5. /\ SumFunctionOnSet(f, T) = f[Pick(T)] + SumFunctionOnSet(f, T \ {Pick(T)})
      /\ SumFunctionOnSet(g, T) = g[Pick(T)] + SumFunctionOnSet(g, T \ {Pick(T)})
  BY <1>3, SumUnrolled, FS_Subset
<1> QED  BY <1>2, <1>3, <1>4, <1>5

\* A sum over the whole is the sum over two parts.
LEMMA SumParts ==
  ASSUME NEW f, NEW S, IsFiniteSet(S), \A s \in S : f[s] \in Int, NEW M
  PROVE  SumFunctionOnSet(f, S) = SumFunctionOnSet(f, S \ M) + SumFunctionOnSet(f, S \cap M)
<1> DEFINE B == {T \in SUBSET S : SumFunctionOnSet(f, T) # SumFunctionOnSet(f, T \ M) + SumFunctionOnSet(f, T \cap M)}
<1>1. SUFFICES ASSUME B # {} PROVE FALSE
  OBVIOUS
<1>2. PICK T \in B : \A u \in B : u \subseteq T => u = T
  <2>1. B \in SUBSET SUBSET S
    OBVIOUS
  <2> HIDE DEF B
  <2> QED  BY <1>1, <2>1, SmallestSubset
<1>3. T # {}
  <2>1. {} \ M = {} /\ {} \cap M = {}
    OBVIOUS
  <2>2. SumFunctionOnSet(f, {}) = 0 /\ SumFunctionOnSet(f, {} \ M) = 0 /\ SumFunctionOnSet(f, {} \cap M) = 0
    BY <2>1, SumEmpty, Zenon
  <2>3. SumFunctionOnSet(f, {}) = SumFunctionOnSet(f, {} \ M) + SumFunctionOnSet(f, {} \cap M)
    BY <2>2
  <2> QED  BY <1>2, <2>3
<1>4. PICK e \in T : TRUE
  BY <1>3
<1> DEFINE U == T \ {e}
<1>5. SumFunctionOnSet(f, U) = SumFunctionOnSet(f, U \ M) + SumFunctionOnSet(f, U \cap M)
  BY <1>2
<1>6. SumFunctionOnSet(f, T) = f[e] + SumFunctionOnSet(f, U)
  BY SumTake, FS_Subset
<1>7. \A V \in SUBSET S : IsFiniteSet(V) /\ SumFunctionOnSet(f, V) \in Int
  BY FS_Subset, SumInt
<1>8. U \ M \in SUBSET S /\ U \cap M \in SUBSET S /\ T \ M \in SUBSET S /\ T \cap M \in SUBSET S
  OBVIOUS
<1>11. f[e] \in Int /\ SumFunctionOnSet(f, U \ M) \in Int /\ SumFunctionOnSet(f, U \cap M) \in Int
  BY <1>7, <1>8
<1>9. CASE e \in M
  <2>1. U \ M = T \ M /\ (T \cap M) \ {e} = U \cap M /\ e \in T \cap M
    BY <1>9
  <2>2. SumFunctionOnSet(f, T \cap M) = f[e] + SumFunctionOnSet(f, (T \cap M) \ {e})
    BY <1>7, <1>8, <2>1, SumTake
  <2>3. SumFunctionOnSet(f, T \cap M) = f[e] + SumFunctionOnSet(f, U \cap M) /\ SumFunctionOnSet(f, U \ M) = SumFunctionOnSet(f, T \ M)
    BY <2>1, <2>2, Zenon
  <2> QED  BY <1>2, <1>5, <1>6, <1>11, <2>3
<1>10. CASE e \notin M
  <2>1. U \cap M = T \cap M /\ (T \ M) \ {e} = U \ M /\ e \in T \ M
    BY <1>10
  <2>2. SumFunctionOnSet(f, T \ M) = f[e] + SumFunctionOnSet(f, (T \ M) \ {e})
    BY <1>7, <1>8, <2>1, SumTake
  <2>3. SumFunctionOnSet(f, T \ M) = f[e] + SumFunctionOnSet(f, U \ M) /\ SumFunctionOnSet(f, U \cap M) = SumFunctionOnSet(f, T \cap M)
    BY <2>1, <2>2, Zenon
  <2> QED  BY <1>2, <1>5, <1>6, <1>11, <2>3
<1> QED  BY <1>9, <1>10

LEMMA SumSplit ==
  ASSUME NEW h
  PROVE  \A W, V : IsFiniteSet(W) /\ (\A s \in W : h[s] \in Int) =>
           SumFunctionOnSet(h, W) = SumFunctionOnSet(h, W \ V) + SumFunctionOnSet(h, W \cap V)
<1> TAKE W, V
<1> HAVE IsFiniteSet(W) /\ (\A s \in W : h[s] \in Int)
<1> QED  BY SumParts

\* A sum of sums over parts that do not meet is the sum over all of them.
LEMMA SumOfSums ==
  ASSUME NEW h, NEW g, NEW Part, NEW A, IsFiniteSet(A), NEW Y, IsFiniteSet(Y),
         \A y \in Y : h[y] \in Int,
         \A a \in A : Part[a] \subseteq Y /\ g[a] = SumFunctionOnSet(h, Part[a]),
         \A a, c \in A : a # c => Part[a] \cap Part[c] = {}
  PROVE  SumFunctionOnSet(g, A) = SumFunctionOnSet(h, UNION {Part[a] : a \in A})
<1> DEFINE Joined(T) == UNION {Part[a] : a \in T}
           B == {T \in SUBSET A : SumFunctionOnSet(g, T) # SumFunctionOnSet(h, Joined(T))}
<1>1. SUFFICES ASSUME B # {} PROVE FALSE
  OBVIOUS
<1>2. PICK T \in B : \A u \in B : u \subseteq T => u = T
  <2>1. B \in SUBSET SUBSET A
    OBVIOUS
  <2> HIDE DEF B
  <2> QED  BY <1>1, <2>1, SmallestSubset
<1>3. T # {}
  <2>1. Joined({}) = {}
    OBVIOUS
  <2> HIDE DEF Joined
  <2>2. SumFunctionOnSet(g, {}) = SumFunctionOnSet(h, Joined({}))
    BY <2>1, SumEmpty
  <2> QED  BY <1>2, <2>2
<1> DEFINE p == Pick(T)
           R == T \ {p}
<1>4. p \in T /\ T \in SUBSET A /\ R \in SUBSET A /\ R # T
  BY <1>2, <1>3, PickIn
<1>5. SumFunctionOnSet(g, R) = SumFunctionOnSet(h, Joined(R))
  BY <1>2, <1>4
<1>6. SumFunctionOnSet(g, T) = g[p] + SumFunctionOnSet(g, R)
  BY <1>3, SumUnrolled, FS_Subset
<1>7. /\ Joined(T) \ Part[p] = Joined(R) /\ Joined(T) \cap Part[p] = Part[p]
      /\ Joined(T) \in SUBSET Y /\ Joined(R) \in SUBSET Y
  BY <1>4
<1> HIDE DEF Joined, R, p
<1>8. SumFunctionOnSet(h, Joined(T)) = SumFunctionOnSet(h, Joined(R)) + SumFunctionOnSet(h, Part[p])
  <2>1. IsFiniteSet(Joined(T)) /\ \A s \in Joined(T) : h[s] \in Int
    BY <1>7, FS_Subset
  <2>2. \A W, V : IsFiniteSet(W) /\ (\A s \in W : h[s] \in Int) =>
          SumFunctionOnSet(h, W) = SumFunctionOnSet(h, W \ V) + SumFunctionOnSet(h, W \cap V)
    BY SumSplit, Zenon
  <2>3. SumFunctionOnSet(h, Joined(T))
          = SumFunctionOnSet(h, Joined(T) \ Part[p]) + SumFunctionOnSet(h, Joined(T) \cap Part[p])
    BY <2>1, <2>2, Zenon
  <2> QED  BY <1>7, <2>3, Zenon
<1>9. SumFunctionOnSet(h, Joined(R)) \in Int /\ SumFunctionOnSet(h, Part[p]) \in Int
  <2>1. IsFiniteSet(Joined(R)) /\ \A s \in Joined(R) : h[s] \in Int
    BY <1>7, FS_Subset
  <2>2. IsFiniteSet(Part[p]) /\ \A s \in Part[p] : h[s] \in Int
    BY <1>4, FS_Subset
  <2> QED  BY <2>1, <2>2, SumInt
<1>10. g[p] = SumFunctionOnSet(h, Part[p])
  BY <1>4
<1>11. SumFunctionOnSet(g, T) = SumFunctionOnSet(h, Joined(T))
  BY <1>5, <1>6, <1>8, <1>9, <1>10
<1> QED  BY <1>2, <1>11 DEF Joined

-----------------------------------------------------------------------------
(* Largest and smallest elements.                                          *)

LEMMA LargestIn ==
  ASSUME NEW S, IsFiniteSet(S), S # {}, NEW f, \A s \in S : f[s] \in Int
  PROVE  \E m \in S : \A s \in S : f[s] <= f[m]
<1> DEFINE B == {T \in SUBSET S : T # {} /\ \A m \in T : \E s \in T : ~(f[s] <= f[m])}
<1>1. SUFFICES ASSUME B # {} PROVE FALSE
  OBVIOUS
<1>2. PICK T \in B : \A u \in B : u \subseteq T => u = T
  <2>1. B \in SUBSET SUBSET S
    OBVIOUS
  <2> HIDE DEF B
  <2> QED  BY <1>1, <2>1, SmallestSubset
<1>3. PICK e \in T : TRUE
  BY <1>2
<1>4. T \ {e} \notin B
  BY <1>2, <1>3
<1>5. CASE T \ {e} = {}
  BY <1>2, <1>3, <1>5
<1>6. CASE T \ {e} # {}
  <2>1. PICK m \in T \ {e} : \A s \in T \ {e} : f[s] <= f[m]
    BY <1>2, <1>4, <1>6
  <2>2. \A s \in T : f[s] \in Int
    BY <1>2
  <2>3. CASE f[e] <= f[m]
    BY <1>2, <2>1, <2>3
  <2>4. CASE ~(f[e] <= f[m])
    <3>1. \A s \in T : f[s] <= f[e]
      BY <2>1, <2>2, <2>4, <1>3
    <3> QED  BY <1>2, <1>3, <3>1
  <2> QED  BY <2>3, <2>4
<1> QED  BY <1>5, <1>6

LEMMA MaxIn ==
  ASSUME NEW S, S \subseteq Int, IsFiniteSet(S), S # {}
  PROVE  Max(S) \in S /\ \A s \in S : s <= Max(S)
<1> DEFINE f == [s \in S |-> s]
<1>1. \A s \in S : f[s] \in Int
  OBVIOUS
<1>2. PICK m \in S : \A s \in S : f[s] <= f[m]
  <2> HIDE DEF f
  <2> QED  BY <1>1, LargestIn
<1>3. \E m1 \in S : \A s \in S : m1 >= s
  BY <1>2
<1> QED  BY <1>3 DEF Max

LEMMA MinIn ==
  ASSUME NEW S, S \subseteq Int, IsFiniteSet(S), S # {}
  PROVE  Min(S) \in S /\ \A s \in S : Min(S) <= s
<1> DEFINE f == [s \in S |-> -s]
<1>1. \A s \in S : f[s] \in Int
  OBVIOUS
<1>2. PICK m \in S : \A s \in S : f[s] <= f[m]
  <2> HIDE DEF f
  <2> QED  BY <1>1, LargestIn
<1>3. \E m1 \in S : \A s \in S : m1 <= s
  BY <1>2
<1> QED  BY <1>3 DEF Min

-----------------------------------------------------------------------------
(* Fractions.                                                              *)

LEMMA PositiveProduct ==
  ASSUME NEW i \in Int, NEW j \in Int, i > 0, j > 0
  PROVE  i * j \in Int /\ i * j > 0
  OBVIOUS

LEMMA NaturalProduct ==
  ASSUME NEW i \in Int, NEW j \in Int, i >= 0, j >= 0
  PROVE  i * j \in Int /\ i * j >= 0
  OBVIOUS

LEMMA Monotone ==
  ASSUME NEW i \in Int, NEW j \in Int, NEW k \in Int, k > 0
  PROVE  /\ i < j <=> i * k < j * k
         /\ i <= j <=> i * k <= j * k
  OBVIOUS

LEMMA Parts ==
  /\ \A q \in Fractions : q[1] \in Int /\ q[2] \in Int /\ q[2] > 0
  /\ \A q \in Squares : q \in Fractions /\ q[1] >= 0
  /\ \A n, d \in Int : d > 0 => <<n, d>> \in Fractions /\ (n >= 0 => <<n, d>> \in Squares)
  BY DEF Fractions, Squares

LEMMA FractionTypes ==
  /\ \A a, b \in Fractions : Plus(a, b) \in Fractions /\ Times(a, b) \in Fractions
  /\ \A a, b \in Squares : Plus(a, b) \in Squares /\ Times(a, b) \in Squares
  /\ \A n \in Int : Whole(n) \in Fractions /\ (n >= 0 => Whole(n) \in Squares)
<1>1. ASSUME NEW a \in Fractions, NEW b \in Fractions
      PROVE  Plus(a, b) \in Fractions /\ Times(a, b) \in Fractions
  <2>1. /\ a[1] \in Int /\ a[2] \in Int /\ a[2] > 0 /\ b[1] \in Int /\ b[2] \in Int /\ b[2] > 0
    BY Parts
  <2>2. a[2] * b[2] \in Int /\ a[2] * b[2] > 0
    BY <2>1, PositiveProduct
  <2>3. a[1] * b[2] + b[1] * a[2] \in Int /\ a[1] * b[1] \in Int
    BY <2>1
  <2> QED  BY <2>2, <2>3, Parts DEF Plus, Times
<1>2. ASSUME NEW a \in Squares, NEW b \in Squares
      PROVE  Plus(a, b) \in Squares /\ Times(a, b) \in Squares
  <2>1. /\ a[1] \in Int /\ a[2] \in Int /\ a[2] > 0 /\ b[1] \in Int /\ b[2] \in Int /\ b[2] > 0
        /\ a[1] >= 0 /\ b[1] >= 0
    BY Parts
  <2>2. a[2] * b[2] \in Int /\ a[2] * b[2] > 0
    BY <2>1, PositiveProduct
  <2>3. /\ a[1] * b[2] \in Int /\ b[1] * a[2] \in Int /\ a[1] * b[1] \in Int
        /\ a[1] * b[2] >= 0 /\ b[1] * a[2] >= 0 /\ a[1] * b[1] >= 0
    BY <2>1, NaturalProduct
  <2>4. a[1] * b[2] + b[1] * a[2] \in Int /\ a[1] * b[2] + b[1] * a[2] >= 0
    BY <2>3
  <2> QED  BY <2>2, <2>3, <2>4, Parts DEF Plus, Times
<1>3. \A n \in Int : Whole(n) \in Fractions /\ (n >= 0 => Whole(n) \in Squares)
  BY Parts DEF Whole
<1> QED  BY <1>1, <1>2, <1>3

LEMMA LessTransitive ==
  ASSUME NEW a \in Fractions, NEW b \in Fractions, NEW c \in Fractions, Less(a, b), Less(b, c)
  PROVE  Less(a, c)
<1>1. /\ a[1] \in Int /\ a[2] \in Int /\ a[2] > 0 /\ b[1] \in Int /\ b[2] \in Int /\ b[2] > 0
      /\ c[1] \in Int /\ c[2] \in Int /\ c[2] > 0
  BY Parts
<1>2. a[1] * b[2] < b[1] * a[2] /\ b[1] * c[2] < c[1] * b[2]
  BY DEF Less
<1>3. (a[1] * b[2]) * c[2] < (b[1] * a[2]) * c[2]
  BY <1>1, <1>2, Monotone
<1>4. (b[1] * c[2]) * a[2] < (c[1] * b[2]) * a[2]
  BY <1>1, <1>2, Monotone
<1>5. (a[1] * c[2]) * b[2] < (c[1] * a[2]) * b[2]
  BY <1>1, <1>3, <1>4
<1>6. a[1] * c[2] < c[1] * a[2]
  BY <1>1, <1>5, Monotone
<1> QED  BY <1>6 DEF Less

\* A finite set has an element whose fraction no other exceeds.
LEMMA LargestFraction ==
  ASSUME NEW S, IsFiniteSet(S), S # {}, NEW f, \A s \in S : f[s] \in Fractions
  PROVE  \E m \in S : \A s \in S : ~Less(f[m], f[s])
<1> DEFINE B == {T \in SUBSET S : T # {} /\ \A m \in T : \E s \in T : Less(f[m], f[s])}
<1>1. SUFFICES ASSUME B # {} PROVE FALSE
  OBVIOUS
<1>2. PICK T \in B : \A u \in B : u \subseteq T => u = T
  <2>1. B \in SUBSET SUBSET S
    OBVIOUS
  <2> HIDE DEF B
  <2> QED  BY <1>1, <2>1, SmallestSubset
<1>3. PICK e \in T : TRUE
  BY <1>2
<1>4. T \ {e} \notin B
  BY <1>2, <1>3
<1>5. ~Less(f[e], f[e])
  <2>1. f[e][1] \in Int /\ f[e][2] \in Int
    BY <1>2, <1>3, Parts
  <2> QED  BY <2>1 DEF Less
<1>6. CASE T \ {e} = {}
  BY <1>2, <1>3, <1>5, <1>6
<1>7. CASE T \ {e} # {}
  <2>1. PICK m \in T \ {e} : \A s \in T \ {e} : ~Less(f[m], f[s])
    BY <1>2, <1>4, <1>7
  <2>2. Less(f[m], f[e])
    BY <1>2, <2>1
  <2>3. PICK s \in T : Less(f[e], f[s])
    BY <1>2, <1>3
  <2>4. f[m] \in Fractions /\ f[e] \in Fractions /\ f[s] \in Fractions
    BY <1>2, <1>3, <2>1, <2>3
  <2>5. Less(f[m], f[s])
    BY <2>2, <2>3, <2>4, LessTransitive
  <2>6. s # e
    BY <1>5, <2>3
  <2> QED  BY <2>1, <2>5, <2>6
<1> QED  BY <1>6, <1>7

LEMMA FractionsUnrolled ==
  ASSUME NEW f, NEW S, IsFiniteSet(S), S # {}
  PROVE  SumFractions(f, S) = Plus(f[Pick(S)], SumFractions(f, S \ {Pick(S)}))
<1>1. Choice(FractionsOf(f), S) = Pick(S)
  BY DEF Choice, FractionsOf, Pick
<1>2. Fold(FractionsOf(f), S) = Step(FractionsOf(f), Pick(S), Fold(FractionsOf(f), S \ {Pick(S)}))
  BY <1>1, SumIsFold, FoldUnrolled
<1>3. \A y : Step(FractionsOf(f), Pick(S), y) = Plus(f[Pick(S)], y)
  BY DEF Step, FractionsOf
<1> QED  BY <1>2, <1>3, SumIsFold

LEMMA FractionsEmpty ==
  ASSUME NEW f
  PROVE  SumFractions(f, {}) = Whole(0)
<1>1. Start(FractionsOf(f)) = Whole(0)
  BY DEF Start, FractionsOf
<1> QED  BY <1>1, SumIsFold, FoldEmpty

LEMMA FractionSum ==
  ASSUME NEW f, NEW S, IsFiniteSet(S), \A s \in S : f[s] \in Squares
  PROVE  SumFractions(f, S) \in Squares
<1> DEFINE B == {T \in SUBSET S : SumFractions(f, T) \notin Squares}
<1>1. SUFFICES ASSUME B # {} PROVE FALSE
  OBVIOUS
<1>2. PICK T \in B : \A u \in B : u \subseteq T => u = T
  <2>1. B \in SUBSET SUBSET S
    OBVIOUS
  <2> HIDE DEF B
  <2> QED  BY <1>1, <2>1, SmallestSubset
<1>3. T # {}
  BY FractionsEmpty, FractionTypes
<1>4. SumFractions(f, T \ {Pick(T)}) \in Squares
  BY <1>2, <1>3, PickIn
<1>5. SumFractions(f, T) = Plus(f[Pick(T)], SumFractions(f, T \ {Pick(T)}))
  BY <1>3, FractionsUnrolled, FS_Subset
<1>6. f[Pick(T)] \in Squares
  BY <1>3, PickIn
<1> QED  BY <1>4, <1>5, <1>6, FractionTypes

-----------------------------------------------------------------------------
(* Binnings and histograms.                                                *)

Binning(C) == C \subseteq Edges /\ Cardinality(C) >= 2

LEMMA BinningFacts ==
  ASSUME NEW C, Binning(C)
  PROVE  /\ C \subseteq Int /\ IsFiniteSet(C) /\ C # {}
         /\ Min(C) \in C /\ Max(C) \in C /\ Min(C) < Max(C)
         /\ \A e \in C : Min(C) <= e /\ e <= Max(C)
         /\ Bins(C) = {b \in C : b < Max(C)}
         /\ IsFiniteSet(Bins(C)) /\ Bins(C) \subseteq C /\ Min(C) \in Bins(C)
<1>1. C \subseteq Int /\ IsFiniteSet(C)
  <2>1. IsFiniteSet(Edges) /\ Edges \subseteq Int
    BY BinsAssumption, FS_Interval DEF Edges
  <2> QED  BY <2>1, FS_Subset DEF Binning
<1>2. C # {}
  BY FS_EmptySet DEF Binning
<1>3. /\ Min(C) \in C /\ Max(C) \in C
      /\ \A e \in C : Min(C) <= e /\ e <= Max(C)
  BY <1>1, <1>2, MaxIn, MinIn
<1> DEFINE lo == Min(C)
           hi == Max(C)
<1>4. lo \in Int /\ hi \in Int /\ lo \in C /\ hi \in C /\ \A e \in C : e \in Int /\ lo <= e /\ e <= hi
  BY <1>1, <1>3
<1>5. Bins(C) = C \ {hi}
  BY DEF Bins
<1>6. IsFiniteSet(Bins(C)) /\ Bins(C) \subseteq C
  BY <1>1, <1>5, FS_Subset
<1> HIDE DEF lo, hi
<1>7. lo # hi
  <2>1. SUFFICES ASSUME lo = hi PROVE FALSE
    OBVIOUS
  <2>2. \A e \in C : e = lo
    BY <1>4, <2>1
  <2>3. C = {lo}
    BY <1>4, <2>2
  <2>4. Cardinality({lo}) = 1
    BY FS_Singleton
  <2>5. Cardinality(C) = 1
    BY <2>3, <2>4, Zenon
  <2> QED  BY <2>5 DEF Binning
<1>8. lo < hi /\ Bins(C) = {b \in C : b < hi} /\ lo \in Bins(C)
  <2>1. lo < hi /\ \A b \in C : b # hi <=> b < hi
    BY <1>4, <1>7
  <2>2. C \ {hi} = {b \in C : b < hi} /\ lo \in C \ {hi}
    BY <1>4, <1>7, <2>1
  <2> QED  BY <1>5, <2>1, <2>2, Zenon
<1> QED  BY <1>1, <1>2, <1>4, <1>6, <1>8 DEF lo, hi

LEMMA EndFacts ==
  ASSUME NEW C, Binning(C), NEW b \in Int, b < Max(C)
  PROVE  /\ End(C, b) \in C /\ b < End(C, b)
         /\ \A e \in C : e > b => End(C, b) <= e
<1> DEFINE S == {e \in C : e > b}
<1>1. C \subseteq Int /\ IsFiniteSet(C) /\ Max(C) \in C
  BY BinningFacts
<1>2. S \subseteq Int /\ IsFiniteSet(S) /\ S # {}
  BY <1>1, FS_Subset
<1>3. Min(S) \in S /\ \A s \in S : Min(S) <= s
  <2> HIDE DEF S
  <2> QED  BY <1>2, MinIn
<1>4. End(C, b) = Min(S)
  BY DEF End
<1> QED  BY <1>3, <1>4

LEMMA EdgesBinning == Binning(Edges)
<1>1. Cardinality(Edges) = LastEdge + 1
  BY BinsAssumption, FS_Interval DEF Edges
<1> QED  BY <1>1, BinsAssumption DEF Binning

LEMMA PairCardinality ==
  ASSUME NEW a, NEW b, a # b
  PROVE  Cardinality({a, b}) = 2
<1>1. IsFiniteSet({a}) /\ Cardinality({a}) = 1 /\ b \notin {a}
  BY FS_Singleton
<1>2. Cardinality({a} \cup {b}) = 2
  BY <1>1, FS_AddElement
<1>3. {a} \cup {b} = {a, b}
  OBVIOUS
<1> QED  BY <1>2, <1>3, Zenon

\* A part of a binning with its first and last edge is a binning.
LEMMA SubBinning ==
  ASSUME NEW D, Binning(D), NEW C \in SUBSET D, {Min(D), Max(D)} \subseteq C
  PROVE  Binning(C) /\ Min(C) = Min(D) /\ Max(C) = Max(D)
<1> DEFINE lo == Min(D)
           hi == Max(D)
<1>1. /\ IsFiniteSet(D) /\ lo < hi /\ lo \in D /\ hi \in D /\ lo \in Int /\ hi \in Int
      /\ \A e \in D : e \in Int /\ lo <= e /\ e <= hi
  BY BinningFacts
<1>2. lo \in C /\ hi \in C
  OBVIOUS
<1> HIDE DEF lo, hi
<1>3. Cardinality({lo, hi}) = 2
  <2>1. lo # hi
    BY <1>1
  <2> QED  BY <2>1, PairCardinality
<1>4. IsFiniteSet(C) /\ Cardinality({lo, hi}) <= Cardinality(C)
  BY <1>1, <1>2, FS_Subset
<1>5. Cardinality(C) \in Nat
  BY <1>4, FS_CardinalityType
<1>6. C \subseteq Int /\ C # {}
  BY <1>1, <1>2
<1> DEFINE clo == Min(C)
           chi == Max(C)
<1>7. clo \in C /\ chi \in C /\ \A e \in C : clo <= e /\ e <= chi
  BY <1>4, <1>6, MaxIn, MinIn
<1> HIDE DEF clo, chi
<1>8. clo \in Int /\ chi \in Int /\ clo <= lo /\ lo <= clo /\ hi <= chi /\ chi <= hi
  BY <1>1, <1>2, <1>7
<1>9. clo = lo /\ chi = hi
  BY <1>1, <1>8
<1>10. Cardinality(C) >= 2 /\ C \subseteq Edges
  BY <1>3, <1>4, <1>5 DEF Binning
<1> QED  BY <1>9, <1>10 DEF Binning, lo, hi, clo, chi

LEMMA IntegralInt ==
  ASSUME NEW B, IsFiniteSet(B), NEW h \in [B -> Int]
  PROVE  Integral(h) \in Int
<1>1. DOMAIN h = B /\ \A b \in B : h[b] \in Int
  OBVIOUS
<1>2. SumFunctionOnSet(h, B) \in Int
  BY <1>1, SumInt
<1> QED  BY <1>1, <1>2 DEF Integral

LEMMA ScaledType ==
  ASSUME NEW B, IsFiniteSet(B), NEW h \in [B -> Int], NEW q \in Fractions
  PROVE  Scaled(h, q) \in [B -> Int]
<1> DEFINE n == IF Integral(h) > 0 THEN Integral(h) ELSE 1
           d == q[2] * n
<1>1. n \in Int /\ n > 0 /\ q[1] \in Int /\ q[2] \in Int /\ q[2] > 0
  BY IntegralInt, Parts
<1>2. d \in Int /\ d > 0
  BY <1>1, PositiveProduct
<1>3. Scaled(h, q) = [b \in B |-> (h[b] * q[1]) \div d]
  BY DEF Scaled
<1> HIDE DEF d
<1>4. \A b \in B : (h[b] * q[1]) \div d \in Int
  <2>1. TAKE b \in B
  <2>2. h[b] * q[1] \in Int
    BY <1>1
  <2> QED  BY <1>2, <2>2
<1> QED  BY <1>3, <1>4

\* Scaled to its own integral a histogram is what it was.
LEMMA ScaledSame ==
  ASSUME NEW B, IsFiniteSet(B), NEW h \in [B -> Int], Integral(h) > 0,
         NEW r \in Int, r > 0, NEW q, q = <<Integral(h) * r, r>>
  PROVE  Scaled(h, q) = h
<1> DEFINE I == Integral(h)
<1>1. I \in Int /\ I > 0
  BY IntegralInt
<1>2. r * I \in Int /\ r * I > 0 /\ I * r = r * I
  BY <1>1, PositiveProduct
<1>3. Scaled(h, q) = [b \in B |-> (h[b] * (I * r)) \div (r * I)]
  BY DEF Scaled
<1> HIDE DEF I
<1>4. \A b \in B : (h[b] * (I * r)) \div (r * I) = h[b]
  <2>1. TAKE b \in B
  <2> DEFINE m == r * I
  <2>2. m \in Int /\ m > 0 /\ h[b] \in Int /\ h[b] * (I * r) = h[b] * m
    BY <1>2
  <2> HIDE DEF m
  <2>3. (h[b] * m) \div m = h[b]
    BY <2>2
  <2> QED  BY <2>2, <2>3, Zenon DEF m
<1> QED  BY <1>3, <1>4

LEMMA ScaledErrorsType ==
  ASSUME NEW B, IsFiniteSet(B), NEW h \in [B -> Int], NEW e2 \in [B -> Squares], NEW r \in Int
  PROVE  ScaledErrors(h, e2, r) \in [B -> Squares]
<1> DEFINE q == IF Integral(h) > 0 THEN <<r, Integral(h)>> ELSE Whole(r)
<1>1. q \in Fractions
  BY IntegralInt, Parts, FractionTypes
<1>2. Times(q, q) \in Squares
  <2>1. q[1] \in Int /\ q[2] \in Int /\ q[2] > 0
    BY <1>1, Parts
  <2> HIDE DEF q
  <2>2. q[1] * q[1] \in Int /\ q[1] * q[1] >= 0 /\ q[2] * q[2] \in Int /\ q[2] * q[2] > 0
    BY <2>1
  <2> QED  BY <2>2, Parts DEF Times
<1>3. ScaledErrors(h, e2, r) = [b \in B |-> IF q[1] = q[2] THEN e2[b] ELSE Times(e2[b], Times(q, q))]
  BY DEF ScaledErrors
<1> HIDE DEF q
<1>4. \A b \in B : Times(e2[b], Times(q, q)) \in Squares
  BY <1>2, FractionTypes
<1> QED  BY <1>3, <1>4

LEMMA GroupedType ==
  ASSUME NEW B, IsFiniteSet(B), NEW C
  PROVE  /\ \A h \in [B -> Int] : Grouped(h, C) \in [Bins(C) -> Int]
         /\ \A h \in [B -> Squares] : GroupedErrors(h, C) \in [Bins(C) -> Squares]
<1>1. ASSUME NEW h \in [B -> Int], NEW b
      PROVE  SumFunctionOnSet(h, Inside(h, C, b)) \in Int
  <2>1. Inside(h, C, b) \in SUBSET B
    BY DEF Inside
  <2>2. IsFiniteSet(Inside(h, C, b)) /\ \A s \in Inside(h, C, b) : h[s] \in Int
    BY <2>1, FS_Subset
  <2> QED  BY <2>2, SumInt
<1>2. ASSUME NEW h \in [B -> Squares], NEW b
      PROVE  SumFractions(h, Inside(h, C, b)) \in Squares
  <2>1. Inside(h, C, b) \in SUBSET B
    BY DEF Inside
  <2>2. IsFiniteSet(Inside(h, C, b)) /\ \A s \in Inside(h, C, b) : h[s] \in Squares
    BY <2>1, FS_Subset
  <2> QED  BY <2>2, FractionSum
<1> QED  BY <1>1, <1>2 DEF Grouped, GroupedErrors

-----------------------------------------------------------------------------
(* Types.                                                                  *)

\* A process and its systematic with the binning C.
ProcTyped(r, s, C) ==
  /\ r = [rate |-> r.rate, v |-> r.v, e2 |-> r.e2]
  /\ r.rate \in Int /\ r.v \in [Bins(C) -> Int] /\ r.e2 \in [Bins(C) -> Squares]
  /\ s.u \in [Bins(C) -> Int] /\ s.d \in [Bins(C) -> Int]
  /\ s.value_u \in Fractions /\ s.value_d \in Fractions

\* Processes are records, and AutoRebin is at work on an analysis bin without
\* nuisances of single bins.
Shaped ==
  /\ first \in Starts
  /\ proc = [p \in Procs |-> [rate |-> proc[p].rate, v |-> proc[p].v, e2 |-> proc[p].e2]]
  /\ search.on => /\ search = [on |-> TRUE, settings |-> search.settings, cuts |-> search.cuts]
                  /\ search.settings \in Searches /\ ~bbb.on

Typed == TypeOK /\ Shaped

LEMMA TypedProcs ==
  ASSUME Typed
  PROVE  /\ Binning(cuts) /\ IsFiniteSet(Bins(cuts))
         /\ \A p \in Procs : ProcTyped(proc[p], syst[p], cuts)
         /\ DOMAIN proc = Procs
<1>1. Binning(cuts)
  BY DEF Typed, TypeOK, Binning
<1>2. IsFiniteSet(Bins(cuts))
  BY <1>1, BinningFacts
<1>3. ASSUME NEW p \in Procs PROVE ProcTyped(proc[p], syst[p], cuts)
  <2>1. proc[p] = [rate |-> proc[p].rate, v |-> proc[p].v, e2 |-> proc[p].e2]
    BY DEF Typed, Shaped
  <2> QED  BY <2>1 DEF ProcTyped, Typed, TypeOK
<1>4. DOMAIN proc = Procs
  BY DEF Typed, Shaped
<1> QED  BY <1>1, <1>2, <1>3, <1>4

LEMMA TypedNext ==
  ASSUME Binning(cuts'), \A p \in Procs : ProcTyped(proc'[p], syst'[p], cuts'),
         proc' = [p \in Procs |-> proc'[p]],
         bbb'.on => bbb'.of \subseteq bbb'.procs \X Bins(cuts'),
         search'.on =>
           /\ search'.cuts \subseteq cuts' /\ {Min(cuts'), Max(cuts')} \subseteq search'.cuts
           /\ search' = [on |-> TRUE, settings |-> search'.settings, cuts |-> search'.cuts]
           /\ search'.settings \in Searches /\ ~bbb'.on,
         lost' \subseteq Procs, calls' \in 0..MaxCalls, first' \in Starts
  PROVE  Typed'
<1>1. TypeOK'
  BY DEF TypeOK, Binning, ProcTyped
<1>2. \A p \in Procs : proc'[p] = [rate |-> proc'[p].rate, v |-> proc'[p].v, e2 |-> proc'[p].e2]
  BY DEF ProcTyped
<1>3. proc' = [p \in Procs |-> [rate |-> proc'[p].rate, v |-> proc'[p].v, e2 |-> proc'[p].e2]]
  BY <1>2
<1> QED  BY <1>1, <1>3 DEF Typed, Shaped

\* What is computed from a process has its types.
LEMMA Computed ==
  ASSUME Typed, NEW p \in Procs
  PROVE  /\ Nominal(p) \in [Bins(cuts) -> Int]
         /\ Errors(p) \in [Bins(cuts) -> Squares]
         /\ \A r \in Int : /\ Up(syst[p], r) \in [Bins(cuts) -> Int]
                           /\ Down(syst[p], r) \in [Bins(cuts) -> Int]
<1>1. IsFiniteSet(Bins(cuts)) /\ ProcTyped(proc[p], syst[p], cuts)
  BY TypedProcs
<1>2. Nominal(p) \in [Bins(cuts) -> Int]
  <2>1. Whole(proc[p].rate) \in Fractions
    BY <1>1, FractionTypes DEF ProcTyped
  <2>2. proc[p].v \in [Bins(cuts) -> Int]
    BY <1>1 DEF ProcTyped
  <2> QED  BY <1>1, <2>1, <2>2, ScaledType DEF Nominal
<1>3. Errors(p) \in [Bins(cuts) -> Squares]
  BY <1>1, ScaledErrorsType DEF Errors, ProcTyped
<1>4. ASSUME NEW r \in Int
      PROVE  Up(syst[p], r) \in [Bins(cuts) -> Int] /\ Down(syst[p], r) \in [Bins(cuts) -> Int]
  <2>1. Times(syst[p].value_u, Whole(r)) \in Fractions /\ Times(syst[p].value_d, Whole(r)) \in Fractions
    BY <1>1, FractionTypes DEF ProcTyped
  <2>2. syst[p].u \in [Bins(cuts) -> Int] /\ syst[p].d \in [Bins(cuts) -> Int]
    BY <1>1 DEF ProcTyped
  <2> QED  BY <1>1, <2>1, <2>2, ScaledType DEF Up, Down
<1> QED  BY <1>2, <1>3, <1>4

\* set_shape and set_shapes.
LEMMA SetTyped ==
  ASSUME NEW C, IsFiniteSet(Bins(C)),
         NEW h \in [Bins(C) -> Int], NEW e \in [Bins(C) -> Squares],
         NEW u \in [Bins(C) -> Int], NEW d \in [Bins(C) -> Int], NEW nominal \in [Bins(C) -> Int],
         NEW s, s.value_u \in Fractions, s.value_d \in Fractions
  PROVE  ProcTyped(SetShape(h, e), SetShapes(s, u, d, nominal), C)
<1>1. Integral(h) \in Int /\ Integral(u) \in Int /\ Integral(d) \in Int /\ Integral(nominal) \in Int
  BY IntegralInt
<1>2. /\ Integral(nominal) > 0 => <<Integral(u), Integral(nominal)>> \in Fractions
      /\ Integral(nominal) > 0 => <<Integral(d), Integral(nominal)>> \in Fractions
  BY <1>1, Parts
<1> QED  BY <1>1, <1>2 DEF ProcTyped, SetShape, SetShapes

\* What rebinning and zeroing do.
LEMMA RebinStep ==
  ASSUME NEW C, Rebin(C)
  PROVE  /\ cuts' = C /\ lost' = lost \cup NotPositive(Procs)'
         /\ proc' = [p \in Procs |-> SetShape(Grouped(Nominal(p), C), GroupedErrors(Errors(p), C))]
         /\ \A p \in Procs :
              syst'[p] = SetShapes(syst[p], Grouped(Up(syst[p], proc[p].rate), C),
                                   Grouped(Down(syst[p], proc[p].rate), C),
                                   Scaled(proc'[p].v, Whole(proc'[p].rate)))
  BY DEF Rebin, Apply, Changed, ChangedSyst, RateBefore

ZeroedIn(h, Z) == [b \in DOMAIN h |-> IF b \in Z THEN 0 ELSE h[b]]
ZeroedErrors(h, Z) == [b \in DOMAIN h |-> IF b \in Z THEN Whole(0) ELSE h[b]]

LEMMA ZeroStep ==
  ASSUME NEW min, NEW max, NEW P \in SUBSET Procs, ZeroBins(min, max, P)
  PROVE  LET Z == Within(min, max)
         IN /\ lost' = lost \cup NotPositive(P)'
            /\ proc' = [p \in Procs |-> IF p \in P
                          THEN SetShape(ZeroedIn(Nominal(p), Z), ZeroedErrors(Errors(p), Z)) ELSE proc[p]]
            /\ \A p \in Procs :
                 syst'[p] = IF p \in P
                            THEN SetShapes(syst[p], ZeroedIn(Up(syst[p], proc[p].rate), Z),
                                           ZeroedIn(Down(syst[p], proc[p].rate), Z),
                                           Scaled(proc'[p].v, Whole(proc'[p].rate)))
                            ELSE syst[p]
  BY DEF ZeroBins, Apply, Changed, ChangedSyst, RateBefore, ZeroedIn, ZeroedErrors

LEMMA TypedRebin ==
  ASSUME Typed, NEW C \in SUBSET cuts, Cardinality(C) >= 2, Rebin(C)
  PROVE  /\ Binning(cuts') /\ \A p \in Procs : ProcTyped(proc'[p], syst'[p], cuts')
         /\ proc' = [p \in Procs |-> proc'[p]] /\ lost' \subseteq Procs
<1>1. /\ Binning(cuts) /\ IsFiniteSet(Bins(cuts))
      /\ \A p \in Procs : ProcTyped(proc[p], syst[p], cuts)
  BY TypedProcs
<1>2. Binning(C) /\ IsFiniteSet(Bins(C)) /\ cuts' = C
  BY <1>1, BinningFacts, RebinStep DEF Binning
<1>3. proc' = [p \in Procs |-> SetShape(Grouped(Nominal(p), C), GroupedErrors(Errors(p), C))]
  BY RebinStep
<1>4. ASSUME NEW p \in Procs PROVE ProcTyped(proc'[p], syst'[p], C)
  <2> DEFINE u == Up(syst[p], proc[p].rate)
             d == Down(syst[p], proc[p].rate)
  <2>1. /\ Nominal(p) \in [Bins(cuts) -> Int] /\ Errors(p) \in [Bins(cuts) -> Squares]
        /\ u \in [Bins(cuts) -> Int] /\ d \in [Bins(cuts) -> Int]
    <3>1. proc[p].rate \in Int
      BY <1>1 DEF ProcTyped
    <3> QED  BY <3>1, Computed
  <2>2. /\ proc'[p] = SetShape(Grouped(Nominal(p), C), GroupedErrors(Errors(p), C))
        /\ syst'[p] = SetShapes(syst[p], Grouped(u, C), Grouped(d, C), Scaled(proc'[p].v, Whole(proc'[p].rate)))
    BY <1>3, RebinStep
  <2> HIDE DEF u, d
  <2>3. /\ Grouped(Nominal(p), C) \in [Bins(C) -> Int] /\ GroupedErrors(Errors(p), C) \in [Bins(C) -> Squares]
        /\ Grouped(u, C) \in [Bins(C) -> Int] /\ Grouped(d, C) \in [Bins(C) -> Int]
    BY <1>1, <2>1, GroupedType
  <2>4. proc'[p].v \in [Bins(C) -> Int] /\ proc'[p].rate \in Int
    BY <1>2, <2>2, <2>3, IntegralInt DEF SetShape
  <2>5. Scaled(proc'[p].v, Whole(proc'[p].rate)) \in [Bins(C) -> Int]
    BY <1>2, <2>4, ScaledType, FractionTypes
  <2>6. syst[p].value_u \in Fractions /\ syst[p].value_d \in Fractions
    BY <1>1 DEF ProcTyped
  <2> QED  BY <1>2, <2>2, <2>3, <2>5, <2>6, SetTyped
<1>5. NotPositive(Procs)' \subseteq Procs /\ lost \subseteq Procs
  BY DEF NotPositive, Typed, TypeOK
<1>6. lost' \subseteq Procs
  BY <1>5, RebinStep
<1>7. proc' = [p \in Procs |-> proc'[p]]
  BY <1>3
<1> QED  BY <1>2, <1>4, <1>6, <1>7

LEMMA TypedVariableRebin ==
  ASSUME Typed, NEW C \in SUBSET cuts, VariableRebin(C)
  PROVE  Typed'
<1>1. /\ Rebin(C) /\ Cardinality(C) >= 2 /\ ~search.on /\ ~bbb.on
      /\ bbb' = bbb /\ search' = search /\ first' = first /\ calls < MaxCalls /\ calls' = calls + 1
  BY DEF VariableRebin, Counted
<1>2. /\ Binning(cuts') /\ \A p \in Procs : ProcTyped(proc'[p], syst'[p], cuts')
      /\ proc' = [p \in Procs |-> proc'[p]] /\ lost' \subseteq Procs
  BY <1>1, TypedRebin
<1>3. calls' \in 0..MaxCalls /\ first' \in Starts
  BY <1>1, CallsAssumption DEF Typed, TypeOK, Shaped
<1>4. ~search'.on /\ ~bbb'.on
  BY <1>1
<1> QED  BY <1>2, <1>3, <1>4, TypedNext

LEMMA TypedZeroBins ==
  ASSUME Typed, NEW min, NEW max, NEW P \in SUBSET Procs, ZeroBins(min, max, P)
  PROVE  Typed'
<1> DEFINE Z == Within(min, max)
<1>1. /\ ~search.on /\ ~bbb.on /\ bbb' = bbb /\ search' = search /\ first' = first
      /\ cuts' = cuts /\ calls < MaxCalls /\ calls' = calls + 1
  BY DEF ZeroBins, Counted
<1>2. /\ Binning(cuts) /\ IsFiniteSet(Bins(cuts))
      /\ \A p \in Procs : ProcTyped(proc[p], syst[p], cuts)
  BY TypedProcs
<1>3. /\ lost' = lost \cup NotPositive(P)'
      /\ proc' = [p \in Procs |-> IF p \in P
                    THEN SetShape(ZeroedIn(Nominal(p), Z), ZeroedErrors(Errors(p), Z)) ELSE proc[p]]
      /\ \A p \in Procs :
           syst'[p] = IF p \in P
                      THEN SetShapes(syst[p], ZeroedIn(Up(syst[p], proc[p].rate), Z),
                                     ZeroedIn(Down(syst[p], proc[p].rate), Z),
                                     Scaled(proc'[p].v, Whole(proc'[p].rate)))
                      ELSE syst[p]
  BY ZeroStep
<1> HIDE DEF Z
<1>4. /\ \A h \in [Bins(cuts) -> Int] : ZeroedIn(h, Z) \in [Bins(cuts) -> Int]
      /\ \A h \in [Bins(cuts) -> Squares] : ZeroedErrors(h, Z) \in [Bins(cuts) -> Squares]
  BY FractionTypes DEF ZeroedIn, ZeroedErrors
<1>5. ASSUME NEW p \in Procs PROVE ProcTyped(proc'[p], syst'[p], cuts)
  <2>1. CASE p \in P
    <3> DEFINE u == Up(syst[p], proc[p].rate)
               d == Down(syst[p], proc[p].rate)
    <3>1. /\ Nominal(p) \in [Bins(cuts) -> Int] /\ Errors(p) \in [Bins(cuts) -> Squares]
          /\ u \in [Bins(cuts) -> Int] /\ d \in [Bins(cuts) -> Int]
      <4>1. proc[p].rate \in Int
        BY <1>2 DEF ProcTyped
      <4> QED  BY <4>1, Computed
    <3>2. /\ proc'[p] = SetShape(ZeroedIn(Nominal(p), Z), ZeroedErrors(Errors(p), Z))
          /\ syst'[p] = SetShapes(syst[p], ZeroedIn(u, Z), ZeroedIn(d, Z), Scaled(proc'[p].v, Whole(proc'[p].rate)))
      BY <1>3, <2>1
    <3> HIDE DEF u, d
    <3>3. /\ ZeroedIn(Nominal(p), Z) \in [Bins(cuts) -> Int] /\ ZeroedErrors(Errors(p), Z) \in [Bins(cuts) -> Squares]
          /\ ZeroedIn(u, Z) \in [Bins(cuts) -> Int] /\ ZeroedIn(d, Z) \in [Bins(cuts) -> Int]
      BY <1>4, <3>1
    <3>4. proc'[p].v \in [Bins(cuts) -> Int] /\ proc'[p].rate \in Int
      BY <1>2, <3>2, <3>3, IntegralInt DEF SetShape
    <3>5. Scaled(proc'[p].v, Whole(proc'[p].rate)) \in [Bins(cuts) -> Int]
      BY <1>2, <3>4, ScaledType, FractionTypes
    <3>6. syst[p].value_u \in Fractions /\ syst[p].value_d \in Fractions
      BY <1>2 DEF ProcTyped
    <3> QED  BY <1>2, <3>2, <3>3, <3>5, <3>6, SetTyped
  <2>2. CASE p \notin P
    <3>1. proc'[p] = proc[p] /\ syst'[p] = syst[p]
      BY <1>3, <2>2
    <3> QED  BY <1>2, <3>1
  <2> QED  BY <2>1, <2>2
<1>6. NotPositive(P)' \subseteq Procs /\ lost \subseteq Procs
  BY DEF NotPositive, Typed, TypeOK
<1>7. lost' \subseteq Procs
  BY <1>3, <1>6
<1>8. proc' = [p \in Procs |-> proc'[p]]
  BY <1>3
<1>9. calls' \in 0..MaxCalls /\ first' \in Starts
  BY <1>1, CallsAssumption DEF Typed, TypeOK, Shaped
<1>10. ~search'.on /\ ~bbb'.on
  BY <1>1
<1> QED  BY <1>1, <1>2, <1>5, <1>7, <1>8, <1>9, <1>10, TypedNext

-----------------------------------------------------------------------------
(* Binnings that AutoRebin tries.                                          *)

\* A total background has contents and squared errors between all edges.
TotalOn(T, D) ==
  \A b, e \in D : T.v[b, e] \in Int /\ T.e2[b, e] \in Squares

LEMMA TotalTypes ==
  ASSUME Typed
  PROVE  TotalOn(Total, cuts)
<1>1. IsFiniteSet(Bins(cuts)) /\ IsFiniteSet(Backgrounds) /\ Backgrounds \subseteq Procs
  BY TypedProcs, BinsAssumption, FS_Subset
<1>2. \A be : IsFiniteSet(Between(be)) /\ Between(be) \subseteq Bins(cuts)
  BY <1>1, FS_Subset DEF Between
<1>3. ASSUME NEW be \in cuts \X cuts
      PROVE  TotalV[be] \in Int /\ TotalE[be] \in Squares
  <2> DEFINE V == [p \in Backgrounds |-> SumFunctionOnSet(Nominal(p), Between(be))]
             Q == [p \in Backgrounds |-> SumFractions(Errors(p), Between(be))]
  <2>1. ASSUME NEW p \in Backgrounds PROVE V[p] \in Int /\ Q[p] \in Squares
    <3>1. Nominal(p) \in [Bins(cuts) -> Int] /\ Errors(p) \in [Bins(cuts) -> Squares]
      BY <1>1, Computed
    <3>2. \A b \in Between(be) : Nominal(p)[b] \in Int /\ Errors(p)[b] \in Squares
      BY <1>2, <3>1
    <3>3. SumFunctionOnSet(Nominal(p), Between(be)) \in Int /\ SumFractions(Errors(p), Between(be)) \in Squares
      BY <1>2, <3>2, SumInt, FractionSum
    <3> QED  BY <3>3
  <2>2. TotalV[be] = SumFunctionOnSet(V, Backgrounds) /\ TotalE[be] = SumFractions(Q, Backgrounds)
    BY DEF TotalV, TotalE
  <2> HIDE DEF V, Q
  <2> QED  BY <1>1, <2>1, <2>2, SumInt, FractionSum
<1>4. Total.v = TotalV /\ Total.e2 = TotalE
  BY DEF Total
<1> QED  BY <1>3, <1>4 DEF TotalOn

LEMMA ContentInt ==
  ASSUME NEW C, Binning(C), NEW T, TotalOn(T, C)
  PROVE  \A b \in Bins(C) : /\ Content(T, C, b) = T.v[b, End(C, b)] /\ Content(T, C, b) \in Int
                            /\ T.e2[b, End(C, b)] \in Squares
<1>1. \A b \in Bins(C) : b \in C /\ End(C, b) \in C
  BY BinningFacts, EndFacts
<1> QED  BY <1>1 DEF TotalOn, Content

LEMMA LowestIn ==
  ASSUME NEW C, Binning(C), NEW T, TotalOn(T, C), NEW s
  PROVE  /\ Lowest(s, T, C) \in Bins(C)
         /\ \A a \in Bins(C) : Content(T, C, Lowest(s, T, C)) <= Content(T, C, a)
<1> DEFINE low == {b \in Bins(C) : \A a \in Bins(C) : Content(T, C, b) <= Content(T, C, a)}
           f == [b \in Bins(C) |-> -Content(T, C, b)]
<1>1. /\ IsFiniteSet(Bins(C)) /\ Bins(C) # {} /\ Bins(C) \subseteq Int
      /\ \A b \in Bins(C) : Content(T, C, b) \in Int
  BY BinningFacts, ContentInt
<1>2. PICK m \in Bins(C) : \A a \in Bins(C) : f[a] <= f[m]
  <2>1. \A b \in Bins(C) : f[b] \in Int
    BY <1>1
  <2> HIDE DEF f
  <2> QED  BY <1>1, <2>1, LargestIn
<1>3. m \in low
  BY <1>1, <1>2
<1>4. low \subseteq Int /\ IsFiniteSet(low) /\ low # {}
  BY <1>1, <1>3, FS_Subset
<1>5. Lowest(s, T, C) = Min(low) \/ Lowest(s, T, C) = Max(low)
  BY DEF Lowest
<1>6. Lowest(s, T, C) \in low
  <2> HIDE DEF low
  <2> QED  BY <1>4, <1>5, MinIn, MaxIn
<1> QED  BY <1>6

LEMMA PeakIn ==
  ASSUME NEW C, Binning(C), NEW T, TotalOn(T, C)
  PROVE  Peak(T, C) \in Bins(C)
<1> DEFINE f == [b \in Bins(C) |-> Content(T, C, b)]
           high == {b \in Bins(C) : \A a \in Bins(C) : Content(T, C, a) <= Content(T, C, b)}
<1>1. /\ IsFiniteSet(Bins(C)) /\ Bins(C) # {} /\ Bins(C) \subseteq Int
      /\ \A b \in Bins(C) : Content(T, C, b) \in Int
  BY BinningFacts, ContentInt
<1>2. PICK m \in Bins(C) : \A a \in Bins(C) : f[a] <= f[m]
  <2>1. \A b \in Bins(C) : f[b] \in Int
    BY <1>1
  <2> HIDE DEF f
  <2> QED  BY <1>1, <2>1, LargestIn
<1>3. high \subseteq Int /\ IsFiniteSet(high) /\ high # {}
  <2>1. m \in high
    BY <1>2
  <2> QED  BY <1>1, <2>1, FS_Subset
<1> DEFINE n == Min(high)
<1>4. n \in high /\ \A a \in high : n <= a
  <2> HIDE DEF high
  <2> QED  BY <1>3, MinIn
<1> HIDE DEF n
<1>5. /\ n \in Bins(C) /\ \A a \in Bins(C) : Content(T, C, a) <= Content(T, C, n)
      /\ \A a \in Bins(C) : a < n => Content(T, C, a) < Content(T, C, n)
  <2>1. ASSUME NEW a \in Bins(C), a < n PROVE Content(T, C, a) < Content(T, C, n)
    <3>1. a \notin high /\ n \in Int /\ a \in Int
      BY <1>1, <1>4, <2>1
    <3>2. PICK c \in Bins(C) : ~(Content(T, C, c) <= Content(T, C, a))
      BY <3>1
    <3>3. Content(T, C, c) <= Content(T, C, n)
      BY <1>4
    <3>4. Content(T, C, c) \in Int /\ Content(T, C, a) \in Int /\ Content(T, C, n) \in Int
      BY <1>1, <1>4
    <3> QED  BY <3>2, <3>3, <3>4
  <2> QED  BY <1>4, <2>1
<1> QED  BY <1>5 DEF Peak

LEMMA MostUncertainIn ==
  ASSUME NEW C, Binning(C), NEW T
  PROVE  MostUncertain(T, C, Uncertain(T, C)) \in Bins(C)
<1>1. /\ IsFiniteSet(Bins(C)) /\ Bins(C) \subseteq Int /\ Min(C) \in Bins(C)
  BY BinningFacts
<1>2. /\ Uncertain(T, C) \subseteq Bins(C)
      /\ IsFiniteSet(Uncertain(T, C)) /\ Uncertain(T, C) \subseteq Int
  BY <1>1, FS_Subset DEF Uncertain
<1>3. Uncertain(T, C) # {} => Min(Uncertain(T, C)) \in Uncertain(T, C)
  BY <1>2, MinIn
<1> QED  BY <1>1, <1>2, <1>3 DEF MostUncertain

\* What MergeWorst does, and that only the peak has nowhere to go.
LEMMA MergeWorstCases ==
  ASSUME NEW C, Binning(C), NEW worst \in Int, NEW peak \in Int, NEW froms, NEW tos
  PROVE  LET N == MergeWorst(C, worst, peak, froms, tos)
         IN \/ froms = {} /\ tos = {} /\ N = {Min(C), Max(C)}
            \/ froms # {} /\ N = MergeLeft(C, Max(froms), worst)
            \/ tos # {} /\ N = MergeRight(C, worst, Min(tos))
            \/ worst = peak /\ N = C
<1> DEFINE nleft == Cardinality({b \in C : Max(froms) <= b /\ b <= worst})
           nright == Cardinality({e \in C : worst < e /\ e <= Min(tos)})
           left == froms # {} /\ (tos = {} \/ nleft < nright \/ (nleft = nright /\ worst > peak))
           right == tos # {} /\ (froms = {} \/ nright < nleft \/ (nleft = nright /\ worst < peak))
<1>1. nleft \in Int /\ nright \in Int
  <2>1. IsFiniteSet(C)
    BY BinningFacts
  <2>2. IsFiniteSet({b \in C : Max(froms) <= b /\ b <= worst}) /\ IsFiniteSet({e \in C : worst < e /\ e <= Min(tos)})
    BY <2>1, FS_Subset
  <2> QED  BY <2>2, FS_CardinalityType
<1>2. MergeWorst(C, worst, peak, froms, tos) =
        CASE froms = {} /\ tos = {} -> {Min(C), Max(C)}
          [] left -> MergeLeft(C, Max(froms), worst)
          [] right -> MergeRight(C, worst, Min(tos))
          [] OTHER -> C
  BY DEF MergeWorst
<1> HIDE DEF nleft, nright
<1>3. /\ left => froms # {} /\ ~right
      /\ right => tos # {}
      /\ ~left /\ ~right /\ ~(froms = {} /\ tos = {}) => worst = peak
  BY <1>1
<1> HIDE DEF left, right
<1> QED  BY <1>2, <1>3

LEMMA MergeFailingKeepsEnds ==
  ASSUME NEW C, Binning(C), NEW T, TotalOn(T, C), NEW s, NEW byContent, NEW worst \in Bins(C)
  PROVE  LET N == MergeFailing(s, T, C, byContent, worst)
         IN N \subseteq C /\ {Min(C), Max(C)} \subseteq N
<1> DEFINE froms == {b \in C : b <= worst /\ ~Fails(s, T, byContent, b, End(C, worst))}
           tos == {e \in C : s.mode # 2 /\ e >= End(C, worst) /\ ~Fails(s, T, byContent, worst, e)}
           peak == Peak(T, C)
           lo == Min(C)
           hi == Max(C)
           N == MergeWorst(C, worst, peak, froms, tos)
<1>1. MergeFailing(s, T, C, byContent, worst) = N \/ MergeFailing(s, T, C, byContent, worst) = C
  BY DEF MergeFailing
<1>2. /\ C \subseteq Int /\ IsFiniteSet(C) /\ lo \in C /\ hi \in C
      /\ \A e \in C : e \in Int /\ lo <= e /\ e <= hi
      /\ worst \in C /\ worst < hi /\ worst \in Int /\ peak \in Int
  BY BinningFacts, PeakIn
<1>3. \/ froms = {} /\ tos = {} /\ N = {lo, hi}
      \/ froms # {} /\ N = MergeLeft(C, Max(froms), worst)
      \/ tos # {} /\ N = MergeRight(C, worst, Min(tos))
      \/ worst = peak /\ N = C
  <2> HIDE DEF froms, tos, peak
  <2> QED  BY <1>2, MergeWorstCases
<1>4. froms \subseteq C /\ tos \subseteq C
  OBVIOUS
<1> HIDE DEF N, froms, tos, peak, lo, hi
<1>5. froms # {} => Max(froms) \in C
  <2>1. froms \subseteq Int /\ IsFiniteSet(froms)
    BY <1>2, <1>4, FS_Subset
  <2> QED  BY <2>1, <1>4, MaxIn
<1>6. tos # {} => Min(tos) \in C
  <2>1. tos \subseteq Int /\ IsFiniteSet(tos)
    BY <1>2, <1>4, FS_Subset
  <2> QED  BY <2>1, <1>4, MinIn
<1>7. ASSUME NEW from \in C
      PROVE  MergeLeft(C, from, worst) \subseteq C /\ {lo, hi} \subseteq MergeLeft(C, from, worst)
  <2>1. ~(from < lo /\ lo <= worst) /\ ~(from < hi /\ hi <= worst)
    BY <1>2
  <2> QED  BY <1>2, <2>1 DEF MergeLeft
<1>8. ASSUME NEW to \in C
      PROVE  MergeRight(C, worst, to) \subseteq C /\ {lo, hi} \subseteq MergeRight(C, worst, to)
  <2>1. ~(worst < lo /\ lo < to) /\ ~(worst < hi /\ hi < to)
    BY <1>2
  <2> QED  BY <1>2, <2>1 DEF MergeRight
<1>9. N \subseteq C /\ {lo, hi} \subseteq N
  <2>1. CASE froms = {} /\ tos = {} /\ N = {lo, hi}
    BY <1>2, <2>1
  <2>2. CASE froms # {} /\ N = MergeLeft(C, Max(froms), worst)
    BY <1>5, <1>7, <2>2
  <2>3. CASE tos # {} /\ N = MergeRight(C, worst, Min(tos))
    BY <1>6, <1>8, <2>3
  <2>4. CASE worst = peak /\ N = C
    BY <1>2, <2>4
  <2> QED  BY <1>3, <2>1, <2>2, <2>3, <2>4
<1> QED  BY <1>1, <1>2, <1>9 DEF N, froms, tos, peak, lo, hi

LEMMA NewBinningKeepsEnds ==
  ASSUME NEW C, Binning(C), NEW T, TotalOn(T, C), NEW s
  PROVE  NewBinning(s, T, C) \subseteq C /\ {Min(C), Max(C)} \subseteq NewBinning(s, T, C)
<1>1. CASE s.mode = 0
  <2>1. NewBinning(s, T, C) = SimplePass(s, T, C, Peak(T, C))
    BY <1>1 DEF NewBinning
  <2>2. Min(C) \in C /\ Max(C) \in C
    BY BinningFacts
  <2> QED  BY <2>1, <2>2 DEF SimplePass
<1>2. CASE s.mode # 0
  <2> DEFINE low == Lowest(s, T, C)
             most == MostUncertain(T, C, Uncertain(T, C))
  <2>1. low \in Bins(C) /\ most \in Bins(C)
    BY LowestIn, MostUncertainIn
  <2>2. NewBinning(s, T, C) = WorstPass(s, T, C, low)
    BY <1>2 DEF NewBinning
  <2>3. WorstPass(s, T, C, low) \in {MergeFailing(s, T, C, TRUE, low), MergeFailing(s, T, C, FALSE, most)}
    BY DEF WorstPass
  <2> HIDE DEF low, most
  <2>4. /\ MergeFailing(s, T, C, TRUE, low) \subseteq C /\ {Min(C), Max(C)} \subseteq MergeFailing(s, T, C, TRUE, low)
        /\ MergeFailing(s, T, C, FALSE, most) \subseteq C /\ {Min(C), Max(C)} \subseteq MergeFailing(s, T, C, FALSE, most)
    <3>1. \A byContent : \A worst \in Bins(C) :
            /\ MergeFailing(s, T, C, byContent, worst) \subseteq C
            /\ {Min(C), Max(C)} \subseteq MergeFailing(s, T, C, byContent, worst)
      BY MergeFailingKeepsEnds
    <3> QED  BY <2>1, <3>1, Zenon
  <2> QED  BY <2>2, <2>3, <2>4
<1> QED  BY <1>1, <1>2

LEMMA FoundBinning ==
  ASSUME Typed, search.on
  PROVE  /\ Binning(search.cuts) /\ TotalOn(Total, search.cuts) /\ search.settings \in Searches
         /\ Found \subseteq search.cuts /\ search.cuts \subseteq cuts /\ Binning(Found)
         /\ {Min(cuts), Max(cuts)} \subseteq Found
<1> DEFINE C == search.cuts
<1>1. Binning(cuts) /\ TotalOn(Total, cuts) /\ C \subseteq cuts /\ {Min(cuts), Max(cuts)} \subseteq C
      /\ search.settings \in Searches
  BY TypedProcs, TotalTypes DEF Typed, TypeOK, Shaped
<1>2. Binning(C) /\ Min(C) = Min(cuts) /\ Max(C) = Max(cuts)
  BY <1>1, SubBinning
<1>3. TotalOn(Total, C)
  BY <1>1 DEF TotalOn
<1>4. Found \subseteq C /\ {Min(C), Max(C)} \subseteq Found
  BY <1>2, <1>3, NewBinningKeepsEnds DEF Found
<1>5. Binning(Found)
  BY <1>2, <1>4, SubBinning
<1> QED  BY <1>1, <1>2, <1>3, <1>4, <1>5

LEMMA TypedStartSearch ==
  ASSUME Typed, NEW s \in Searches, StartSearch(s)
  PROVE  Typed'
<1>1. /\ search' = [on |-> TRUE, settings |-> s, cuts |-> cuts] /\ ~bbb.on /\ bbb' = bbb
      /\ cuts' = cuts /\ proc' = proc /\ syst' = syst /\ first' = first /\ lost' = lost
      /\ calls < MaxCalls /\ calls' = calls + 1
  BY DEF StartSearch, Counted
<1>2. Binning(cuts) /\ (\A p \in Procs : ProcTyped(proc[p], syst[p], cuts)) /\ proc = [p \in Procs |-> proc[p]]
  BY TypedProcs DEF Typed, Shaped
<1>3. Min(cuts) \in cuts /\ Max(cuts) \in cuts
  BY <1>2, BinningFacts
<1>4. lost \subseteq Procs /\ calls' \in 0..MaxCalls /\ first \in Starts
  BY <1>1, CallsAssumption DEF Typed, TypeOK, Shaped
<1>5. /\ search'.on /\ search'.cuts = cuts /\ search'.settings = s
      /\ search' = [on |-> TRUE, settings |-> search'.settings, cuts |-> search'.cuts]
  BY <1>1
<1> QED  BY <1>1, <1>2, <1>3, <1>4, <1>5, TypedNext

LEMMA TypedSearchOn ==
  ASSUME Typed, SearchOn
  PROVE  Typed'
<1>1. /\ search.on /\ search' = [search EXCEPT !.cuts = Found] /\ bbb' = bbb
      /\ cuts' = cuts /\ proc' = proc /\ syst' = syst /\ first' = first /\ lost' = lost /\ calls' = calls
  BY DEF SearchOn
<1>2. Binning(cuts) /\ (\A p \in Procs : ProcTyped(proc[p], syst[p], cuts)) /\ proc = [p \in Procs |-> proc[p]]
  BY TypedProcs DEF Typed, Shaped
<1>3. search = [on |-> TRUE, settings |-> search.settings, cuts |-> search.cuts] /\ ~bbb.on
  BY <1>1 DEF Typed, Shaped
<1>4. search' = [on |-> TRUE, settings |-> search.settings, cuts |-> Found]
  BY <1>1, <1>3
<1>5. lost \subseteq Procs /\ calls \in 0..MaxCalls /\ first \in Starts
  BY DEF Typed, TypeOK, Shaped
<1>6. Found \subseteq cuts /\ {Min(cuts), Max(cuts)} \subseteq Found /\ search.settings \in Searches
  BY <1>1, FoundBinning
<1>7. /\ search'.on /\ search'.cuts = Found /\ search'.settings = search.settings
      /\ search' = [on |-> TRUE, settings |-> search'.settings, cuts |-> search'.cuts]
  BY <1>4
<1> QED  BY <1>1, <1>2, <1>3, <1>5, <1>6, <1>7, TypedNext

LEMMA TypedEndSearch ==
  ASSUME Typed, EndSearch
  PROVE  Typed'
<1>1. /\ search.on /\ search' = None /\ bbb' = bbb /\ first' = first /\ calls' = calls
      /\ UNCHANGED <<cuts, proc, syst, lost>> \/ Rebin(Found)
  BY DEF EndSearch
<1>2. ~search'.on /\ ~bbb'.on
  BY <1>1 DEF None, Typed, Shaped
<1>3. lost \subseteq Procs /\ calls \in 0..MaxCalls /\ first \in Starts
  BY DEF Typed, TypeOK, Shaped
<1>4. CASE UNCHANGED <<cuts, proc, syst, lost>>
  <2>1. Binning(cuts) /\ (\A p \in Procs : ProcTyped(proc[p], syst[p], cuts)) /\ proc = [p \in Procs |-> proc[p]]
    BY TypedProcs DEF Typed, Shaped
  <2>2. cuts' = cuts /\ proc' = proc /\ syst' = syst /\ lost' = lost
    BY <1>4
  <2> QED  BY <1>1, <1>2, <1>3, <2>1, <2>2, TypedNext
<1>5. CASE Rebin(Found)
  <2>1. Found \in SUBSET cuts /\ Cardinality(Found) >= 2
    BY <1>1, FoundBinning DEF Binning
  <2>2. /\ Binning(cuts') /\ \A p \in Procs : ProcTyped(proc'[p], syst'[p], cuts')
        /\ proc' = [p \in Procs |-> proc'[p]] /\ lost' \subseteq Procs
    BY <1>5, <2>1, TypedRebin
  <2> QED  BY <1>1, <1>2, <1>3, <2>2, TypedNext
<1> QED  BY <1>1, <1>4, <1>5

-----------------------------------------------------------------------------
(* Merging errors.                                                         *)

LEMMA NotLessTransitive ==
  ASSUME NEW a \in Fractions, NEW b \in Fractions, NEW c \in Fractions, ~Less(a, b), ~Less(b, c)
  PROVE  ~Less(a, c)
<1>1. /\ a[1] \in Int /\ a[2] \in Int /\ a[2] > 0 /\ b[1] \in Int /\ b[2] \in Int /\ b[2] > 0
      /\ c[1] \in Int /\ c[2] \in Int /\ c[2] > 0
  BY Parts
<1>2. b[1] * a[2] <= a[1] * b[2] /\ c[1] * b[2] <= b[1] * c[2]
  BY <1>1 DEF Less
<1>3. (b[1] * a[2]) * c[2] <= (a[1] * b[2]) * c[2]
  BY <1>1, <1>2, Monotone
<1>4. (c[1] * b[2]) * a[2] <= (b[1] * c[2]) * a[2]
  BY <1>1, <1>2, Monotone
<1>5. (c[1] * a[2]) * b[2] <= (a[1] * c[2]) * b[2]
  BY <1>1, <1>3, <1>4
<1>6. c[1] * a[2] <= a[1] * c[2]
  BY <1>1, <1>5, Monotone
<1> QED  BY <1>1, <1>6 DEF Less

LEMMA LastIn ==
  ASSUME Typed, NEW b \in Bins(cuts), NEW S \in SUBSET Procs, S # {},
         NEW address, \A p \in S : address[p] \in Int
  PROVE  LastOf(S, b, address) \in S
<1> DEFINE e == [p \in S |-> Errors(p)[b]]
<1>1. IsFiniteSet(S) /\ \A p \in S : e[p] = Errors(p)[b] /\ e[p] \in Fractions
  <2>1. \A p \in S : Errors(p)[b] \in Squares
    BY Computed
  <2> QED  BY <2>1, BinsAssumption, FS_Subset, Parts
<1> HIDE DEF e
<1>2. PICK m \in S : \A p \in S : ~Less(e[m], e[p])
  BY <1>1, LargestFraction
<1> DEFINE ties == {p \in S : ~Less(e[p], e[m])}
<1>3. ~Less(e[m], e[m])
  BY <1>2
<1>4. PICK l \in ties : \A p \in ties : address[p] <= address[l]
  <2>1. IsFiniteSet(ties) /\ ties # {} /\ \A p \in ties : address[p] \in Int
    BY <1>1, <1>3, FS_Subset
  <2> HIDE DEF ties
  <2> QED  BY <2>1, LargestIn
<1>5. ASSUME NEW q \in S PROVE ~Before(l, q, b, address)
  <2>1. e[l] \in Fractions /\ e[q] \in Fractions /\ e[m] \in Fractions /\ ~Less(e[l], e[m])
    BY <1>1, <1>4
  <2>2. ~Less(e[l], e[q])
    BY <1>2, <2>1, NotLessTransitive
  <2>3. ~Less(e[q], e[l]) => q \in ties
    BY <2>1, NotLessTransitive
  <2>4. ~Less(e[q], e[l]) => ~(address[l] < address[q])
    <3>1. address[l] \in Int /\ address[q] \in Int
      BY <1>4
    <3> QED  BY <1>4, <2>3, <3>1
  <2>5. Errors(l)[b] = e[l] /\ Errors(q)[b] = e[q]
    BY <1>1, <1>4
  <2> QED  BY <2>2, <2>4, <2>5 DEF Before
<1>6. \E p \in S : \A q \in S : ~Before(p, q, b, address)
  BY <1>4, <1>5
<1> QED  BY <1>6 DEF LastOf

\* What the loop of MergeBinErrors removes is of errors that may grow, and less than the
\* threshold.
Removing(L, f, E, total) ==
  /\ L = [gone |-> L.gone, removed |-> L.removed]
  /\ L.gone \subseteq E /\ L.removed \in Squares
  /\ L.removed[1] = 0 \/ Less(L.removed, Times(f.merge, total))

LEMMA RemovalSound ==
  ASSUME Typed, NEW b \in Bins(cuts), NEW M \in SUBSET Procs, NEW f, NEW total,
         NEW address, \A p \in M : address[p] \in Int
  PROVE  Removing(Removal(f, M, total, b, address), f, {p \in M : CanExpand(f, p, b)}, total)
<1> DEFINE k == RemovalOf(f, M, total, b, address)
           E == {p \in M : CanExpand(f, p, b)}
           Good(L) == Removing(L, f, E, total)
           B == {T \in SUBSET M : ~Good(Fold(k, T))}
<1>1. IsFiniteSet(M) /\ Chooses(k, M)
  <2>1. \A s \in SUBSET M : s # {} => LastOf(s, b, address) \in s
    BY LastIn
  <2>2. \A s : Choice(k, s) = LastOf(s, b, address)
    BY DEF Choice, RemovalOf
  <2> QED  BY <2>1, <2>2, BinsAssumption, FS_Subset DEF Chooses
<1>2. B = {}
  <2>1. SUFFICES ASSUME B # {} PROVE FALSE
    OBVIOUS
  <2>2. PICK T \in B : \A u \in B : u \subseteq T => u = T
    <3>1. B \in SUBSET SUBSET M
      OBVIOUS
    <3> HIDE DEF B
    <3> QED  BY <1>1, <2>1, <3>1, SmallestSubset
  <2>3. T # {}
    <3>1. Fold(k, {}) = Nothing
      <4>1. Start(k) = Nothing
        BY DEF Start, RemovalOf
      <4> QED  BY <4>1, FoldEmpty
    <3>2. Good(Nothing)
      BY FractionTypes DEF Nothing, Removing, Whole
    <3> QED  BY <2>2, <3>1, <3>2
  <2> DEFINE e == Choice(k, T)
             L == Fold(k, T \ {e})
  <2>4. e \in T /\ Good(L)
    BY <1>1, <2>2, <2>3 DEF Chooses
  <2>5. Fold(k, T) = Step(k, e, L)
    <3>1. IsFiniteSet(T) /\ Chooses(k, T)
      BY <1>1, FS_Subset DEF Chooses
    <3> HIDE DEF k
    <3> QED  BY <2>3, <3>1, FoldUnrolled
  <2>6. Step(k, e, L) = Visit(f, M, e, L, total, b, address)
    <3> HIDE DEF e, L
    <3> QED  BY DEF Step, RemovalOf
  <2>7. e \in M /\ Errors(e)[b] \in Squares
    <3>1. e \in M
      BY <2>4
    <3> QED  BY <3>1, Computed
  <2> HIDE DEF e, L, k
  <2>8. Good(Visit(f, M, e, L, total, b, address))
    <3>1. CASE Removable(f, M, e, total, L.removed, b, address)
      <4>1. Visit(f, M, e, L, total, b, address)
              = [gone |-> L.gone \cup {e}, removed |-> Plus(L.removed, Errors(e)[b])]
        BY <3>1 DEF Visit
      <4>2. e \in E /\ Less(Plus(L.removed, Errors(e)[b]), Times(f.merge, total))
        BY <2>7, <3>1 DEF Removable
      <4>3. Plus(L.removed, Errors(e)[b]) \in Squares /\ L.gone \subseteq E
        BY <2>4, <2>7, FractionTypes DEF Removing
      <4> QED  BY <4>1, <4>2, <4>3 DEF Removing
    <3>2. CASE ~Removable(f, M, e, total, L.removed, b, address)
      <4>1. Visit(f, M, e, L, total, b, address) = L
        BY <3>2 DEF Visit
      <4> QED  BY <2>4, <4>1
    <3> QED  BY <3>1, <3>2
  <2> QED  BY <2>2, <2>5, <2>6, <2>8
<1>3. Good(Fold(k, M))
  BY <1>2
<1>4. Removal(f, M, total, b, address) = Fold(k, M)
  BY RemovalIsFold
<1> QED  BY <1>3, <1>4

LEMMA ReducedType ==
  ASSUME NEW n \in Int, NEW d \in Int, n >= 0, d > 0
  PROVE  Reduced(<<n, d>>) \in Squares
<1> DEFINE S == {k \in 1..d : n % k = 0 /\ d % k = 0}
           g == Max(S)
<1>1. S \subseteq Int /\ IsFiniteSet(S) /\ S # {}
  <2>1. 1 \in S
    BY Z3
  <2>2. IsFiniteSet(1..d)
    BY FS_Interval
  <2> QED  BY <2>1, <2>2, FS_Subset
<1>2. g \in S
  <2> HIDE DEF S
  <2> QED  BY <1>1, MaxIn
<1>3. g \in Int /\ 1 <= g /\ g <= d
  BY <1>2
<1>4. Reduced(<<n, d>>) = <<n \div g, d \div g>>
  BY DEF Reduced, Gcd
<1> HIDE DEF g
<1>5. n \div g \in Int /\ n \div g >= 0 /\ d \div g \in Int /\ d \div g > 0
  BY <1>3
<1> QED  BY <1>4, <1>5, Parts

LEMMA ExpandedType ==
  ASSUME NEW e2 \in Squares, NEW total \in Squares, NEW removed \in Squares, NEW merge \in Squares,
         merge[1] <= merge[2], removed[1] = 0 \/ Less(removed, Times(merge, total))
  PROVE  Expanded(e2, total, removed) \in Squares
<1>1. CASE removed[1] = 0
  BY <1>1 DEF Expanded
<1>2. CASE removed[1] # 0
  <2> DEFINE r1 == removed[1]
             r2 == removed[2]
             t1 == total[1]
             t2 == total[2]
             m1 == merge[1]
             m2 == merge[2]
  <2>1. /\ r1 \in Int /\ r1 >= 0 /\ r2 \in Int /\ r2 > 0 /\ t1 \in Int /\ t1 >= 0 /\ t2 \in Int /\ t2 > 0
        /\ m1 \in Int /\ m2 \in Int /\ m2 > 0 /\ m1 <= m2
        /\ e2[1] \in Int /\ e2[1] >= 0 /\ e2[2] \in Int /\ e2[2] > 0
    BY Parts
  <2>2. r1 * (m2 * t2) < (m1 * t1) * r2
    BY <1>2 DEF Less, Times
  <2>3. Expanded(e2, total, removed) = Reduced(<<e2[1] * t1 * r2, e2[2] * (t1 * r2 - r1 * t2)>>)
    BY <1>2 DEF Expanded
  <2> HIDE DEF r1, r2, t1, t2, m1, m2
  <2>4. t1 * r2 \in Int /\ t1 * r2 >= 0 /\ r1 * t2 \in Int
    BY <2>1, NaturalProduct
  <2>5. m1 * (t1 * r2) <= m2 * (t1 * r2)
    BY <2>1, <2>4
  <2>6. (r1 * t2) * m2 < (t1 * r2) * m2
    BY <2>1, <2>2, <2>5
  <2>7. r1 * t2 < t1 * r2
    BY <2>1, <2>4, <2>6, Monotone
  <2> DEFINE left == t1 * r2 - r1 * t2
  <2>8. left \in Int /\ left > 0
    BY <2>4, <2>7
  <2> HIDE DEF left
  <2>9. e2[2] * left \in Int /\ e2[2] * left > 0
    BY <2>1, <2>8, PositiveProduct
  <2>10. e2[1] * t1 * r2 \in Int /\ e2[1] * t1 * r2 >= 0
    <3>1. e2[1] * t1 \in Int /\ e2[1] * t1 >= 0
      BY <2>1, NaturalProduct
    <3> QED  BY <2>1, <3>1, NaturalProduct
  <2> QED  BY <2>3, <2>9, <2>10, ReducedType DEF left
<1> QED  BY <1>1, <1>2

LEMMA MergedType ==
  ASSUME Typed, NEW f \in Factories, NEW P \in SUBSET Procs, NEW b \in Bins(cuts),
         NEW address \in [P -> 1..Cardinality(P)]
  PROVE  MergedErrors(f, P, b, address) \in [Procs -> Squares]
<1> DEFINE M == Merging(f, P, b)
           E == {p \in M : CanExpand(f, p, b)}
           total == SumErrors(E, b)
           L == Removal(f, M, total, b, address)
<1>1. M \subseteq P /\ M \in SUBSET Procs /\ E \subseteq Procs
  BY DEF Merging
<1>2. \A p \in Procs : Errors(p)[b] \in Squares
  BY Computed
<1>3. total \in Squares
  <2>1. IsFiniteSet(E) /\ \A p \in E : [q \in E |-> Errors(q)[b]][p] \in Squares
    BY <1>1, <1>2, BinsAssumption, FS_Subset
  <2> HIDE DEF E
  <2> QED  BY <2>1, FractionSum DEF SumErrors
<1>4. Removing(L, f, E, total)
  <2>1. \A p \in M : address[p] \in Int
    BY <1>1
  <2> HIDE DEF M, total
  <2> QED  BY <1>1, <2>1, RemovalSound
<1>5. MergedErrors(f, P, b, address) =
        [p \in Procs |-> CASE p \in L.gone -> Whole(0)
                           [] p \in E \ L.gone -> Expanded(Errors(p)[b], total, L.removed)
                           [] OTHER -> Errors(p)[b]]
  BY DEF MergedErrors
<1>6. f.merge \in Squares /\ f.merge[1] <= f.merge[2]
  BY SettingsAssumption
<1> HIDE DEF M, E, total, L
<1>7. \A p \in Procs : Expanded(Errors(p)[b], total, L.removed) \in Squares
  <2>1. L.removed \in Squares /\ (L.removed[1] = 0 \/ Less(L.removed, Times(f.merge, total)))
    BY <1>4 DEF Removing
  <2> QED  BY <1>2, <1>3, <1>6, <2>1, ExpandedType
<1>8. Whole(0) \in Squares
  BY FractionTypes
<1> QED  BY <1>2, <1>5, <1>7, <1>8

LEMMA MergeStep ==
  ASSUME Typed, NEW f \in Factories, NEW P \in SUBSET Procs, Merge(f, P)
  PROVE  \E e \in [P -> [Bins(cuts) -> Squares]] :
           proc' = [p \in Procs |-> IF p \in P THEN [rate |-> proc[p].rate, v |-> Nominal(p), e2 |-> e[p]]
                                    ELSE proc[p]]
<1>1. PICK address \in [P -> 1..Cardinality(P)] :
        proc' = [p \in Procs |-> IF p \in P
                  THEN [rate |-> proc[p].rate, v |-> Nominal(p),
                        e2 |-> [b \in Bins(cuts) |-> [c \in Bins(cuts) |-> MergedErrors(f, P, c, address)][b][p]]]
                  ELSE proc[p]]
  BY DEF Merge
<1>2. \A b \in Bins(cuts) : MergedErrors(f, P, b, address) \in [Procs -> Squares]
  BY MergedType
<1> DEFINE e == [p \in P |-> [b \in Bins(cuts) |-> [c \in Bins(cuts) |-> MergedErrors(f, P, c, address)][b][p]]]
<1>3. e \in [P -> [Bins(cuts) -> Squares]]
  BY <1>2
<1>4. \A p \in P : e[p] = [b \in Bins(cuts) |-> [c \in Bins(cuts) |-> MergedErrors(f, P, c, address)][b][p]]
  OBVIOUS
<1> HIDE DEF e
<1>5. proc' = [p \in Procs |-> IF p \in P THEN [rate |-> proc[p].rate, v |-> Nominal(p), e2 |-> e[p]]
                               ELSE proc[p]]
  BY <1>1, <1>4
<1> QED  BY <1>3, <1>5

LEMMA TypedMerge ==
  ASSUME Typed, NEW f \in Factories, NEW P \in SUBSET Procs, Merge(f, P), syst' = syst
  PROVE  /\ proc' = [p \in Procs |-> proc'[p]]
         /\ \A p \in Procs : ProcTyped(proc'[p], syst'[p], cuts)
<1>1. PICK e \in [P -> [Bins(cuts) -> Squares]] :
        proc' = [p \in Procs |-> IF p \in P THEN [rate |-> proc[p].rate, v |-> Nominal(p), e2 |-> e[p]]
                                 ELSE proc[p]]
  BY MergeStep
<1>2. \A p \in Procs : ProcTyped(proc[p], syst[p], cuts)
  BY TypedProcs
<1>3. ASSUME NEW p \in P PROVE ProcTyped(proc'[p], syst'[p], cuts)
  <2>1. Nominal(p) \in [Bins(cuts) -> Int] /\ e[p] \in [Bins(cuts) -> Squares]
    BY <1>1, Computed
  <2>2. proc'[p] = [rate |-> proc[p].rate, v |-> Nominal(p), e2 |-> e[p]]
    BY <1>1
  <2>3. proc'[p].rate = proc[p].rate /\ proc'[p].v = Nominal(p) /\ proc'[p].e2 = e[p]
    BY <2>2
  <2>4. proc[p].rate \in Int
    BY <1>2 DEF ProcTyped
  <2>5. proc'[p] = [rate |-> proc'[p].rate, v |-> proc'[p].v, e2 |-> proc'[p].e2]
    BY <2>2, <2>3
  <2>6. /\ syst'[p].u \in [Bins(cuts) -> Int] /\ syst'[p].d \in [Bins(cuts) -> Int]
        /\ syst'[p].value_u \in Fractions /\ syst'[p].value_d \in Fractions
    BY <1>2 DEF ProcTyped
  <2> QED  BY <2>1, <2>3, <2>4, <2>5, <2>6 DEF ProcTyped
<1>4. ASSUME NEW p \in Procs \ P PROVE ProcTyped(proc'[p], syst'[p], cuts)
  BY <1>1, <1>2
<1>5. proc' = [p \in Procs |-> proc'[p]]
  BY <1>1
<1> QED  BY <1>3, <1>4, <1>5

LEMMA TypedMerging ==
  ASSUME Typed, NEW f \in Factories, NEW P \in SUBSET Procs, MergeBinErrors(f, P) \/ MergeAndAdd(f, P)
  PROVE  Typed'
<1>1. /\ Merge(f, P) /\ ~search.on /\ ~bbb.on /\ search' = search /\ first' = first /\ lost' = lost
      /\ cuts' = cuts /\ syst' = syst /\ calls < MaxCalls /\ calls' = calls + 1
      /\ bbb' = bbb \/ bbb' = [on |-> TRUE, settings |-> f, procs |-> P, of |-> Added(f, P, proc')]
  BY DEF MergeBinErrors, MergeAndAdd, Counted
<1>2. /\ proc' = [p \in Procs |-> proc'[p]]
      /\ \A p \in Procs : ProcTyped(proc'[p], syst'[p], cuts)
  BY <1>1, TypedMerge
<1>3. Binning(cuts) /\ lost \subseteq Procs /\ calls' \in 0..MaxCalls /\ first \in Starts
  BY <1>1, TypedProcs, CallsAssumption DEF Typed, TypeOK, Shaped
<1>4. bbb'.on => bbb'.of \subseteq bbb'.procs \X Bins(cuts)
  <2>1. Added(f, P, proc') \subseteq P \X Bins(cuts)
    BY DEF Added
  <2> QED  BY <1>1, <2>1
<1>5. ~search'.on
  BY <1>1
<1> QED  BY <1>1, <1>2, <1>3, <1>4, <1>5, TypedNext

LEMMA TypedInit ==
  ASSUME Init
  PROVE  Typed
<1>1. /\ cuts = Edges /\ first \in Starts /\ ~bbb.on /\ ~search.on /\ calls = 0
      /\ proc = [p \in Procs |-> SetShape(first[p].v, first[p].e2)]
      /\ \A p \in Procs : syst[p] = SetShapes([value_u |-> Whole(1), value_d |-> Whole(1)],
                                              first[p].u, first[p].d, first[p].v)
      /\ lost = NotPositive(Procs)
  BY DEF Init, None
<1>2. Binning(Edges) /\ IsFiniteSet(Bins(Edges))
  BY EdgesBinning, BinningFacts
<1>3. ASSUME NEW p \in Procs PROVE ProcTyped(proc[p], syst[p], Edges)
  <2>1. /\ first[p].v \in [Bins(Edges) -> Int] /\ first[p].e2 \in [Bins(Edges) -> Squares]
        /\ first[p].u \in [Bins(Edges) -> Int] /\ first[p].d \in [Bins(Edges) -> Int]
    BY <1>1, StartsAssumption
  <2> DEFINE s == [value_u |-> Whole(1), value_d |-> Whole(1)]
  <2>2. s.value_u \in Fractions /\ s.value_d \in Fractions
    BY FractionTypes
  <2>3. proc[p] = SetShape(first[p].v, first[p].e2) /\ syst[p] = SetShapes(s, first[p].u, first[p].d, first[p].v)
    BY <1>1
  <2> HIDE DEF s
  <2> QED  BY <1>2, <2>1, <2>2, <2>3, SetTyped
<1>4. lost \subseteq Procs /\ calls \in 0..MaxCalls
  BY <1>1, CallsAssumption DEF NotPositive
<1>5. TypeOK
  BY <1>1, <1>2, <1>3, <1>4 DEF TypeOK, Binning, ProcTyped
<1>6. proc = [p \in Procs |-> [rate |-> proc[p].rate, v |-> proc[p].v, e2 |-> proc[p].e2]]
  <2>1. \A p \in Procs : proc[p] = [rate |-> proc[p].rate, v |-> proc[p].v, e2 |-> proc[p].e2]
    BY <1>3 DEF ProcTyped
  <2>2. proc = [p \in Procs |-> proc[p]]
    BY <1>1
  <2> QED  BY <2>1, <2>2
<1> QED  BY <1>1, <1>5, <1>6 DEF Typed, Shaped

LEMMA TypedStep ==
  ASSUME Typed, [Next]_vars
  PROVE  Typed'
<1>1. CASE Next
  <2>1. ASSUME NEW C \in SUBSET cuts, VariableRebin(C) PROVE Typed'
    BY <2>1, TypedVariableRebin
  <2>2. ASSUME NEW min, NEW max, NEW P \in SUBSET Procs, ZeroBins(min, max, P) PROVE Typed'
    BY <2>2, TypedZeroBins
  <2>3. ASSUME NEW s \in Searches, StartSearch(s) PROVE Typed'
    BY <2>3, TypedStartSearch
  <2>4. ASSUME SearchOn \/ EndSearch PROVE Typed'
    BY <2>4, TypedSearchOn, TypedEndSearch
  <2>5. ASSUME NEW f \in Factories, NEW P \in SUBSET Procs, MergeBinErrors(f, P) \/ MergeAndAdd(f, P) PROVE Typed'
    BY <2>5, TypedMerging
  <2>6. {Procs, Backgrounds} \subseteq SUBSET Procs
    BY BinsAssumption
  <2> QED  BY <1>1, <2>1, <2>2, <2>3, <2>4, <2>5, <2>6 DEF Next
<1>2. CASE UNCHANGED vars
  BY <1>2 DEF vars, Typed, TypeOK, Shaped
<1> QED  BY <1>1, <1>2

\* Histograms keep the binning of all, whatever a tool does, and squared errors
\* are never negative nor infinite: what MergeBinErrors removes is less than
\* the total by which it divides (BinByBin.cc:91).
THEOREM ToolTypes == Spec => []TypeOK
<1>1. Init => Typed
  BY TypedInit
<1>2. Typed /\ [Next]_vars => Typed'
  BY TypedStep
<1>3. Typed => TypeOK
  BY DEF Typed
<1> QED  BY <1>1, <1>2, <1>3, PTL DEF Spec


-----------------------------------------------------------------------------
(* What a search ends with.                                                *)

\* A bin that fails and is merged with its neighbours changes the binning,
\* unless the binning has one bin or it is the peak.
LEMMA FailingStays ==
  ASSUME NEW C, Binning(C), NEW T, TotalOn(T, C), NEW s, NEW byContent, NEW worst \in Bins(C),
         Fails(s, T, byContent, worst, End(C, worst)), MergeFailing(s, T, C, byContent, worst) = C
  PROVE  Cardinality(C) = 2 \/ worst = Peak(T, C)
<1> DEFINE froms == {b \in C : b <= worst /\ ~Fails(s, T, byContent, b, End(C, worst))}
           tos == {e \in C : s.mode # 2 /\ e >= End(C, worst) /\ ~Fails(s, T, byContent, worst, e)}
           peak == Peak(T, C)
           lo == Min(C)
           hi == Max(C)
           end == End(C, worst)
           N == MergeWorst(C, worst, peak, froms, tos)
<1>1. N = C
  BY DEF MergeFailing
<1>2. /\ C \subseteq Int /\ IsFiniteSet(C) /\ lo < hi
      /\ worst \in C /\ worst < hi /\ worst \in Int /\ peak \in Int
  BY BinningFacts, PeakIn
<1>3. lo \in Int /\ hi \in Int
  BY BinningFacts
<1>4. end \in C /\ worst < end
  BY <1>2, EndFacts
<1>5. froms \subseteq C /\ tos \subseteq C /\ worst \notin froms /\ end \notin tos
      /\ (\A b \in froms : b <= worst) /\ \A e \in tos : e >= end
  OBVIOUS
<1>6. \/ froms = {} /\ tos = {} /\ N = {lo, hi}
      \/ froms # {} /\ N = MergeLeft(C, Max(froms), worst)
      \/ tos # {} /\ N = MergeRight(C, worst, Min(tos))
      \/ worst = peak /\ N = C
  <2> HIDE DEF froms, tos, peak
  <2> QED  BY <1>2, MergeWorstCases
<1> HIDE DEF N, froms, tos, peak, lo, hi, end
<1>7. ~(froms # {} /\ N = MergeLeft(C, Max(froms), worst))
  <2> SUFFICES ASSUME froms # {}, N = MergeLeft(C, Max(froms), worst) PROVE FALSE
    OBVIOUS
  <2>1. froms \subseteq Int /\ IsFiniteSet(froms)
    BY <1>2, <1>5, FS_Subset
  <2>2. Max(froms) \in froms
    BY <2>1, MaxIn
  <2>3. Max(froms) \in Int /\ Max(froms) # worst /\ Max(froms) <= worst
    BY <1>5, <2>1, <2>2
  <2>4. worst \notin MergeLeft(C, Max(froms), worst)
    BY <1>2, <2>3 DEF MergeLeft
  <2> QED  BY <1>1, <1>2, <2>4
<1>8. ~(tos # {} /\ N = MergeRight(C, worst, Min(tos)))
  <2> SUFFICES ASSUME tos # {}, N = MergeRight(C, worst, Min(tos)) PROVE FALSE
    OBVIOUS
  <2>1. tos \subseteq Int /\ IsFiniteSet(tos)
    BY <1>2, <1>5, FS_Subset
  <2>2. Min(tos) \in tos
    BY <2>1, MinIn
  <2>3. Min(tos) \in Int /\ Min(tos) # end /\ Min(tos) >= end /\ end \in Int
    BY <1>2, <1>4, <1>5, <2>1, <2>2
  <2>4. end \notin MergeRight(C, worst, Min(tos))
    BY <1>4, <2>3 DEF MergeRight
  <2> QED  BY <1>1, <1>4, <2>4
<1>9. lo # hi
  BY <1>2, <1>3
<1>10. Cardinality({lo, hi}) = 2
  BY <1>9, PairCardinality
<1> QED  BY <1>1, <1>6, <1>7, <1>8, <1>10 DEF peak

\* A bin that fails does not pass.
LEMMA ReachedNotBelow == \A v \in Int : \A e2, f : ErrorReaches(v, e2, f) => ~ErrorBelow(v, e2, f)
BY DEF ErrorReaches, ErrorBelow

LEMMA NotReachedBelow ==
  \A v \in Int : \A e2, f : v > 0 /\ ~ErrorReaches(v, e2, f) => ErrorBelow(v, e2, f)
BY DEF ErrorReaches, ErrorBelow

LEMMA NotMore == \A v, c \in Int : v <= c => ~(v > c)
OBVIOUS

LEMMA FailsNotPasses ==
  ASSUME NEW s, NEW T, NEW byContent, NEW b, NEW e, T.v[b, e] \in Int, s.content \in Int,
         Fails(s, T, byContent, b, e)
  PROVE  ~Passes(s, T, b, e)
BY ReachedNotBelow, NotMore, Zenon DEF Fails, Passes

\* The square of a fractional error.
Relative(e2, v) == <<e2[1], e2[2] * (v * v)>>

LEMMA Square ==
  ASSUME NEW v \in Int, v > 0
  PROVE  v * v \in Int /\ v * v > 0
BY PositiveProduct

LEMMA RelativeErrors ==
  ASSUME NEW v \in Int, v > 0, NEW e2 \in Squares
  PROVE  /\ Relative(e2, v) \in Fractions
         /\ \A f \in Fractions : Less(e2, Times(f, Whole(v * v))) <=> Less(Relative(e2, v), f)
         /\ \A w \in Int : w > 0 =>
              \A g \in Squares : LargerError(v, e2, w, g) <=> Less(Relative(g, w), Relative(e2, v))
<1> DEFINE x == v * v
<1>1. x \in Int /\ x > 0
  BY Square
<1>2. e2[1] \in Int /\ e2[1] >= 0 /\ e2[2] \in Int /\ e2[2] > 0
  BY Parts
<1>3. Relative(e2, v) = <<e2[1], e2[2] * x>>
  BY DEF Relative
<1>4. \A f : Less(e2, Times(f, Whole(v * v))) <=> Less(e2, Times(f, Whole(x)))
  OBVIOUS
<1>5. \A w \in Int : w > 0 =>
        \A g \in Squares : LargerError(v, e2, w, g) <=> Less(Times(g, Whole(x)), Times(e2, Whole(w * w)))
  BY DEF LargerError
<1> HIDE DEF x
<1>6. Relative(e2, v) \in Fractions
  <2>1. e2[2] * x \in Int /\ e2[2] * x > 0
    BY <1>1, <1>2, PositiveProduct
  <2> QED  BY <1>2, <1>3, <2>1, Parts
<1>7. ASSUME NEW f \in Fractions
      PROVE  Less(e2, Times(f, Whole(v * v))) <=> Less(Relative(e2, v), f)
  <2>1. f[1] \in Int /\ f[2] \in Int
    BY Parts
  <2>2. Less(e2, Times(f, Whole(x))) <=> e2[1] * (f[2] * 1) < (f[1] * x) * e2[2]
    BY DEF Less, Times, Whole
  <2>3. Less(<<e2[1], e2[2] * x>>, f) <=> e2[1] * f[2] < f[1] * (e2[2] * x)
    BY DEF Less
  <2>4. (f[1] * x) * e2[2] = f[1] * (e2[2] * x)
    BY <1>1, <1>2, <2>1
  <2>5. e2[1] * (f[2] * 1) = e2[1] * f[2]
    BY <2>1
  <2> QED  BY <1>3, <1>4, <2>2, <2>3, <2>4, <2>5
<1>8. ASSUME NEW w \in Int, w > 0, NEW g \in Squares
      PROVE  LargerError(v, e2, w, g) <=> Less(Relative(g, w), Relative(e2, v))
  <2> DEFINE y == w * w
  <2>1. y \in Int /\ y > 0
    BY <1>8, Square
  <2>2. g[1] \in Int /\ g[2] \in Int
    BY Parts
  <2>3. Relative(g, w) = <<g[1], g[2] * y>>
    BY DEF Relative
  <2>4. LargerError(v, e2, w, g) <=> Less(Times(g, Whole(x)), Times(e2, Whole(y)))
    BY <1>5, <1>8
  <2> HIDE DEF y
  <2>5. Less(Times(g, Whole(x)), Times(e2, Whole(y))) <=> (g[1] * x) * (e2[2] * 1) < (e2[1] * y) * (g[2] * 1)
    BY DEF Less, Times, Whole
  <2>6. Less(<<g[1], g[2] * y>>, <<e2[1], e2[2] * x>>) <=> g[1] * (e2[2] * x) < e2[1] * (g[2] * y)
    BY DEF Less
  <2>7. (g[1] * x) * (e2[2] * 1) = g[1] * (e2[2] * x)
    BY <1>1, <1>2, <2>2
  <2>8. (e2[1] * y) * (g[2] * 1) = e2[1] * (g[2] * y)
    BY <1>2, <2>1, <2>2
  <2> QED  BY <1>3, <2>3, <2>4, <2>5, <2>6, <2>7, <2>8
<1> QED  BY <1>6, <1>7, <1>8

\* When every bin has some content and the one with the largest error does not
\* fail, no bin has too large an error.
LEMMA MostUncertainBounds ==
  ASSUME NEW C, Binning(C), NEW T, TotalOn(T, C), NEW f \in Fractions,
         \A b \in Bins(C) : Content(T, C, b) > 0
  PROVE  LET most == MostUncertain(T, C, Uncertain(T, C))
         IN ErrorBelow(T.v[most, End(C, most)], T.e2[most, End(C, most)], f) =>
              \A b \in Bins(C) : ErrorBelow(T.v[b, End(C, b)], T.e2[b, End(C, b)], f)
<1> DEFINE v(b) == T.v[b, End(C, b)]
           g(b) == T.e2[b, End(C, b)]
           r == [b \in Bins(C) |-> Relative(g(b), v(b))]
           U == Uncertain(T, C)
           most == MostUncertain(T, C, U)
           some == {b \in Bins(C) : g(b)[1] > 0}
<1>1. \A b \in Bins(C) : v(b) \in Int /\ v(b) > 0 /\ g(b) \in Squares
                         /\ Content(T, C, b) = v(b) /\ Content(T, C, b) >= 0
  <2>1. \A c \in Int : c > 0 => c >= 0
    OBVIOUS
  <2> QED  BY <2>1, ContentInt
<1>2. \A b \in Bins(C) : r[b] \in Fractions
  BY <1>1, RelativeErrors
<1>3. \A b \in Bins(C) : ErrorBelow(v(b), g(b), f) <=> Less(r[b], f)
  <2>1. ASSUME NEW b \in Bins(C)
        PROVE  Less(g(b), Times(f, Whole(v(b) * v(b)))) <=> Less(r[b], f)
    BY <1>1, RelativeErrors
  <2>2. \A b \in Bins(C) : ErrorBelow(v(b), g(b), f) <=> Less(g(b), Times(f, Whole(v(b) * v(b))))
    <3>1. \A w \in Int : w > 0 => \A e2 : ErrorBelow(w, e2, f) <=> Less(e2, Times(f, Whole(w * w)))
      BY DEF ErrorBelow
    <3> HIDE DEF v, g
    <3> QED  BY <1>1, <3>1
  <2> QED  BY <2>1, <2>2
<1>4. \A a, b \in Bins(C) : Larger(T, C, a, b) <=> Less(r[b], r[a])
  <2>1. \A a, b \in Bins(C) : LargerError(v(a), g(a), v(b), g(b)) <=> Less(r[b], r[a])
    BY <1>1, RelativeErrors
  <2> QED  BY <2>1 DEF Larger
<1>5. U = {b \in some : \A a \in Bins(C) : ~Less(r[b], r[a])}
  BY <1>1, <1>4 DEF Uncertain
<1>6. IsFiniteSet(Bins(C)) /\ Bins(C) # {} /\ Bins(C) \subseteq Int /\ most \in Bins(C)
  BY BinningFacts, MostUncertainIn
<1>7. \A b \in Bins(C) : r[b] = <<g(b)[1], g(b)[2] * (v(b) * v(b))>>
  BY DEF Relative
<1>8. \A b \in Bins(C) : r[b][1] = g(b)[1]
  <2> HIDE DEF r, v, g
  <2> QED  BY <1>7
<1>9. PICK m \in Bins(C) : \A a \in Bins(C) : ~Less(r[m], r[a])
  <2> HIDE DEF r
  <2> QED  BY <1>2, <1>6, LargestFraction
<1> HIDE DEF r, v, g
<1>10. SUFFICES ASSUME Less(r[most], f), NEW b \in Bins(C) PROVE Less(r[b], f)
  BY <1>3, <1>6 DEF v, g
<1>11. CASE U = {}
  <2>1. ~(g(m)[1] > 0)
    BY <1>5, <1>9, <1>11
  <2>2. ASSUME NEW a \in Bins(C) PROVE r[a][1] = 0
    <3>1. r[m][1] \in Int /\ r[m][1] <= 0 /\ r[m][2] \in Int /\ r[m][2] > 0
      BY <1>1, <1>2, <1>8, <2>1, Parts
    <3>2. r[a][1] \in Int /\ r[a][2] \in Int /\ r[a][2] > 0 /\ g(a)[1] >= 0
      BY <1>1, <1>2, Parts
    <3>3. r[m][1] = 0
      BY <1>1, <1>8, <3>1, Parts
    <3>4. ~(0 * r[a][2] < r[a][1] * r[m][2])
      BY <1>9, <3>3 DEF Less
    <3>5. ~(0 < r[a][1] * r[m][2])
      BY <3>2, <3>4
    <3>6. ~(r[a][1] > 0)
      BY <3>1, <3>2, <3>5, PositiveProduct
    <3> QED  BY <1>8, <3>2, <3>6
  <2>3. f[1] \in Int /\ f[2] \in Int /\ r[b][2] \in Int /\ r[b][2] > 0 /\ r[most][2] \in Int /\ r[most][2] > 0
    BY <1>2, <1>6, Parts
  <2>4. 0 * f[2] < f[1] * r[most][2]
    BY <1>6, <1>10, <2>2 DEF Less
  <2>5. 0 < f[1] * r[most][2]
    BY <2>3, <2>4
  <2>6. f[1] > 0
    <3>1. 0 * r[most][2] < f[1] * r[most][2]
      BY <2>3, <2>5
    <3> QED  BY <2>3, <3>1, Monotone
  <2>7. f[1] * r[b][2] > 0
    BY <2>3, <2>6, PositiveProduct
  <2>8. 0 * f[2] < f[1] * r[b][2]
    BY <2>3, <2>7
  <2> QED  BY <2>2, <2>8 DEF Less
<1>12. CASE U # {}
  <2>1. most \in U
    <3>1. U \subseteq Int /\ IsFiniteSet(U)
      BY <1>5, <1>6, FS_Subset
    <3>2. most = Min(U)
      BY <1>12 DEF MostUncertain
    <3> HIDE DEF U, most
    <3> QED  BY <1>12, <3>1, <3>2, MinIn
  <2>2. ~Less(r[most], r[b])
    BY <1>5, <2>1
  <2> QED  BY <1>2, <1>6, <1>10, <2>2, NotLessTransitive
<1> QED  BY <1>11, <1>12

\* Mode 0: the passes stay when every bin but the peak has passed.
LEMMA SimpleSettled ==
  ASSUME NEW C, Binning(C), NEW T, TotalOn(T, C), NEW s, NEW peak \in Bins(C),
         SimplePass(s, T, C, peak) = C, Passes(s, T, peak, End(C, peak))
  PROVE  AllPass(s, T, C)
<1>1. /\ C \subseteq Int /\ IsFiniteSet(C) /\ Min(C) \in C /\ Max(C) \in C /\ peak \in C /\ peak < Max(C)
      /\ \A e \in C : e \in Int /\ Min(C) <= e /\ e <= Max(C)
  BY BinningFacts
<1>2. \A e \in C : \/ e = Min(C) \/ e = Max(C)
                   \/ e <= peak /\ Passes(s, T, Max({a \in C : a < e}), e)
                   \/ e > peak /\ Passes(s, T, e, End(C, e))
  <2>1. \A e \in C : e \in SimplePass(s, T, C, peak)
    OBVIOUS
  <2> QED  BY <2>1 DEF SimplePass
<1>3. ASSUME NEW b \in Bins(C) PROVE Passes(s, T, b, End(C, b))
  <2>1. b \in C /\ b \in Int /\ b < Max(C) /\ Min(C) <= b /\ peak \in Int
    BY <1>1, BinningFacts
  <2>2. CASE b = peak
    BY <2>2
  <2>3. CASE b < peak
    <3> DEFINE e == End(C, b)
               below == {a \in C : a < e}
    <3>1. e \in C /\ b < e /\ \A a \in C : a > b => e <= a
      BY <2>1, EndFacts
    <3>2. e \in Int /\ e <= peak /\ e # Min(C) /\ e # Max(C) /\ ~(e > peak)
      <4> HIDE DEF e
      <4> DEFINE lo == Min(C)
                 hi == Max(C)
      <4>1. /\ e \in Int /\ e <= peak /\ b < e /\ b \in Int /\ peak \in Int /\ peak < hi /\ lo <= b
            /\ lo \in Int /\ hi \in Int
        BY <1>1, <2>1, <2>3, <3>1
      <4> HIDE DEF lo, hi
      <4>2. e # lo /\ e # hi /\ ~(e > peak)
        BY <4>1
      <4> QED  BY <4>1, <4>2 DEF lo, hi
    <3>3. Max(below) = b
      <4>1. below \subseteq Int /\ IsFiniteSet(below) /\ b \in below
        BY <1>1, <2>1, <3>1, FS_Subset
      <4>2. Max(below) \in below /\ b <= Max(below)
        <5> HIDE DEF below
        <5> QED  BY <4>1, MaxIn
      <4> DEFINE m == Max(below)
      <4>3. m \in C /\ m < e /\ m \in Int /\ b <= m
        BY <1>1, <4>2
      <4> HIDE DEF m, e
      <4>4. ~(m > b)
        BY <2>1, <3>1, <3>2, <4>3
      <4>5. m = b
        BY <2>1, <4>3, <4>4
      <4> QED  BY <4>5 DEF m
    <3>4. Passes(s, T, Max(below), e)
      BY <1>2, <3>1, <3>2
    <3> QED  BY <3>3, <3>4
  <2>4. CASE b > peak
    <3>1. b # Min(C) /\ b # Max(C) /\ ~(b <= peak)
      BY <1>1, <2>1, <2>4
    <3> QED  BY <1>2, <2>1, <3>1
  <2> QED  BY <2>1, <2>2, <2>3, <2>4
<1> QED  BY <1>3 DEF AllPass

\* Modes 1 and 2.
LEMMA WorstSettled ==
  ASSUME NEW C, Binning(C), NEW T, TotalOn(T, C), NEW s, s.content \in Nat, s.fraction \in Squares,
         WorstPass(s, T, C, Lowest(s, T, C)) = C
  PROVE  AllPass(s, T, C) \/ Cardinality(C) = 2 \/ ~Passes(s, T, Peak(T, C), End(C, Peak(T, C)))
<1> DEFINE low == Lowest(s, T, C)
           most == MostUncertain(T, C, Uncertain(T, C))
           peak == Peak(T, C)
<1>1. /\ low \in Bins(C) /\ most \in Bins(C) /\ peak \in Bins(C)
      /\ \A a \in Bins(C) : Content(T, C, low) <= Content(T, C, a)
  BY LowestIn, MostUncertainIn, PeakIn
<1>2. \A b \in Bins(C) : Content(T, C, b) = T.v[b, End(C, b)] /\ Content(T, C, b) \in Int
  BY ContentInt
<1>3. \A byContent : \A b \in Bins(C) :
        Fails(s, T, byContent, b, End(C, b)) => ~Passes(s, T, b, End(C, b))
  <2>1. \A b \in Bins(C) : T.v[b, End(C, b)] \in Int
    BY <1>2
  <2>2. s.content \in Int
    OBVIOUS
  <2> QED  BY <2>1, <2>2, FailsNotPasses
<1>4. \A byContent : \A b \in Bins(C) :
        /\ Fails(s, T, byContent, b, End(C, b)) /\ MergeFailing(s, T, C, byContent, b) = C
        => Cardinality(C) = 2 \/ ~Passes(s, T, peak, End(C, peak))
  <2>1. \A byContent : \A b \in Bins(C) :
          /\ Fails(s, T, byContent, b, End(C, b)) /\ MergeFailing(s, T, C, byContent, b) = C
          => Cardinality(C) = 2 \/ b = peak
    BY FailingStays
  <2> HIDE DEF peak
  <2> QED  BY <1>3, <2>1, Zenon
<1>5. CASE Content(T, C, low) <= s.content
  <2>1. MergeFailing(s, T, C, TRUE, low) = C
    BY <1>5 DEF WorstPass
  <2>2. Fails(s, T, TRUE, low, End(C, low))
    <3>1. T.v[low, End(C, low)] <= s.content
      BY <1>5 DEF Content
    <3> QED  BY <3>1 DEF Fails
  <2>3. Cardinality(C) = 2 \/ ~Passes(s, T, peak, End(C, peak))
    <3> HIDE DEF low, peak
    <3> QED  BY <1>1, <1>4, <2>1, <2>2, Zenon
  <2> QED  BY <2>3
<1>6. CASE ~(Content(T, C, low) <= s.content)
  <2>1. MergeFailing(s, T, C, FALSE, most) = C
    BY <1>6 DEF WorstPass
  <2>2. CASE Fails(s, T, FALSE, most, End(C, most))
    <3>1. Cardinality(C) = 2 \/ ~Passes(s, T, peak, End(C, peak))
      <4> HIDE DEF most, peak
      <4> QED  BY <1>1, <1>4, <2>1, <2>2, Zenon
    <3> QED  BY <3>1
  <2>3. CASE ~Fails(s, T, FALSE, most, End(C, most))
    <3>1. \A b \in Bins(C) : Content(T, C, b) > s.content
      <4> DEFINE c(b) == Content(T, C, b)
      <4>1. \A b \in Bins(C) : c(b) \in Int /\ c(low) <= c(b)
        BY <1>1, <1>2
      <4>2. c(low) \in Int /\ s.content \in Int /\ ~(c(low) <= s.content)
        <5>1. s.content \in Int
          OBVIOUS
        <5> HIDE DEF low
        <5> QED  BY <1>1, <1>2, <1>6, <5>1, Zenon DEF c
      <4>3. \A i, j, k \in Int : ~(i <= k) /\ i <= j => j > k
        OBVIOUS
      <4> HIDE DEF c, low
      <4>4. \A b \in Bins(C) : c(b) > s.content
        BY <4>1, <4>2, <4>3, Zenon
      <4> QED  BY <4>4 DEF c
    <3>2. \A b \in Bins(C) : Content(T, C, b) > 0
      <4>1. \A i \in Int : i > s.content => i > 0
        OBVIOUS
      <4> QED  BY <1>2, <3>1, <4>1, Zenon
    <3>3. ErrorBelow(T.v[most, End(C, most)], T.e2[most, End(C, most)], s.fraction)
      <4>1. \A v \in Int : \A e2, f : v > 0 /\ ~ErrorReaches(v, e2, f) => ErrorBelow(v, e2, f)
        BY NotReachedBelow
      <4>2. T.v[most, End(C, most)] \in Int /\ T.v[most, End(C, most)] > 0
        <5> HIDE DEF most
        <5>1. Content(T, C, most) = T.v[most, End(C, most)] /\ Content(T, C, most) \in Int /\ Content(T, C, most) > 0
          BY <1>1, <1>2, <3>2
        <5> QED  BY <5>1, Zenon
      <4>3. ~ErrorReaches(T.v[most, End(C, most)], T.e2[most, End(C, most)], s.fraction)
        BY <2>3 DEF Fails
      <4> HIDE DEF most
      <4> QED  BY <4>1, <4>2, <4>3, Zenon
    <3>4. \A b \in Bins(C) : ErrorBelow(T.v[b, End(C, b)], T.e2[b, End(C, b)], s.fraction)
      <4>1. s.fraction \in Fractions
        BY Parts
      <4>2. \A f \in Fractions :
              ErrorBelow(T.v[most, End(C, most)], T.e2[most, End(C, most)], f) =>
                \A b \in Bins(C) : ErrorBelow(T.v[b, End(C, b)], T.e2[b, End(C, b)], f)
        BY <3>2, MostUncertainBounds
      <4> HIDE DEF most
      <4> QED  BY <3>3, <4>1, <4>2, Zenon
    <3> QED  BY <1>2, <3>1, <3>4, Zenon DEF AllPass, Passes
  <2> QED  BY <2>2, <2>3
<1> QED  BY <1>5, <1>6 DEF peak

LEMMA BinningSettled ==
  ASSUME NEW C, Binning(C), NEW T, TotalOn(T, C), NEW s \in Searches, NewBinning(s, T, C) = C
  PROVE  AllPass(s, T, C) \/ Cardinality(C) = 2 \/ ~Passes(s, T, Peak(T, C), End(C, Peak(T, C)))
<1>1. s.content \in Nat /\ s.fraction \in Squares
  BY SettingsAssumption
<1>2. Peak(T, C) \in Bins(C)
  BY PeakIn
<1>3. CASE s.mode = 0
  <2>1. SimplePass(s, T, C, Peak(T, C)) = C
    BY <1>3 DEF NewBinning
  <2> QED  BY <1>2, <2>1, SimpleSettled
<1>4. CASE s.mode # 0
  <2>1. WorstPass(s, T, C, Lowest(s, T, C)) = C
    BY <1>4 DEF NewBinning
  <2> QED  BY <1>1, <2>1, WorstSettled
<1> QED  BY <1>3, <1>4

LEMMA RebinnedStep ==
  ASSUME Typed, [Next]_vars, search.on, ~search'.on
  PROVE  \/ AllPass(search.settings, Total, Found)
         \/ Cardinality(Found) = 2
         \/ ~Passes(search.settings, Total, Peak(Total, Found), End(Found, Peak(Total, Found)))
<1>1. EndSearch
  <2>1. CASE UNCHANGED vars
    BY <2>1 DEF vars
  <2>2. CASE SearchOn
    <3>1. search = [on |-> TRUE, settings |-> search.settings, cuts |-> search.cuts]
      BY DEF Typed, Shaped
    <3>2. search' = [search EXCEPT !.cuts = Found]
      BY <2>2 DEF SearchOn
    <3>3. search' = [on |-> TRUE, settings |-> search.settings, cuts |-> Found]
      BY <3>1, <3>2
    <3> QED  BY <3>3
  <2> QED  BY <2>1, <2>2 DEF Next, VariableRebin, ZeroBins, StartSearch, MergeBinErrors, MergeAndAdd
<1>2. Found = search.cuts \/ AllPass(search.settings, Total, Found)
  BY <1>1 DEF EndSearch
<1>3. Binning(search.cuts) /\ TotalOn(Total, search.cuts) /\ search.settings \in Searches
  BY FoundBinning
<1>4. CASE Found = search.cuts
  <2>1. NewBinning(search.settings, Total, search.cuts) = search.cuts
    BY <1>4 DEF Found
  <2>2. \A C, T : Binning(C) /\ TotalOn(T, C) =>
          \A s \in Searches : NewBinning(s, T, C) = C =>
            AllPass(s, T, C) \/ Cardinality(C) = 2 \/ ~Passes(s, T, Peak(T, C), End(C, Peak(T, C)))
    BY BinningSettled
  <2>3. \/ AllPass(search.settings, Total, search.cuts)
        \/ Cardinality(search.cuts) = 2
        \/ ~Passes(search.settings, Total, Peak(Total, search.cuts), End(search.cuts, Peak(Total, search.cuts)))
    BY <1>3, <2>1, <2>2, Zenon
  <2> QED  BY <1>4, <2>3, Zenon
<1> QED  BY <1>2, <1>4

\* A search ends with a binning that passes in all bins, unless one bin is left
\* or the peak fails (AutoRebin.cc:104-333), for any contents, errors and
\* thresholds.
THEOREM SearchesSettle == Spec => Rebinned
<1>1. Init => Typed
  BY TypedInit
<1>2. Typed /\ [Next]_vars => Typed'
  BY TypedStep
<1>3. Typed /\ [Next]_vars =>
        [search.on /\ ~search'.on =>
           \A C \in {Found} :
             \/ AllPass(search.settings, Total, C)
             \/ Cardinality(C) = 2
             \/ \E b \in {Peak(Total, C)} : ~Passes(search.settings, Total, b, End(C, b))]_vars
  BY RebinnedStep
<1> QED  BY <1>1, <1>2, <1>3, PTL DEF Spec, Rebinned

-----------------------------------------------------------------------------
(* What templates keep of those at the start.                              *)

\* The edges of the start in the bin b of C that were not zeroed, and the
\* histogram that holds the sums of h over these.
Part(C, z, b) == {a \in Bins(Edges) \ z : b <= a /\ a < End(C, b)}
KeptOf(h, C, z) == [b \in Bins(C) |-> SumFunctionOnSet(h, Part(C, z, b))]

LEMMA PartFacts ==
  ASSUME NEW C, Binning(C), NEW z
  PROVE  /\ \A b : Part(C, z, b) \subseteq Bins(Edges) /\ IsFiniteSet(Part(C, z, b))
         /\ \A b \in Bins(C) : b \in C /\ b \in Int /\ b < Max(C) /\ End(C, b) \in C /\ End(C, b) \in Int /\ b < End(C, b)
         /\ \A b, c \in Bins(C) : b < c => End(C, b) <= c
         /\ \A b, c \in Bins(C) : \A a \in Int : b <= a /\ a < End(C, b) /\ c <= a /\ a < End(C, c) => b = c
<1>1. /\ C \subseteq Int /\ Bins(C) \subseteq C /\ Bins(C) = {b \in C : b < Max(C)}
      /\ Bins(Edges) \subseteq Int /\ IsFiniteSet(Bins(Edges))
  BY BinningFacts, EdgesBinning
<1>2. \A b : Part(C, z, b) \subseteq Bins(Edges) /\ IsFiniteSet(Part(C, z, b))
  BY <1>1, FS_Subset DEF Part
<1>3. ASSUME NEW b \in Bins(C)
      PROVE  /\ b \in C /\ b \in Int /\ b < Max(C) /\ End(C, b) \in C /\ End(C, b) \in Int /\ b < End(C, b)
             /\ \A c \in C : b < c => End(C, b) <= c
  <2>1. b \in C /\ b \in Int /\ b < Max(C)
    BY <1>1
  <2>2. End(C, b) \in C /\ b < End(C, b) /\ \A c \in C : c > b => End(C, b) <= c
    BY <2>1, EndFacts
  <2>3. \A c \in C : b < c => End(C, b) <= c
    <3> DEFINE e == End(C, b)
    <3>1. \A c \in C : c \in Int /\ (c > b => e <= c)
      BY <1>1, <2>2
    <3> HIDE DEF e
    <3>2. \A c \in C : b < c => e <= c
      BY <2>1, <3>1
    <3> QED  BY <3>2 DEF e
  <2> QED  BY <1>1, <2>1, <2>2, <2>3
<1>4. \A b, c \in Bins(C) : b < c => End(C, b) <= c
  BY <1>1, <1>3
<1>5. ASSUME NEW b \in Bins(C), NEW c \in Bins(C), NEW a \in Int,
             b <= a, a < End(C, b), c <= a, a < End(C, c)
      PROVE  b = c
  <2> DEFINE eb == End(C, b)
             ec == End(C, c)
  <2>1. /\ b \in Int /\ c \in Int /\ eb \in Int /\ ec \in Int
        /\ b < c => eb <= c
        /\ c < b => ec <= b
    BY <1>3, <1>4
  <2>2. a < eb /\ a < ec
    BY <1>5
  <2> HIDE DEF eb, ec
  <2> QED  BY <1>5, <2>1, <2>2
<1> QED  BY <1>2, <1>3, <1>4, <1>5

\* Rebinning of what was kept.
LEMMA GroupedKept ==
  ASSUME NEW D, Binning(D), NEW C \in SUBSET D, Binning(C), NEW z, NEW h \in [Bins(Edges) -> Int]
  PROVE  Grouped(KeptOf(h, D, z), C) = KeptOf(h, C, z)
<1> DEFINE v == KeptOf(h, D, z)
<1>1. DOMAIN v = Bins(D) /\ \A a \in Bins(D) : v[a] = SumFunctionOnSet(h, Part(D, z, a))
  BY DEF KeptOf
<1>2. IsFiniteSet(Bins(D)) /\ IsFiniteSet(Bins(Edges)) /\ Bins(Edges) \subseteq Int /\ D \subseteq Int /\ IsFiniteSet(D)
  BY BinningFacts, EdgesBinning
<1> HIDE DEF v
<1>3. ASSUME NEW b \in Bins(C)
      PROVE  SumFunctionOnSet(v, Inside(v, C, b)) = SumFunctionOnSet(h, Part(C, z, b))
  <2> DEFINE A == Inside(v, C, b)
             e == End(C, b)
             P == [a \in A |-> Part(D, z, a)]
  <2>1. A = {a \in Bins(D) : b <= a /\ a < e} /\ A \subseteq Bins(D) /\ IsFiniteSet(A)
    BY <1>1, <1>2, FS_Subset DEF Inside
  <2>2. b \in D /\ b \in Int /\ e \in D /\ e \in Int /\ b < e
    BY PartFacts
  <2>3. /\ \A a : Part(D, z, a) \subseteq Bins(Edges)
        /\ \A a \in Bins(D) : a \in D /\ a \in Int /\ End(D, a) \in Int /\ a < End(D, a)
        /\ \A a, c \in Bins(D) : \A x \in Int : a <= x /\ x < End(D, a) /\ c <= x /\ x < End(D, c) => a = c
    BY PartFacts
  <2>4. \A a \in A : P[a] \subseteq Bins(Edges) /\ v[a] = SumFunctionOnSet(h, P[a])
    BY <1>1, <2>1, <2>3
  <2>5. \A a, c \in A : a # c => P[a] \cap P[c] = {}
    <3> SUFFICES ASSUME NEW a \in A, NEW c \in A, NEW x \in P[a] \cap P[c] PROVE a = c
      OBVIOUS
    <3>1. x \in Part(D, z, a) /\ x \in Part(D, z, c)
      OBVIOUS
    <3>2. x \in Int /\ a <= x /\ x < End(D, a) /\ c <= x /\ x < End(D, c)
      BY <1>2, <3>1 DEF Part
    <3> QED  BY <2>1, <2>3, <3>2
  <2>6. UNION {P[a] : a \in A} = Part(C, z, b)
    <3>1. ASSUME NEW a \in A, NEW x \in P[a] PROVE x \in Part(C, z, b)
      <4>1. x \in Bins(Edges) \ z /\ a <= x /\ x < End(D, a) /\ x \in Int
        BY <1>2 DEF Part
      <4>2. a \in Bins(D) /\ b <= a /\ a < e /\ a \in Int /\ End(D, a) \in Int
        BY <2>1, <2>3
      <4>3. End(D, a) <= e
        <5>1. a \in Int /\ a < Max(D)
          BY <4>2, BinningFacts
        <5>2. \A c \in D : c > a => End(D, a) <= c
          BY <5>1, EndFacts
        <5> HIDE DEF e
        <5>3. e > a
          BY <2>2, <4>2
        <5> QED  BY <2>2, <5>2, <5>3
      <4>4. b <= x /\ x < e
        <5> DEFINE ea == End(D, a)
        <5>1. ea \in Int /\ ea <= e /\ x < ea /\ a <= x /\ b <= a
          BY <4>1, <4>2, <4>3
        <5> HIDE DEF ea, e
        <5> QED  BY <2>2, <4>1, <4>2, <5>1
      <4> QED  BY <4>1, <4>4 DEF Part
    <3>2. ASSUME NEW x \in Part(C, z, b) PROVE \E a \in A : x \in P[a]
      <4>1. x \in Bins(Edges) \ z /\ b <= x /\ x < e /\ x \in Int
        BY <1>2 DEF Part
      <4> DEFINE below == {a \in D : a <= x}
                 a == Max(below)
      <4>2. below \subseteq Int /\ IsFiniteSet(below) /\ b \in below
        BY <1>2, <2>2, <4>1, FS_Subset
      <4>3. a \in below /\ \A c \in below : c <= a
        <5> HIDE DEF below
        <5> QED  BY <4>2, MaxIn
      <4>4. a \in D /\ a <= x /\ a \in Int /\ b <= a
        BY <4>2, <4>3
      <4> HIDE DEF a
      <4>5. Max(D) \in Int /\ e <= Max(D)
        BY <2>2, BinningFacts
      <4>6. a < e
        <5> HIDE DEF e
        <5> QED  BY <2>2, <4>1, <4>4
      <4>7. a < Max(D)
        <5> DEFINE hi == Max(D)
        <5>1. hi \in Int /\ e <= hi
          BY <4>5
        <5> HIDE DEF hi, e
        <5>2. a < hi
          BY <2>2, <4>4, <4>6, <5>1
        <5> QED  BY <5>2 DEF hi
      <4>8. a \in Bins(D) /\ End(D, a) \in D /\ a < End(D, a)
        BY <4>4, <4>7, BinningFacts, EndFacts
      <4>9. x < End(D, a)
        <5> DEFINE ea == End(D, a)
        <5>1. ea \in Int /\ a < ea /\ (ea <= x => ea <= a)
          BY <1>2, <4>3, <4>8
        <5> HIDE DEF ea
        <5>2. x < ea
          BY <4>1, <4>4, <5>1
        <5> QED  BY <5>2 DEF ea
      <4>10. a \in A
        BY <2>1, <4>4, <4>6, <4>8
      <4>11. x \in Part(D, z, a)
        BY <4>1, <4>4, <4>9 DEF Part
      <4> QED  BY <4>10, <4>11
    <3> HIDE DEF P, A
    <3> QED  BY <3>1, <3>2
  <2>7. \A y \in Bins(Edges) : h[y] \in Int
    OBVIOUS
  <2> HIDE DEF A, P
  <2>8. SumFunctionOnSet(v, A) = SumFunctionOnSet(h, UNION {P[a] : a \in A})
    BY <1>2, <2>1, <2>4, <2>5, <2>7, SumOfSums
  <2> QED  BY <2>6, <2>8, Zenon DEF A
<1>4. Grouped(v, C) = [b \in Bins(C) |-> SumFunctionOnSet(v, Inside(v, C, b))]
  BY DEF Grouped
<1>5. Grouped(v, C) = [b \in Bins(C) |-> SumFunctionOnSet(h, Part(C, z, b))]
  BY <1>3, <1>4
<1> QED  BY <1>5 DEF v, KeptOf

\* Zeroing of bins, and the histogram of the start.
LEMMA ZeroedKept ==
  ASSUME NEW D, Binning(D), NEW Z \in SUBSET Bins(D), NEW z, NEW y, NEW h,
         \A a \in Bins(Edges) : a \in y <=> a \in z \/ \E b \in Z : b <= a /\ a < End(D, b)
  PROVE  ZeroedIn(KeptOf(h, D, z), Z) = KeptOf(h, D, y)
<1>1. Bins(Edges) \subseteq Int
  BY BinningFacts, EdgesBinning
<1>2. ASSUME NEW b \in Bins(D)
      PROVE  (IF b \in Z THEN 0 ELSE SumFunctionOnSet(h, Part(D, z, b))) = SumFunctionOnSet(h, Part(D, y, b))
  <2>1. CASE b \in Z
    <3>1. Part(D, y, b) = {}
      BY <2>1 DEF Part
    <3> QED  BY <2>1, <3>1, SumEmpty
  <2>2. CASE b \notin Z
    <3>1. ASSUME NEW a \in Bins(Edges), b <= a, a < End(D, b)
          PROVE  a \in y <=> a \in z
      <4>1. \A c \in Z : ~(c <= a /\ a < End(D, c))
        BY <1>1, <2>2, <3>1, PartFacts
      <4> QED  BY <4>1
    <3>2. Part(D, y, b) = Part(D, z, b)
      BY <3>1 DEF Part
    <3> QED  BY <2>2, <3>2, Zenon
  <2> QED  BY <2>1, <2>2
<1>3. ZeroedIn(KeptOf(h, D, z), Z) =
        [b \in Bins(D) |-> IF b \in Z THEN 0 ELSE SumFunctionOnSet(h, Part(D, z, b))]
  BY DEF ZeroedIn, KeptOf
<1>4. ZeroedIn(KeptOf(h, D, z), Z) = [b \in Bins(D) |-> SumFunctionOnSet(h, Part(D, y, b))]
  BY <1>2, <1>3
<1> QED  BY <1>4 DEF KeptOf

LEMMA StartKept ==
  ASSUME NEW h \in [Bins(Edges) -> Int]
  PROVE  h = KeptOf(h, Edges, {})
<1>1. /\ Bins(Edges) \subseteq Int /\ Max(Edges) \in Int /\ Edges \subseteq Int
      /\ Bins(Edges) = {b \in Edges : b < Max(Edges)}
  BY BinningFacts, EdgesBinning
<1>2. ASSUME NEW b \in Bins(Edges) PROVE SumFunctionOnSet(h, Part(Edges, {}, b)) = h[b]
  <2>1. b \in Int /\ b < End(Edges, b) /\ \A c \in Bins(Edges) : b < c => End(Edges, b) <= c
    BY <1>1, EdgesBinning, PartFacts
  <2>2. ASSUME NEW a \in Bins(Edges), b <= a, a < End(Edges, b) PROVE a = b
    <3> DEFINE e == End(Edges, b)
    <3>1. a \in Int /\ b \in Int /\ e \in Int /\ (b < a => e <= a) /\ a < e
      BY <1>1, <2>1, <2>2, EdgesBinning, PartFacts
    <3> HIDE DEF e
    <3> QED  BY <2>2, <3>1
  <2>3. Part(Edges, {}, b) = {b}
    <3>1. \A a \in Part(Edges, {}, b) : a \in Bins(Edges) /\ b <= a /\ a < End(Edges, b)
      BY DEF Part
    <3>2. b \in Part(Edges, {}, b)
      <4>1. b <= b
        BY <2>1
      <4> QED  BY <2>1, <4>1, Zenon DEF Part
    <3> QED  BY <2>2, <3>1, <3>2, Zenon
  <2>4. IsFiniteSet({b}) /\ \A s \in {b} : h[s] \in Int
    BY FS_Singleton
  <2>5. SumFunctionOnSet(h, {b}) = h[b] + SumFunctionOnSet(h, {b} \ {b})
    BY <2>4, SumTake
  <2>6. {b} \ {b} = {}
    OBVIOUS
  <2>7. SumFunctionOnSet(h, {b}) = h[b] + 0
    BY <2>5, <2>6, SumEmpty, Zenon
  <2>8. h[b] + 0 = h[b]
    OBVIOUS
  <2> QED  BY <2>3, <2>7, <2>8, Zenon
<1>3. h = [b \in Bins(Edges) |-> h[b]]
  OBVIOUS
<1>4. h = [b \in Bins(Edges) |-> SumFunctionOnSet(h, Part(Edges, {}, b))]
  BY <1>2, <1>3
<1> QED  BY <1>4 DEF KeptOf

\* A process r and its systematic s hold what is left of the templates st.
\* The values of the systematic are the ratios of its templates to the rate.
KeptProc(r, s, st, C, z) ==
  /\ r.v = KeptOf(st.v, C, z) /\ s.u = KeptOf(st.u, C, z) /\ s.d = KeptOf(st.d, C, z)
  /\ Integral(r.v) > 0 /\ Integral(s.u) > 0 /\ Integral(s.d) > 0
  /\ r.rate = Integral(r.v)
  /\ s.value_u = <<Integral(s.u), r.rate>> /\ s.value_d = <<Integral(s.d), r.rate>>

Kept == \A p \in Procs \ lost : KeptProc(proc[p], syst[p], first[p], cuts, zeroed[p])

\* What such a process and systematic predict are their templates.
LEMMA Predicted ==
  ASSUME Typed, Kept, NEW p \in Procs \ lost
  PROVE  /\ Nominal(p) = proc[p].v
         /\ Up(syst[p], proc[p].rate) = syst[p].u
         /\ Down(syst[p], proc[p].rate) = syst[p].d
<1> DEFINE B == Bins(cuts)
           v == proc[p].v
           u == syst[p].u
           d == syst[p].d
           rate == proc[p].rate
<1>1. IsFiniteSet(B) /\ v \in [B -> Int] /\ u \in [B -> Int] /\ d \in [B -> Int] /\ rate \in Int
  BY TypedProcs DEF ProcTyped
<1>2. /\ Integral(v) > 0 /\ Integral(u) > 0 /\ Integral(d) > 0 /\ rate = Integral(v)
      /\ syst[p].value_u = <<Integral(u), rate>> /\ syst[p].value_d = <<Integral(d), rate>>
  BY DEF Kept, KeptProc
<1>3. Integral(v) \in Int /\ Integral(u) \in Int /\ Integral(d) \in Int
  BY <1>1, IntegralInt
<1>4. /\ Nominal(p) = Scaled(v, Whole(rate))
      /\ Up(syst[p], rate) = Scaled(u, Times(<<Integral(u), rate>>, Whole(rate)))
      /\ Down(syst[p], rate) = Scaled(d, Times(<<Integral(d), rate>>, Whole(rate)))
  BY <1>2 DEF Nominal, Up, Down
<1> HIDE DEF B, v, u, d, rate
<1>5. \A i \in Int : /\ Whole(i) = <<i * 1, 1>>
                     /\ \A r \in Int : Times(<<i, r>>, Whole(r)) = <<i * r, r>>
  BY DEF Whole, Times
<1>6. Scaled(v, Whole(rate)) = v
  <2>1. Whole(rate) = <<Integral(v) * 1, 1>>
    BY <1>1, <1>2, <1>5
  <2> QED  BY <1>1, <1>2, <2>1, ScaledSame
<1>7. \A h \in [B -> Int] : Integral(h) > 0 => Scaled(h, Times(<<Integral(h), rate>>, Whole(rate))) = h
  <2> TAKE h \in [B -> Int]
  <2> HAVE Integral(h) > 0
  <2>1. Integral(h) \in Int
    BY <1>1, IntegralInt
  <2>2. Times(<<Integral(h), rate>>, Whole(rate)) = <<Integral(h) * rate, rate>>
    BY <1>1, <1>5, <2>1
  <2>3. rate > 0
    BY <1>2
  <2> QED  BY <1>1, <2>2, <2>3, ScaledSame
<1> QED  BY <1>1, <1>2, <1>4, <1>6, <1>7 DEF v, u, d, rate

\* Changed templates h, u and d with sums above zero.
LEMMA SetKept ==
  ASSUME NEW C, IsFiniteSet(Bins(C)), NEW h \in [Bins(C) -> Int], NEW e, NEW u, NEW d, NEW s, NEW st, NEW z,
         h = KeptOf(st.v, C, z), u = KeptOf(st.u, C, z), d = KeptOf(st.d, C, z),
         Integral(h) > 0, Integral(u) > 0, Integral(d) > 0
  PROVE  /\ Scaled(h, Whole(Integral(h))) = h
         /\ KeptProc(SetShape(h, e), SetShapes(s, u, d, h), st, C, z)
<1>1. Integral(h) \in Int
  BY IntegralInt
<1>2. Whole(Integral(h)) = <<Integral(h) * 1, 1>>
  BY <1>1 DEF Whole
<1>3. Scaled(h, Whole(Integral(h))) = h
  BY <1>2, ScaledSame
<1>4. KeptProc(SetShape(h, e), SetShapes(s, u, d, h), st, C, z)
  BY DEF KeptProc, SetShape, SetShapes
<1> QED  BY <1>3, <1>4

LEMMA KeptInit ==
  ASSUME Init
  PROVE  Kept
<1>1. /\ cuts = Edges /\ first \in Starts /\ lost = NotPositive(Procs)
      /\ proc = [p \in Procs |-> SetShape(first[p].v, first[p].e2)]
      /\ \A p \in Procs : /\ zeroed[p] = {}
                          /\ syst[p] = SetShapes([value_u |-> Whole(1), value_d |-> Whole(1)],
                                                 first[p].u, first[p].d, first[p].v)
  BY DEF Init
<1>2. ASSUME NEW p \in Procs \ lost
      PROVE  KeptProc(proc[p], syst[p], first[p], Edges, {})
  <2>1. /\ first[p].v \in [Bins(Edges) -> Int] /\ first[p].u \in [Bins(Edges) -> Int]
        /\ first[p].d \in [Bins(Edges) -> Int]
    BY <1>1, StartsAssumption
  <2>2. /\ first[p].v = KeptOf(first[p].v, Edges, {}) /\ first[p].u = KeptOf(first[p].u, Edges, {})
        /\ first[p].d = KeptOf(first[p].d, Edges, {})
    BY <2>1, StartKept
  <2>3. proc[p].v = first[p].v /\ syst[p].u = first[p].u /\ syst[p].d = first[p].d
    <3>1. proc[p] = SetShape(first[p].v, first[p].e2)
      BY <1>1
    <3>2. \A s0 : SetShapes(s0, first[p].u, first[p].d, first[p].v).u = first[p].u
                 /\ SetShapes(s0, first[p].u, first[p].d, first[p].v).d = first[p].d
      BY DEF SetShapes
    <3>3. proc[p].v = first[p].v
      BY <3>1 DEF SetShape
    <3> QED  BY <1>1, <3>2, <3>3, Zenon
  <2>4. ~(Integral(first[p].v) <= 0) /\ ~(Integral(first[p].u) <= 0) /\ ~(Integral(first[p].d) <= 0)
    <3>1. p \notin NotPositive(Procs)
      BY <1>1
    <3> QED  BY <2>3, <3>1 DEF NotPositive
  <2>5. IsFiniteSet(Bins(Edges))
    BY BinningFacts, EdgesBinning
  <2>6. Integral(first[p].v) > 0 /\ Integral(first[p].u) > 0 /\ Integral(first[p].d) > 0
    BY <2>1, <2>4, <2>5, IntegralInt
  <2> DEFINE s == [value_u |-> Whole(1), value_d |-> Whole(1)]
  <2>7. proc[p] = SetShape(first[p].v, first[p].e2) /\ syst[p] = SetShapes(s, first[p].u, first[p].d, first[p].v)
    BY <1>1
  <2> HIDE DEF s
  <2>8. \A e : KeptProc(SetShape(first[p].v, e), SetShapes(s, first[p].u, first[p].d, first[p].v), first[p], Edges, {})
    BY <2>1, <2>2, <2>5, <2>6, SetKept
  <2> QED  BY <2>7, <2>8, Zenon
<1>3. \A p \in Procs \ lost : zeroed[p] = {}
  BY <1>1
<1> QED  BY <1>1, <1>2, <1>3 DEF Kept

\* A change of all templates of a process by one function, of which the sums
\* are above zero afterwards.
LEMMA KeptChanged ==
  ASSUME Typed, Kept, NEW p \in Procs \ lost, NEW C, IsFiniteSet(Bins(C)), NEW z,
         NEW r, NEW s, NEW v, NEW u, NEW d, NEW e,
         v \in [Bins(C) -> Int],
         v = KeptOf(first[p].v, C, z), u = KeptOf(first[p].u, C, z), d = KeptOf(first[p].d, C, z),
         r = SetShape(v, e), s = SetShapes(syst[p], u, d, Scaled(r.v, Whole(r.rate))),
         ~(Integral(r.v) <= 0), ~(Integral(s.u) <= 0), ~(Integral(s.d) <= 0),
         u \in [Bins(C) -> Int], d \in [Bins(C) -> Int]
  PROVE  KeptProc(r, s, first[p], C, z)
<1>1. r.v = v /\ r.rate = Integral(v) /\ s.u = u /\ s.d = d
  BY DEF SetShape, SetShapes
<1>2. Integral(v) \in Int /\ Integral(u) \in Int /\ Integral(d) \in Int
  BY IntegralInt
<1>3. Integral(v) > 0 /\ Integral(u) > 0 /\ Integral(d) > 0
  BY <1>1, <1>2
<1>4. /\ Scaled(v, Whole(Integral(v))) = v
      /\ KeptProc(SetShape(v, e), SetShapes(syst[p], u, d, v), first[p], C, z)
  BY <1>3, SetKept
<1>5. s = SetShapes(syst[p], u, d, v)
  BY <1>1, <1>4
<1> QED  BY <1>4, <1>5, Zenon

LEMMA KeptRebin ==
  ASSUME Typed, Kept, NEW C \in SUBSET cuts, Cardinality(C) >= 2, Rebin(C), UNCHANGED <<first, zeroed>>
  PROVE  Kept'
<1>1. /\ cuts' = C /\ lost' = lost \cup NotPositive(Procs)'
      /\ proc' = [p \in Procs |-> SetShape(Grouped(Nominal(p), C), GroupedErrors(Errors(p), C))]
      /\ \A p \in Procs :
           syst'[p] = SetShapes(syst[p], Grouped(Up(syst[p], proc[p].rate), C),
                                Grouped(Down(syst[p], proc[p].rate), C),
                                Scaled(proc'[p].v, Whole(proc'[p].rate)))
  BY RebinStep
<1>2. /\ Binning(cuts) /\ IsFiniteSet(Bins(cuts)) /\ Binning(C) /\ IsFiniteSet(Bins(C))
      /\ \A p \in Procs : ProcTyped(proc[p], syst[p], cuts)
  <2>1. Binning(cuts) /\ IsFiniteSet(Bins(cuts)) /\ \A p \in Procs : ProcTyped(proc[p], syst[p], cuts)
    BY TypedProcs
  <2>2. Binning(C)
    BY <2>1 DEF Binning
  <2> QED  BY <2>1, <2>2, BinningFacts
<1>3. ASSUME NEW p \in Procs, p \notin lost'
      PROVE  KeptProc(proc'[p], syst'[p], first[p], C, zeroed[p])
  <2> DEFINE v == proc[p].v
             u == syst[p].u
             d == syst[p].d
             z == zeroed[p]
             st == first[p]
  <2>1. p \in Procs \ lost /\ ~(p \in NotPositive(Procs)')
    BY <1>1, <1>3
  <2>2. Nominal(p) = v /\ Up(syst[p], proc[p].rate) = u /\ Down(syst[p], proc[p].rate) = d
    BY <2>1, Predicted
  <2>3. v \in [Bins(cuts) -> Int] /\ u \in [Bins(cuts) -> Int] /\ d \in [Bins(cuts) -> Int]
    BY <1>2 DEF ProcTyped
  <2>4. v = KeptOf(st.v, cuts, z) /\ u = KeptOf(st.u, cuts, z) /\ d = KeptOf(st.d, cuts, z)
    BY <2>1 DEF Kept, KeptProc
  <2>5. st.v \in [Bins(Edges) -> Int] /\ st.u \in [Bins(Edges) -> Int] /\ st.d \in [Bins(Edges) -> Int]
    BY StartsAssumption DEF Typed, Shaped
  <2>6. /\ proc'[p] = SetShape(Grouped(v, C), GroupedErrors(Errors(p), C))
        /\ syst'[p] = SetShapes(syst[p], Grouped(u, C), Grouped(d, C), Scaled(proc'[p].v, Whole(proc'[p].rate)))
    BY <1>1, <2>2
  <2>7. ~(Integral(proc'[p].v) <= 0) /\ ~(Integral(syst'[p].u) <= 0) /\ ~(Integral(syst'[p].d) <= 0)
    BY <2>1 DEF NotPositive
  <2> HIDE DEF v, u, d, z, st
  <2>8. /\ Grouped(v, C) \in [Bins(C) -> Int] /\ Grouped(u, C) \in [Bins(C) -> Int]
        /\ Grouped(d, C) \in [Bins(C) -> Int]
    BY <1>2, <2>3, GroupedType
  <2>9. \A h \in [Bins(Edges) -> Int] : Grouped(KeptOf(h, cuts, z), C) = KeptOf(h, C, z)
    BY <1>2, GroupedKept
  <2>10. /\ Grouped(v, C) = KeptOf(st.v, C, z) /\ Grouped(u, C) = KeptOf(st.u, C, z)
         /\ Grouped(d, C) = KeptOf(st.d, C, z)
    BY <2>4, <2>5, <2>9, Zenon
  <2> DEFINE gv == Grouped(v, C)
             gu == Grouped(u, C)
             gd == Grouped(d, C)
             e == GroupedErrors(Errors(p), C)
             r == proc'[p]
             s == syst'[p]
  <2>11. /\ gv \in [Bins(C) -> Int] /\ gu \in [Bins(C) -> Int] /\ gd \in [Bins(C) -> Int]
         /\ gv = KeptOf(first[p].v, C, z) /\ gu = KeptOf(first[p].u, C, z) /\ gd = KeptOf(first[p].d, C, z)
         /\ r = SetShape(gv, e) /\ s = SetShapes(syst[p], gu, gd, Scaled(r.v, Whole(r.rate)))
         /\ ~(Integral(r.v) <= 0) /\ ~(Integral(s.u) <= 0) /\ ~(Integral(s.d) <= 0)
    BY <2>6, <2>7, <2>8, <2>10 DEF st
  <2> HIDE DEF gv, gu, gd, e, r, s
  <2>12. KeptProc(r, s, first[p], C, z)
    BY <1>2, <2>1, <2>11, KeptChanged
  <2> QED  BY <2>12 DEF r, s, z
<1>4. first' = first /\ zeroed' = zeroed
  OBVIOUS
<1> QED  BY <1>1, <1>3, <1>4 DEF Kept

LEMMA KeptZeroBins ==
  ASSUME Typed, Kept, NEW min \in Int, NEW max \in Int, NEW P \in SUBSET Procs, ZeroBins(min, max, P)
  PROVE  Kept'
<1> DEFINE Z == Within(min, max)
           W == {a \in Edges : min <= a /\ a < max /\ \E b \in Z : b <= a /\ a < End(cuts, b)}
<1>1. /\ lost' = lost \cup NotPositive(P)'
      /\ proc' = [p \in Procs |-> IF p \in P
                    THEN SetShape(ZeroedIn(Nominal(p), Z), ZeroedErrors(Errors(p), Z)) ELSE proc[p]]
      /\ \A p \in Procs :
           syst'[p] = IF p \in P
                      THEN SetShapes(syst[p], ZeroedIn(Up(syst[p], proc[p].rate), Z),
                                     ZeroedIn(Down(syst[p], proc[p].rate), Z),
                                     Scaled(proc'[p].v, Whole(proc'[p].rate)))
                      ELSE syst[p]
  BY ZeroStep
<1>2. cuts' = cuts /\ first' = first /\ zeroed' = [p \in Procs |-> IF p \in P THEN zeroed[p] \cup W ELSE zeroed[p]]
  BY DEF ZeroBins
<1>3. /\ Binning(cuts) /\ IsFiniteSet(Bins(cuts)) /\ \A p \in Procs : ProcTyped(proc[p], syst[p], cuts)
  BY TypedProcs
<1>4. Z \subseteq Bins(cuts) /\ \A b \in Z : min <= b /\ End(cuts, b) <= max
  <2>1. Bins(cuts) \subseteq Int
    BY <1>3, BinningFacts
  <2> QED  BY <2>1 DEF Within
<1>5. ASSUME NEW a \in Bins(Edges)
      PROVE  a \in W <=> \E b \in Z : b <= a /\ a < End(cuts, b)
  <2>1. a \in Edges /\ a \in Int
    BY BinningFacts, EdgesBinning
  <2>2. ASSUME NEW b \in Z, b <= a, a < End(cuts, b) PROVE min <= a /\ a < max
    <3> DEFINE e == End(cuts, b)
    <3>1. b \in Int /\ e \in Int /\ min <= b /\ e <= max /\ a < e
      BY <1>3, <1>4, <2>2, PartFacts
    <3> HIDE DEF e
    <3> QED  BY <2>1, <2>2, <3>1
  <2> QED  BY <2>1, <2>2
<1> HIDE DEF Z, W
<1>6. ASSUME NEW p \in P, p \notin lost'
      PROVE  KeptProc(proc'[p], syst'[p], first[p], cuts, zeroed[p] \cup W)
  <2> DEFINE v == proc[p].v
             u == syst[p].u
             d == syst[p].d
             z == zeroed[p]
             y == zeroed[p] \cup W
             st == first[p]
  <2>1. p \in Procs \ lost /\ ~(p \in NotPositive(P)')
    BY <1>1, <1>6
  <2>2. Nominal(p) = v /\ Up(syst[p], proc[p].rate) = u /\ Down(syst[p], proc[p].rate) = d
    BY <2>1, Predicted
  <2>3. v \in [Bins(cuts) -> Int] /\ u \in [Bins(cuts) -> Int] /\ d \in [Bins(cuts) -> Int]
    BY <1>3 DEF ProcTyped
  <2>4. v = KeptOf(st.v, cuts, z) /\ u = KeptOf(st.u, cuts, z) /\ d = KeptOf(st.d, cuts, z)
    BY <2>1 DEF Kept, KeptProc
  <2>5. /\ proc'[p] = SetShape(ZeroedIn(v, Z), ZeroedErrors(Errors(p), Z))
        /\ syst'[p] = SetShapes(syst[p], ZeroedIn(u, Z), ZeroedIn(d, Z), Scaled(proc'[p].v, Whole(proc'[p].rate)))
    BY <1>1, <2>2
  <2>6. ~(Integral(proc'[p].v) <= 0) /\ ~(Integral(syst'[p].u) <= 0) /\ ~(Integral(syst'[p].d) <= 0)
    BY <2>1 DEF NotPositive
  <2>7. \A a \in Bins(Edges) : a \in y <=> a \in z \/ \E b \in Z : b <= a /\ a < End(cuts, b)
    BY <1>5
  <2> HIDE DEF v, u, d, z, y, st
  <2>8. \A h \in [Bins(cuts) -> Int] : ZeroedIn(h, Z) \in [Bins(cuts) -> Int]
    BY DEF ZeroedIn
  <2>9. \A h : ZeroedIn(KeptOf(h, cuts, z), Z) = KeptOf(h, cuts, y)
    BY <1>3, <1>4, <2>7, ZeroedKept
  <2>10. /\ ZeroedIn(v, Z) = KeptOf(st.v, cuts, y) /\ ZeroedIn(u, Z) = KeptOf(st.u, cuts, y)
         /\ ZeroedIn(d, Z) = KeptOf(st.d, cuts, y)
    BY <2>4, <2>9, Zenon
  <2> DEFINE gv == ZeroedIn(v, Z)
             gu == ZeroedIn(u, Z)
             gd == ZeroedIn(d, Z)
             e == ZeroedErrors(Errors(p), Z)
             r == proc'[p]
             s == syst'[p]
  <2>11. /\ gv \in [Bins(cuts) -> Int] /\ gu \in [Bins(cuts) -> Int] /\ gd \in [Bins(cuts) -> Int]
         /\ gv = KeptOf(first[p].v, cuts, y) /\ gu = KeptOf(first[p].u, cuts, y) /\ gd = KeptOf(first[p].d, cuts, y)
         /\ r = SetShape(gv, e) /\ s = SetShapes(syst[p], gu, gd, Scaled(r.v, Whole(r.rate)))
         /\ ~(Integral(r.v) <= 0) /\ ~(Integral(s.u) <= 0) /\ ~(Integral(s.d) <= 0)
    BY <2>3, <2>5, <2>6, <2>8, <2>10 DEF st
  <2> HIDE DEF gv, gu, gd, e, r, s
  <2>12. KeptProc(r, s, first[p], cuts, y)
    BY <1>3, <2>1, <2>11, KeptChanged
  <2> QED  BY <2>12 DEF r, s, y
<1>7. ASSUME NEW p \in Procs, p \notin lost', p \notin P
      PROVE  KeptProc(proc'[p], syst'[p], first[p], cuts, zeroed[p])
  <2>1. proc'[p] = proc[p] /\ syst'[p] = syst[p] /\ p \notin lost
    BY <1>1, <1>7
  <2> QED  BY <2>1 DEF Kept
<1>8. \A p \in Procs : zeroed'[p] = IF p \in P THEN zeroed[p] \cup W ELSE zeroed[p]
  BY <1>2
<1> QED  BY <1>2, <1>6, <1>7, <1>8 DEF Kept

LEMMA KeptMerge ==
  ASSUME Typed, Kept, NEW f \in Factories, NEW P \in SUBSET Procs, Merge(f, P),
         UNCHANGED <<cuts, syst, first, zeroed, lost>>
  PROVE  Kept'
<1>1. PICK e \in [P -> [Bins(cuts) -> Squares]] :
        proc' = [p \in Procs |-> IF p \in P THEN [rate |-> proc[p].rate, v |-> Nominal(p), e2 |-> e[p]]
                                 ELSE proc[p]]
  BY MergeStep
<1>2. ASSUME NEW p \in Procs \ lost
      PROVE  KeptProc(proc'[p], syst[p], first[p], cuts, zeroed[p])
  <2>1. Nominal(p) = proc[p].v /\ KeptProc(proc[p], syst[p], first[p], cuts, zeroed[p])
    BY Predicted DEF Kept
  <2>2. proc'[p].rate = proc[p].rate /\ proc'[p].v = proc[p].v
    BY <1>1, <2>1
  <2> QED  BY <2>1, <2>2 DEF KeptProc
<1> QED  BY <1>2 DEF Kept

LEMMA KeptStep ==
  ASSUME Typed, Kept, [Next]_vars
  PROVE  Kept'
<1>1. CASE UNCHANGED <<cuts, proc, syst, first, zeroed, lost>>
  BY <1>1 DEF Kept
<1>2. ASSUME NEW C \in SUBSET cuts, VariableRebin(C) PROVE Kept'
  BY <1>2, KeptRebin DEF VariableRebin
<1>3. ASSUME NEW min \in Edges, NEW max \in Edges, NEW P \in SUBSET Procs, ZeroBins(min, max, P) PROVE Kept'
  <2>1. min \in Int /\ max \in Int
    BY BinningFacts, EdgesBinning
  <2> QED  BY <1>3, <2>1, KeptZeroBins
<1>4. CASE EndSearch
  <2>1. CASE UNCHANGED <<cuts, proc, syst, lost>>
    BY <1>1, <1>4, <2>1 DEF EndSearch
  <2>2. CASE Rebin(Found)
    <3>1. Found \in SUBSET cuts /\ Cardinality(Found) >= 2 /\ UNCHANGED <<first, zeroed>>
      BY <1>4, FoundBinning DEF EndSearch, Binning
    <3> QED  BY <2>2, <3>1, KeptRebin
  <2> QED  BY <1>4, <2>1, <2>2 DEF EndSearch
<1>5. ASSUME NEW f \in Factories, NEW P \in SUBSET Procs, MergeBinErrors(f, P) \/ MergeAndAdd(f, P) PROVE Kept'
  BY <1>5, KeptMerge DEF MergeBinErrors, MergeAndAdd
<1>6. {Procs, Backgrounds} \subseteq SUBSET Procs
  BY BinsAssumption
<1> QED  BY <1>1, <1>2, <1>3, <1>4, <1>5, <1>6 DEF Next, StartSearch, SearchOn, vars

\* However the tools are called, a process and its systematic predict in each
\* bin the sum of what their templates held at the start in its parts that were
\* not zeroed: the scaling of the systematics by the old rate and the new
\* values agree (CombineHarvester_Evaluate.cc:942-1080).
THEOREM TemplatesAreKept == Spec => []TemplatesKept
<1>1. Init => Typed /\ Kept
  BY TypedInit, KeptInit
<1>2. Typed /\ Kept /\ [Next]_vars => Typed' /\ Kept'
  BY TypedStep, KeptStep
<1>3. Typed /\ Kept => TemplatesKept
  <2> SUFFICES ASSUME Typed, Kept, NEW p \in Procs \ lost, NEW b \in Bins(cuts)
               PROVE  /\ Nominal(p)[b] = Expected(p, first[p].v, b)
                      /\ Up(syst[p], proc[p].rate)[b] = Expected(p, first[p].u, b)
                      /\ Down(syst[p], proc[p].rate)[b] = Expected(p, first[p].d, b)
    BY DEF TemplatesKept
  <2>1. /\ Nominal(p) = proc[p].v /\ Up(syst[p], proc[p].rate) = syst[p].u
        /\ Down(syst[p], proc[p].rate) = syst[p].d
    BY Predicted
  <2>2. /\ proc[p].v = KeptOf(first[p].v, cuts, zeroed[p]) /\ syst[p].u = KeptOf(first[p].u, cuts, zeroed[p])
        /\ syst[p].d = KeptOf(first[p].d, cuts, zeroed[p])
    BY DEF Kept, KeptProc
  <2>3. \A h : KeptOf(h, cuts, zeroed[p])[b] = Expected(p, h, b)
    BY DEF KeptOf, Expected, Part
  <2> QED  BY <2>1, <2>2, <2>3, Zenon
<1> QED  BY <1>1, <1>2, <1>3, PTL DEF Spec

-----------------------------------------------------------------------------
(* Sums of fractions.                                                      *)

LEMMA PlusMonoid ==
  /\ \A a, b \in Fractions : Plus(a, b) = Plus(b, a)
  /\ \A a, b, c \in Fractions : Plus(a, Plus(b, c)) = Plus(b, Plus(a, c))
  /\ \A a, b, c \in Fractions : Plus(Plus(a, b), c) = Plus(a, Plus(b, c))
  /\ \A a \in Fractions : Plus(a, Whole(0)) = a /\ Plus(Whole(0), a) = a
<1>1. \A a, b \in Fractions : Plus(a, b) = Plus(b, a)
  BY Parts DEF Plus
<1>2. ASSUME NEW a \in Fractions, NEW b \in Fractions, NEW c \in Fractions
      PROVE  Plus(a, Plus(b, c)) = Plus(b, Plus(a, c)) /\ Plus(Plus(a, b), c) = Plus(a, Plus(b, c))
  <2> DEFINE a1 == a[1] a2 == a[2] b1 == b[1] b2 == b[2] c1 == c[1] c2 == c[2]
  <2>1. a1 \in Int /\ a2 \in Int /\ b1 \in Int /\ b2 \in Int /\ c1 \in Int /\ c2 \in Int
    BY Parts
  <2>2. /\ Plus(a, Plus(b, c)) = <<a1 * (b2 * c2) + (b1 * c2 + c1 * b2) * a2, a2 * (b2 * c2)>>
        /\ Plus(b, Plus(a, c)) = <<b1 * (a2 * c2) + (a1 * c2 + c1 * a2) * b2, b2 * (a2 * c2)>>
        /\ Plus(Plus(a, b), c) = <<(a1 * b2 + b1 * a2) * c2 + c1 * (a2 * b2), (a2 * b2) * c2>>
    BY DEF Plus
  <2> HIDE DEF a1, a2, b1, b2, c1, c2
  <2>3. /\ a1 * (b2 * c2) + (b1 * c2 + c1 * b2) * a2 = b1 * (a2 * c2) + (a1 * c2 + c1 * a2) * b2
        /\ a1 * (b2 * c2) + (b1 * c2 + c1 * b2) * a2 = (a1 * b2 + b1 * a2) * c2 + c1 * (a2 * b2)
        /\ a2 * (b2 * c2) = b2 * (a2 * c2) /\ a2 * (b2 * c2) = (a2 * b2) * c2
    BY <2>1
  <2> QED  BY <2>2, <2>3, Zenon
<1>3. ASSUME NEW a \in Fractions PROVE Plus(a, Whole(0)) = a /\ Plus(Whole(0), a) = a
  <2>1. a = <<a[1], a[2]>> /\ a[1] \in Int /\ a[2] \in Int
    BY DEF Fractions
  <2>2. Plus(a, Whole(0)) = <<a[1] * 1 + 0 * a[2], a[2] * 1>> /\ Plus(Whole(0), a) = <<0 * a[2] + a[1] * 1, 1 * a[2]>>
    BY DEF Plus, Whole
  <2>3. a[1] * 1 + 0 * a[2] = a[1] /\ a[2] * 1 = a[2] /\ 0 * a[2] + a[1] * 1 = a[1] /\ 1 * a[2] = a[2]
    BY <2>1
  <2> QED  BY <2>1, <2>2, <2>3, Zenon
<1> QED  BY <1>1, <1>2, <1>3

\* Any element can be taken out of a sum, and the sum depends on the values only.
LEMMA FractionsTake ==
  ASSUME NEW f, NEW S, IsFiniteSet(S), \A s \in S : f[s] \in Squares, NEW e \in S
  PROVE  SumFractions(f, S) = Plus(f[e], SumFractions(f, S \ {e}))
<1> DEFINE Wrong(T, d) == SumFractions(f, T) # Plus(f[d], SumFractions(f, T \ {d}))
           B == {T \in SUBSET S : \E d \in T : Wrong(T, d)}
<1>1. SUFFICES ASSUME B # {} PROVE FALSE
  OBVIOUS
<1>2. PICK T \in B : \A u \in B : u \subseteq T => u = T
  <2>1. B \in SUBSET SUBSET S
    OBVIOUS
  <2> HIDE DEF B
  <2> QED  BY <1>1, <2>1, SmallestSubset
<1>3. PICK d \in T : Wrong(T, d)
  BY <1>2
<1> DEFINE p == Pick(T)
<1>4. p \in T /\ T # {} /\ SumFractions(f, T) = Plus(f[p], SumFractions(f, T \ {p}))
  BY <1>3, PickIn, FractionsUnrolled, FS_Subset
<1>5. p # d
  BY <1>3, <1>4
<1>6. SumFractions(f, T \ {p}) = Plus(f[d], SumFractions(f, (T \ {p}) \ {d}))
  <2>1. T \ {p} \notin B
    BY <1>2, <1>4
  <2> QED  BY <2>1, <1>3, <1>5
<1>7. SumFractions(f, T \ {d}) = Plus(f[p], SumFractions(f, (T \ {d}) \ {p}))
  <2>1. T \ {d} \notin B
    BY <1>2, <1>3
  <2> QED  BY <2>1, <1>4, <1>5
<1>8. (T \ {p}) \ {d} = (T \ {d}) \ {p}
  OBVIOUS
<1>9. SumFractions(f, (T \ {p}) \ {d}) \in Fractions /\ f[p] \in Fractions /\ f[d] \in Fractions
  <2>1. (T \ {p}) \ {d} \in SUBSET S /\ IsFiniteSet((T \ {p}) \ {d}) /\ p \in S /\ d \in S
    BY <1>3, <1>4, FS_Subset
  <2>2. SumFractions(f, (T \ {p}) \ {d}) \in Squares
    BY <2>1, FractionSum
  <2> QED  BY <2>1, <2>2, Parts
<1>10. SumFractions(f, T \ {d}) = Plus(f[p], SumFractions(f, (T \ {p}) \ {d}))
  BY <1>7, <1>8, Zenon
<1> DEFINE rest == SumFractions(f, (T \ {p}) \ {d})
<1>11. Plus(f[p], Plus(f[d], rest)) = Plus(f[d], Plus(f[p], rest))
  BY <1>9, PlusMonoid
<1>12. SumFractions(f, T) = Plus(f[d], SumFractions(f, T \ {d}))
  BY <1>4, <1>6, <1>10, <1>11, Zenon
<1> QED  BY <1>3, <1>12

LEMMA FractionsEqual ==
  ASSUME NEW f, NEW g, NEW S, IsFiniteSet(S), \A s \in S : f[s] = g[s]
  PROVE  SumFractions(f, S) = SumFractions(g, S)
<1> DEFINE B == {T \in SUBSET S : SumFractions(f, T) # SumFractions(g, T)}
<1>1. SUFFICES ASSUME B # {} PROVE FALSE
  OBVIOUS
<1>2. PICK T \in B : \A u \in B : u \subseteq T => u = T
  <2>1. B \in SUBSET SUBSET S
    OBVIOUS
  <2> HIDE DEF B
  <2> QED  BY <1>1, <2>1, SmallestSubset
<1>3. T # {} /\ Pick(T) \in T
  BY <1>2, FractionsEmpty, PickIn
<1>4. SumFractions(f, T \ {Pick(T)}) = SumFractions(g, T \ {Pick(T)})
  BY <1>2, <1>3
<1>5. /\ SumFractions(f, T) = Plus(f[Pick(T)], SumFractions(f, T \ {Pick(T)}))
      /\ SumFractions(g, T) = Plus(g[Pick(T)], SumFractions(g, T \ {Pick(T)}))
  BY <1>3, FractionsUnrolled, FS_Subset
<1> QED  BY <1>2, <1>3, <1>4, <1>5

\* A sum over the whole is the sum over two parts.
LEMMA FractionsParts ==
  ASSUME NEW f, NEW S, IsFiniteSet(S), \A s \in S : f[s] \in Squares, NEW M \in SUBSET S
  PROVE  SumFractions(f, S) = Plus(SumFractions(f, M), SumFractions(f, S \ M))
<1> DEFINE Wrong(T) == SumFractions(f, S) # Plus(SumFractions(f, T), SumFractions(f, S \ T))
           B == {T \in SUBSET S : Wrong(T)}
<1>1. SUFFICES ASSUME B # {} PROVE FALSE
  OBVIOUS
<1>2. PICK T \in B : \A u \in B : u \subseteq T => u = T
  <2>1. B \in SUBSET SUBSET S
    OBVIOUS
  <2> HIDE DEF B
  <2> QED  BY <1>1, <2>1, SmallestSubset
<1>3. \A U \in SUBSET S : IsFiniteSet(U) /\ SumFractions(f, U) \in Fractions
  BY FS_Subset, FractionSum, Parts
<1>4. T # {}
  <2>1. S \ {} = S
    OBVIOUS
  <2>2. SumFractions(f, S) = Plus(SumFractions(f, {}), SumFractions(f, S \ {}))
    BY <1>3, <2>1, FractionsEmpty, PlusMonoid
  <2> QED  BY <1>2, <2>2
<1> DEFINE p == Pick(T)
           R == T \ {p}
           x == SumFractions(f, R)
           y == SumFractions(f, S \ T)
<1>5. p \in T /\ R \in SUBSET S /\ p \in S \ R /\ (S \ R) \ {p} = S \ T /\ R # T /\ T \in SUBSET S
  BY <1>2, <1>4, PickIn
<1>6. SumFractions(f, T) = Plus(f[p], x)
  BY <1>3, <1>5, FractionsTake
<1>7. SumFractions(f, S \ R) = Plus(f[p], y)
  <2>1. S \ R \in SUBSET S /\ IsFiniteSet(S \ R)
    BY <1>3
  <2>2. SumFractions(f, S \ R) = Plus(f[p], SumFractions(f, (S \ R) \ {p}))
    BY <1>5, <2>1, FractionsTake
  <2> QED  BY <1>5, <2>2, Zenon
<1>8. SumFractions(f, S) = Plus(x, Plus(f[p], y))
  <2>1. R \notin B
    BY <1>2, <1>5
  <2>2. SumFractions(f, S) = Plus(x, SumFractions(f, S \ R))
    BY <1>5, <2>1
  <2> QED  BY <1>7, <2>2, Zenon
<1>9. x \in Fractions /\ y \in Fractions /\ f[p] \in Fractions
  BY <1>3, <1>5, Parts
<1>10. Plus(x, Plus(f[p], y)) = Plus(Plus(f[p], x), y)
  <2> HIDE DEF x, y, p
  <2> QED  BY <1>9, PlusMonoid
<1>11. SumFractions(f, S) = Plus(SumFractions(f, T), y)
  BY <1>6, <1>8, <1>10, Zenon
<1> QED  BY <1>2, <1>11

\* Fractions of the same value.
LEMMA SameEquivalence ==
  /\ \A a \in Fractions : Same(a, a)
  /\ \A a, b \in Fractions : Same(a, b) => Same(b, a)
  /\ \A a, b, c \in Fractions : Same(a, b) /\ Same(b, c) => Same(a, c)
<1>1. (\A a \in Fractions : Same(a, a)) /\ \A a, b \in Fractions : Same(a, b) => Same(b, a)
  BY Parts DEF Same
<1>2. ASSUME NEW a \in Fractions, NEW b \in Fractions, NEW c \in Fractions, Same(a, b), Same(b, c)
      PROVE  Same(a, c)
  <2> DEFINE a1 == a[1] a2 == a[2] b1 == b[1] b2 == b[2] c1 == c[1] c2 == c[2]
  <2>1. a1 \in Int /\ a2 \in Int /\ b1 \in Int /\ b2 \in Int /\ b2 > 0 /\ c1 \in Int /\ c2 \in Int
    BY Parts
  <2>2. a1 * b2 = b1 * a2 /\ b1 * c2 = c1 * b2
    BY <1>2 DEF Same
  <2> HIDE DEF a1, a2, b1, b2, c1, c2
  <2>3. (a1 * c2) * b2 = (b1 * a2) * c2 /\ (c1 * a2) * b2 = (b1 * c2) * a2
    BY <2>1, <2>2
  <2>4. (a1 * c2) * b2 = (c1 * a2) * b2
    BY <2>1, <2>3
  <2> DEFINE i == a1 * c2
             j == c1 * a2
  <2>5. i \in Int /\ j \in Int /\ i * b2 = j * b2
    BY <2>1, <2>4
  <2> HIDE DEF i, j
  <2>6. i = j
    BY <2>1, <2>5
  <2> QED  BY <2>6 DEF i, j, a1, a2, c1, c2, Same
<1> QED  BY <1>1, <1>2

LEMMA SamePlus ==
  ASSUME NEW a \in Fractions, NEW b \in Fractions, NEW c \in Fractions, NEW d \in Fractions, Same(c, d)
  PROVE  Same(Plus(a, c), Plus(b, d)) <=> Same(a, b)
<1> DEFINE a1 == a[1] a2 == a[2] b1 == b[1] b2 == b[2] c1 == c[1] c2 == c[2] d1 == d[1] d2 == d[2]
<1>1. /\ a1 \in Int /\ a2 \in Int /\ b1 \in Int /\ b2 \in Int /\ c1 \in Int /\ c2 \in Int /\ c2 > 0
      /\ d1 \in Int /\ d2 \in Int /\ d2 > 0
  BY Parts
<1>2. c1 * d2 = d1 * c2
  BY DEF Same
<1>3. Same(Plus(a, c), Plus(b, d)) <=> (a1 * c2 + c1 * a2) * (b2 * d2) = (b1 * d2 + d1 * b2) * (a2 * c2)
  BY DEF Same, Plus
<1>4. Same(a, b) <=> a1 * b2 = b1 * a2
  BY DEF Same
<1> HIDE DEF a1, a2, b1, b2, c1, c2, d1, d2
<1>5. /\ (a1 * c2 + c1 * a2) * (b2 * d2) = (a1 * b2) * (c2 * d2) + (c1 * d2) * (a2 * b2)
      /\ (b1 * d2 + d1 * b2) * (a2 * c2) = (b1 * a2) * (c2 * d2) + (d1 * c2) * (a2 * b2)
  BY <1>1
<1> DEFINE i == a1 * b2
           j == b1 * a2
           k == c2 * d2
           m == (c1 * d2) * (a2 * b2)
<1>6. /\ (a1 * c2 + c1 * a2) * (b2 * d2) = i * k + m
      /\ (b1 * d2 + d1 * b2) * (a2 * c2) = j * k + m
  BY <1>2, <1>5
<1>7. i \in Int /\ j \in Int /\ k \in Int /\ k > 0 /\ m \in Int
  BY <1>1, PositiveProduct
<1> HIDE DEF i, j, k, m
<1>8. i * k + m = j * k + m <=> i = j
  BY <1>7
<1> QED  BY <1>3, <1>4, <1>6, <1>8, Zenon DEF i, j

LEMMA SameSums ==
  ASSUME NEW f, NEW g, NEW S, IsFiniteSet(S),
         \A s \in S : f[s] \in Squares /\ g[s] \in Squares /\ Same(f[s], g[s])
  PROVE  Same(SumFractions(f, S), SumFractions(g, S))
<1> DEFINE B == {T \in SUBSET S : ~Same(SumFractions(f, T), SumFractions(g, T))}
<1>1. SUFFICES ASSUME B # {} PROVE FALSE
  OBVIOUS
<1>2. PICK T \in B : \A u \in B : u \subseteq T => u = T
  <2>1. B \in SUBSET SUBSET S
    OBVIOUS
  <2> HIDE DEF B
  <2> QED  BY <1>1, <2>1, SmallestSubset
<1>3. T # {} /\ Pick(T) \in T
  <2>1. Same(SumFractions(f, {}), SumFractions(g, {}))
    BY FractionsEmpty, FractionTypes, SameEquivalence
  <2> QED  BY <1>2, <2>1, PickIn
<1> DEFINE p == Pick(T)
           x == SumFractions(f, T \ {p})
           y == SumFractions(g, T \ {p})
<1>4. Same(x, y)
  BY <1>2, <1>3
<1>5. SumFractions(f, T) = Plus(f[p], x) /\ SumFractions(g, T) = Plus(g[p], y)
  BY <1>3, FractionsUnrolled, FS_Subset
<1>6. x \in Fractions /\ y \in Fractions
  <2>1. T \ {p} \in SUBSET S /\ IsFiniteSet(T \ {p})
    BY FS_Subset
  <2> QED  BY <2>1, FractionSum, Parts
<1>7. f[p] \in Fractions /\ g[p] \in Fractions /\ Same(f[p], g[p])
  BY <1>3, Parts
<1> HIDE DEF p, x, y
<1>8. Same(Plus(f[p], x), Plus(g[p], y))
  BY <1>4, <1>6, <1>7, SamePlus
<1> QED  BY <1>2, <1>5, <1>8, Zenon

-----------------------------------------------------------------------------
(* What merging does to sums of errors.                                    *)

LEMMA ReducedSame ==
  ASSUME NEW n \in Int, NEW d \in Int, n >= 0, d > 0
  PROVE  Same(Reduced(<<n, d>>), <<n, d>>)
<1> DEFINE S == {k \in 1..d : n % k = 0 /\ d % k = 0}
           g == Max(S)
<1>1. S \subseteq Int /\ IsFiniteSet(S) /\ S # {}
  <2>1. 1 \in S
    BY Z3
  <2>2. IsFiniteSet(1..d)
    BY FS_Interval
  <2> QED  BY <2>1, <2>2, FS_Subset
<1>2. g \in S
  <2> HIDE DEF S
  <2> QED  BY <1>1, MaxIn
<1>3. g \in Int /\ 1 <= g /\ n % g = 0 /\ d % g = 0
  BY <1>2
<1>4. Reduced(<<n, d>>) = <<n \div g, d \div g>>
  BY DEF Reduced, Gcd
<1> HIDE DEF g
<1> DEFINE i == n \div g
           j == d \div g
<1>5. i \in Int /\ j \in Int /\ n = g * i /\ d = g * j
  BY <1>3
<1>6. Same(Reduced(<<n, d>>), <<n, d>>) <=> i * d = n * j
  BY <1>4 DEF Same
<1> HIDE DEF i, j
<1>7. i * (g * j) = (g * i) * j
  BY <1>3, <1>5
<1> QED  BY <1>5, <1>6, <1>7, Zenon

\* The part of the total by which errors grow.
Growth(total, removed) == <<total[1] * removed[2], total[1] * removed[2] - removed[1] * total[2]>>

LEMMA GrowthType ==
  ASSUME NEW total \in Squares, NEW removed \in Squares, NEW merge \in Squares,
         merge[1] <= merge[2], Less(removed, Times(merge, total))
  PROVE  Growth(total, removed) \in Squares
<1> DEFINE r1 == removed[1]
           r2 == removed[2]
           t1 == total[1]
           t2 == total[2]
           m1 == merge[1]
           m2 == merge[2]
<1>1. /\ r1 \in Int /\ r1 >= 0 /\ r2 \in Int /\ r2 > 0 /\ t1 \in Int /\ t1 >= 0 /\ t2 \in Int /\ t2 > 0
      /\ m1 \in Int /\ m2 \in Int /\ m2 > 0 /\ m1 <= m2
  BY Parts
<1>2. r1 * (m2 * t2) < (m1 * t1) * r2
  BY DEF Less, Times
<1>3. Growth(total, removed) = <<t1 * r2, t1 * r2 - r1 * t2>>
  BY DEF Growth
<1> HIDE DEF r1, r2, t1, t2, m1, m2
<1>4. t1 * r2 \in Int /\ t1 * r2 >= 0 /\ r1 * t2 \in Int
  BY <1>1, NaturalProduct
<1>5. m1 * (t1 * r2) <= m2 * (t1 * r2)
  BY <1>1, <1>4
<1>6. (r1 * t2) * m2 < (t1 * r2) * m2
  BY <1>1, <1>2, <1>5
<1>7. r1 * t2 < t1 * r2
  BY <1>1, <1>4, <1>6, Monotone
<1>8. t1 * r2 - r1 * t2 \in Int /\ t1 * r2 - r1 * t2 > 0
  BY <1>4, <1>7
<1> QED  BY <1>3, <1>4, <1>8, Parts

LEMMA ExpandedSame ==
  ASSUME NEW e2 \in Squares, NEW total \in Squares, NEW removed \in Squares, removed[1] # 0,
         Growth(total, removed) \in Squares
  PROVE  Expanded(e2, total, removed) \in Squares /\ Same(Expanded(e2, total, removed), Times(e2, Growth(total, removed)))
<1> DEFINE r2 == removed[2]
           t1 == total[1]
           left == total[1] * removed[2] - removed[1] * total[2]
           e1 == e2[1]
           d == e2[2]
<1>1. /\ r2 \in Int /\ t1 \in Int /\ t1 * r2 \in Int /\ t1 * r2 >= 0 /\ left \in Int /\ left > 0
      /\ e1 \in Int /\ e1 >= 0 /\ d \in Int /\ d > 0
  BY Parts DEF Growth
<1>2. Expanded(e2, total, removed) = Reduced(<<e1 * t1 * r2, d * left>>)
  BY DEF Expanded
<1>3. Times(e2, Growth(total, removed)) = <<e1 * (t1 * r2), d * left>>
  BY DEF Times, Growth
<1> HIDE DEF r2, t1, left, e1, d
<1>4. e1 * t1 * r2 = e1 * (t1 * r2)
  BY <1>1
<1>5. e1 * (t1 * r2) \in Int /\ e1 * (t1 * r2) >= 0 /\ d * left \in Int /\ d * left > 0
  BY <1>1, NaturalProduct, PositiveProduct
<1> DEFINE n == e1 * (t1 * r2)
           m == d * left
<1>6. Reduced(<<n, m>>) \in Squares /\ Same(Reduced(<<n, m>>), <<n, m>>)
  <2> HIDE DEF n, m
  <2>1. n \in Int /\ m \in Int /\ n >= 0 /\ m > 0
    BY <1>5 DEF n, m
  <2> QED  BY <2>1, ReducedType, ReducedSame
<1> QED  BY <1>2, <1>3, <1>4, <1>6

LEMMA TimesPlus ==
  ASSUME NEW a \in Fractions, NEW b \in Fractions, NEW k \in Fractions
  PROVE  Same(Plus(Times(a, k), Times(b, k)), Times(Plus(a, b), k))
<1> DEFINE a1 == a[1] a2 == a[2] b1 == b[1] b2 == b[2] k1 == k[1] k2 == k[2]
<1>1. a1 \in Int /\ a2 \in Int /\ b1 \in Int /\ b2 \in Int /\ k1 \in Int /\ k2 \in Int
  BY Parts
<1>2. Same(Plus(Times(a, k), Times(b, k)), Times(Plus(a, b), k)) <=>
        ((a1 * k1) * (b2 * k2) + (b1 * k1) * (a2 * k2)) * ((a2 * b2) * k2)
          = ((a1 * b2 + b1 * a2) * k1) * ((a2 * k2) * (b2 * k2))
  BY DEF Same, Plus, Times
<1> HIDE DEF a1, a2, b1, b2, k1, k2
<1>3. ((a1 * k1) * (b2 * k2) + (b1 * k1) * (a2 * k2)) * ((a2 * b2) * k2)
          = ((a1 * b2 + b1 * a2) * k1) * ((a2 * k2) * (b2 * k2))
  BY <1>1
<1> QED  BY <1>2, <1>3

\* A sum of errors that have all grown by k.
LEMMA GrownSums ==
  ASSUME NEW f, NEW g, NEW k \in Squares, NEW S, IsFiniteSet(S),
         \A s \in S : f[s] \in Squares /\ g[s] \in Squares /\ Same(g[s], Times(f[s], k))
  PROVE  Same(SumFractions(g, S), Times(SumFractions(f, S), k))
<1> DEFINE B == {T \in SUBSET S : ~Same(SumFractions(g, T), Times(SumFractions(f, T), k))}
<1>1. SUFFICES ASSUME B # {} PROVE FALSE
  OBVIOUS
<1>2. PICK T \in B : \A u \in B : u \subseteq T => u = T
  <2>1. B \in SUBSET SUBSET S
    OBVIOUS
  <2> HIDE DEF B
  <2> QED  BY <1>1, <2>1, SmallestSubset
<1>3. T # {} /\ Pick(T) \in T
  <2>1. Same(Whole(0), Times(Whole(0), k))
    <3>1. k[1] \in Int /\ k[2] \in Int
      BY Parts
    <3> QED  BY <3>1 DEF Same, Times, Whole
  <2>2. SumFractions(f, {}) = Whole(0) /\ SumFractions(g, {}) = Whole(0)
    BY FractionsEmpty
  <2>3. {} \notin B
    BY <2>1, <2>2
  <2> QED  BY <1>2, <2>3, PickIn
<1> DEFINE p == Pick(T)
           x == SumFractions(f, T \ {p})
           y == SumFractions(g, T \ {p})
<1>4. Same(y, Times(x, k))
  BY <1>2, <1>3
<1>5. SumFractions(f, T) = Plus(f[p], x) /\ SumFractions(g, T) = Plus(g[p], y)
  BY <1>3, FractionsUnrolled, FS_Subset
<1>6. x \in Fractions /\ y \in Fractions /\ k \in Fractions
  <2>1. T \ {p} \in SUBSET S /\ IsFiniteSet(T \ {p})
    BY FS_Subset
  <2> QED  BY <2>1, FractionSum, Parts
<1>7. f[p] \in Fractions /\ g[p] \in Fractions /\ Same(g[p], Times(f[p], k))
  BY <1>3, Parts
<1> HIDE DEF p, x, y
<1>8. Times(x, k) \in Fractions /\ Times(f[p], k) \in Fractions
  BY <1>6, <1>7, FractionTypes
<1>9. Same(Plus(g[p], y), Plus(Times(f[p], k), Times(x, k)))
  BY <1>4, <1>6, <1>7, <1>8, SamePlus
<1>10. Same(Plus(Times(f[p], k), Times(x, k)), Times(Plus(f[p], x), k))
  BY <1>6, <1>7, TimesPlus
<1>11. /\ Plus(g[p], y) \in Fractions /\ Plus(Times(f[p], k), Times(x, k)) \in Fractions
       /\ Times(Plus(f[p], x), k) \in Fractions
  BY <1>6, <1>7, <1>8, FractionTypes
<1>12. Same(Plus(g[p], y), Times(Plus(f[p], x), k))
  BY <1>9, <1>10, <1>11, SameEquivalence
<1>13. Same(SumFractions(g, T), Times(SumFractions(f, T), k))
  BY <1>5, <1>12, Zenon
<1> QED  BY <1>2, <1>13

\* What is left grows to what there was.
LEMMA GrowthOfRest ==
  ASSUME NEW r \in Squares, NEW s \in Squares
  PROVE  Same(Times(s, Growth(Plus(r, s), r)), Plus(r, s))
<1> DEFINE r1 == r[1] r2 == r[2] s1 == s[1] s2 == s[2]
           t1 == r1 * s2 + s1 * r2
           t2 == r2 * s2
<1>1. r1 \in Int /\ r2 \in Int /\ s1 \in Int /\ s2 \in Int
  BY Parts
<1>2. Same(Times(s, Growth(Plus(r, s), r)), Plus(r, s)) <=>
        (s1 * (t1 * r2)) * t2 = t1 * (s2 * (t1 * r2 - r1 * t2))
  BY DEF Same, Plus, Times, Growth
<1> HIDE DEF r1, r2, s1, s2
<1>3. t1 * r2 - r1 * t2 = s1 * (r2 * r2)
  BY <1>1
<1>4. (s1 * (t1 * r2)) * t2 = t1 * (s2 * (s1 * (r2 * r2)))
  BY <1>1
<1> QED  BY <1>2, <1>3, <1>4, Zenon

ErrorsIn(b) == [p \in Procs |-> Errors(p)[b]]

LEMMA SumErrorsOf ==
  ASSUME Typed, NEW b \in Bins(cuts)
  PROVE  /\ \A p \in Procs : ErrorsIn(b)[p] = Errors(p)[b] /\ ErrorsIn(b)[p] \in Squares
         /\ \A S \in SUBSET Procs : /\ IsFiniteSet(S) /\ SumErrors(S, b) = SumFractions(ErrorsIn(b), S)
                                    /\ SumErrors(S, b) \in Squares
<1>1. \A p \in Procs : ErrorsIn(b)[p] = Errors(p)[b] /\ ErrorsIn(b)[p] \in Squares
  BY Computed DEF ErrorsIn
<1>2. ASSUME NEW S \in SUBSET Procs
      PROVE  /\ IsFiniteSet(S) /\ SumErrors(S, b) = SumFractions(ErrorsIn(b), S)
             /\ SumErrors(S, b) \in Squares
  <2> DEFINE g == [p \in S |-> Errors(p)[b]]
  <2>1. IsFiniteSet(S)
    BY BinsAssumption, FS_Subset
  <2>2. \A p \in S : g[p] = ErrorsIn(b)[p] /\ g[p] \in Squares
    BY <1>1
  <2>3. SumErrors(S, b) = SumFractions(g, S)
    BY DEF SumErrors
  <2> HIDE DEF g
  <2>4. SumFractions(g, S) = SumFractions(ErrorsIn(b), S) /\ SumFractions(g, S) \in Squares
    BY <2>1, <2>2, FractionsEqual, FractionSum
  <2> QED  BY <2>1, <2>3, <2>4, Zenon
<1> QED  BY <1>1, <1>2

\* What was removed is the sum of the errors of those that are gone.
LEMMA RemovalCounts ==
  ASSUME Typed, NEW b \in Bins(cuts), NEW M \in SUBSET Procs, NEW f, NEW total,
         NEW address, \A p \in M : address[p] \in Int
  PROVE  Removal(f, M, total, b, address).removed = SumErrors(Removal(f, M, total, b, address).gone, b)
<1> DEFINE k == RemovalOf(f, M, total, b, address)
           Good(L, T) == L.gone \subseteq T /\ L.removed = SumErrors(L.gone, b)
           B == {T \in SUBSET M : ~Good(Fold(k, T), T)}
<1>1. IsFiniteSet(M) /\ Chooses(k, M)
  <2>1. \A s \in SUBSET M : s # {} => LastOf(s, b, address) \in s
    BY LastIn
  <2>2. \A s : Choice(k, s) = LastOf(s, b, address)
    BY DEF Choice, RemovalOf
  <2> QED  BY <2>1, <2>2, BinsAssumption, FS_Subset DEF Chooses
<1>2. B = {}
  <2>1. SUFFICES ASSUME B # {} PROVE FALSE
    OBVIOUS
  <2>2. PICK T \in B : \A u \in B : u \subseteq T => u = T
    <3>1. B \in SUBSET SUBSET M
      OBVIOUS
    <3> HIDE DEF B
    <3> QED  BY <1>1, <2>1, <3>1, SmallestSubset
  <2>3. T # {}
    <3>1. Fold(k, {}) = Nothing
      <4>1. Start(k) = Nothing
        BY DEF Start, RemovalOf
      <4> QED  BY <4>1, FoldEmpty
    <3>2. Good(Nothing, {})
      BY FractionsEmpty DEF Nothing, SumErrors
    <3>3. {} \notin B
      BY <3>1, <3>2, Zenon
    <3> QED  BY <2>2, <3>3
  <2> DEFINE e == Choice(k, T)
             L == Fold(k, T \ {e})
  <2>4. e \in T /\ Good(L, T \ {e})
    BY <1>1, <2>2, <2>3 DEF Chooses
  <2>5. Fold(k, T) = Step(k, e, L)
    <3>1. IsFiniteSet(T) /\ Chooses(k, T)
      BY <1>1, FS_Subset DEF Chooses
    <3> HIDE DEF k
    <3> QED  BY <2>3, <3>1, FoldUnrolled
  <2>6. Step(k, e, L) = Visit(f, M, e, L, total, b, address)
    <3> HIDE DEF e, L
    <3> QED  BY DEF Step, RemovalOf
  <2>7. e \in Procs /\ Errors(e)[b] \in Squares /\ T \in SUBSET Procs
    BY <2>4, Computed
  <2> HIDE DEF e, L, k
  <2>8. Good(Visit(f, M, e, L, total, b, address), T)
    <3>1. CASE Removable(f, M, e, total, L.removed, b, address)
      <4> DEFINE G == L.gone \cup {e}
      <4>1. Visit(f, M, e, L, total, b, address) = [gone |-> G, removed |-> Plus(L.removed, Errors(e)[b])]
        BY <3>1 DEF Visit
      <4>2. G \subseteq T /\ G \in SUBSET Procs /\ G \ {e} = L.gone /\ L.gone \in SUBSET Procs /\ e \in G
        BY <2>4, <2>7
      <4>3. /\ IsFiniteSet(G) /\ SumErrors(G, b) = SumFractions(ErrorsIn(b), G)
            /\ SumErrors(L.gone, b) = SumFractions(ErrorsIn(b), L.gone) /\ SumErrors(L.gone, b) \in Squares
            /\ ErrorsIn(b)[e] = Errors(e)[b] /\ \A p \in G : ErrorsIn(b)[p] \in Squares
        BY <2>7, <4>2, SumErrorsOf
      <4> HIDE DEF G
      <4>4. SumFractions(ErrorsIn(b), G) = Plus(ErrorsIn(b)[e], SumFractions(ErrorsIn(b), G \ {e}))
        BY <4>2, <4>3, FractionsTake
      <4>5. SumErrors(G, b) = Plus(Errors(e)[b], L.removed)
        BY <2>4, <4>2, <4>3, <4>4, Zenon
      <4>6. Plus(Errors(e)[b], L.removed) = Plus(L.removed, Errors(e)[b])
        BY <2>4, <2>7, <4>3, Parts, PlusMonoid
      <4> QED  BY <4>1, <4>2, <4>5, <4>6
    <3>2. CASE ~Removable(f, M, e, total, L.removed, b, address)
      <4>1. Visit(f, M, e, L, total, b, address) = L
        BY <3>2 DEF Visit
      <4> QED  BY <2>4, <4>1
    <3> QED  BY <3>1, <3>2
  <2> QED  BY <2>2, <2>5, <2>6, <2>8
<1>3. Good(Fold(k, M), M)
  BY <1>2
<1>4. Removal(f, M, total, b, address) = Fold(k, M)
  BY RemovalIsFold
<1> QED  BY <1>3, <1>4

LEMMA LessOrNot ==
  ASSUME NEW a \in Fractions, NEW b \in Fractions, NEW c \in Fractions, Less(a, b), ~Less(c, b)
  PROVE  Less(a, c)
<1>1. ~Less(a, c) => ~Less(a, b)
  <2>1. SUFFICES ASSUME ~Less(a, c) PROVE ~Less(a, b)
    OBVIOUS
  <2> QED  BY <2>1, NotLessTransitive
<1> QED  BY <1>1

\* Errors that grow do not get smaller.
LEMMA GrownNotLess ==
  ASSUME NEW e \in Squares, NEW total \in Squares, NEW removed \in Squares, Growth(total, removed) \in Squares,
         NEW m \in Squares, Same(m, Times(e, Growth(total, removed)))
  PROVE  ~Less(m, e)
<1> DEFINE k == Growth(total, removed)
           k1 == total[1] * removed[2]
           r == removed[1] * total[2]
           e1 == e[1]
           d == e[2]
<1>1. /\ e1 \in Int /\ e1 >= 0 /\ d \in Int /\ d > 0 /\ k1 \in Int /\ r \in Int /\ r >= 0 /\ k1 - r > 0
  <2>1. k = <<k1, k1 - r>>
    BY DEF Growth
  <2>2. k1 \in Int /\ k1 - r > 0
    BY <2>1, Parts
  <2>3. r \in Int /\ r >= 0
    BY Parts, NaturalProduct
  <2> QED  BY <2>2, <2>3, Parts
<1>2. Less(Times(e, k), e) <=> (e1 * k1) * d < e1 * (d * (k1 - r))
  BY DEF Less, Times, Growth
<1>3. m \in Fractions /\ e \in Fractions /\ Times(e, k) \in Fractions
  BY Parts, FractionTypes
<1> DEFINE y == Times(e, k)
<1>4. ~Less(m, y)
  <2>1. m[1] * y[2] \in Int /\ m[1] * y[2] = y[1] * m[2]
    BY <1>3, Parts DEF Same
  <2> HIDE DEF y
  <2> QED  BY <2>1 DEF Less
<1> HIDE DEF k, k1, r, e1, d
<1>5. (e1 * k1) * d = e1 * (d * (k1 - r)) + (e1 * d) * r
  BY <1>1
<1>6. (e1 * d) * r \in Int /\ (e1 * d) * r >= 0 /\ e1 * (d * (k1 - r)) \in Int
  <2>1. e1 * d \in Int /\ e1 * d >= 0
    BY <1>1, NaturalProduct
  <2>2. k1 - r \in Int /\ d * (k1 - r) \in Int
    BY <1>1
  <2> QED  BY <1>1, <2>1, <2>2, NaturalProduct
<1>7. ~((e1 * k1) * d < e1 * (d * (k1 - r)))
  <2> DEFINE i == e1 * (d * (k1 - r))
             j == (e1 * d) * r
  <2>1. i \in Int /\ j \in Int /\ j >= 0 /\ (e1 * k1) * d = i + j
    BY <1>5, <1>6
  <2> HIDE DEF i, j
  <2>2. ~((e1 * k1) * d < i)
    BY <2>1
  <2> QED  BY <2>2 DEF i
<1>8. ~Less(y, e)
  BY <1>2, <1>7
<1> HIDE DEF y
<1>9. y \in Fractions
  BY <1>3 DEF y
<1> QED  BY <1>3, <1>4, <1>8, <1>9, NotLessTransitive

\* Processes of P whose errors in the bin b may be merged and may grow.
Growing(f, P, b) == {p \in Merging(f, P, b) : CanExpand(f, p, b)}

\* Which of them are gone, and what becomes of the others, keep all sums of errors that they are in.
LEMMA MergedParts ==
  ASSUME Typed, NEW f \in Factories, NEW P \in SUBSET Procs, NEW b \in Bins(cuts),
         NEW address \in [P -> 1..Cardinality(P)]
  PROVE  \E G \in SUBSET Growing(f, P, b) :
           /\ \A p \in G : MergedErrors(f, P, b, address)[p] = Whole(0)
           /\ \A p \in Procs \ Growing(f, P, b) : MergedErrors(f, P, b, address)[p] = Errors(p)[b]
           /\ \A p \in Growing(f, P, b) \ G : ~Less(MergedErrors(f, P, b, address)[p], Errors(p)[b])
           /\ \A A \in SUBSET Procs : Growing(f, P, b) \subseteq A =>
                Same(SumFractions(MergedErrors(f, P, b, address), A \ G), SumErrors(A, b))
<1> DEFINE M == Merging(f, P, b)
           E == {p \in M : CanExpand(f, p, b)}
           total == SumErrors(E, b)
           L == Removal(f, M, total, b, address)
           G == L.gone
           merged == MergedErrors(f, P, b, address)
           e == ErrorsIn(b)
           r == SumFractions(e, G)
           s == SumFractions(e, E \ G)
<1>1. M \subseteq P /\ M \in SUBSET Procs /\ E \in SUBSET Procs /\ E = Growing(f, P, b)
  BY DEF Merging, Growing
<1>2. /\ \A p \in Procs : e[p] = Errors(p)[b] /\ e[p] \in Squares
      /\ \A S \in SUBSET Procs : /\ IsFiniteSet(S) /\ SumErrors(S, b) = SumFractions(e, S)
                                 /\ SumErrors(S, b) \in Squares
  BY SumErrorsOf
<1>3. \A p \in M : address[p] \in Int
  BY <1>1
<1>4. Removing(L, f, E, total)
  <2> HIDE DEF M, total
  <2> QED  BY <1>1, <1>3, RemovalSound
<1>5. L.removed = SumErrors(G, b)
  <2> HIDE DEF M, total
  <2> QED  BY <1>1, <1>3, RemovalCounts
<1>6. merged =
        [p \in Procs |-> CASE p \in G -> Whole(0)
                           [] p \in E \ G -> Expanded(Errors(p)[b], total, L.removed)
                           [] OTHER -> Errors(p)[b]]
  BY DEF MergedErrors
<1>7. merged \in [Procs -> Squares]
  BY MergedType
<1>8. f.merge \in Squares /\ f.merge[1] <= f.merge[2]
  BY SettingsAssumption
<1>9. G \subseteq E /\ G \in SUBSET Procs /\ E \ G \in SUBSET Procs
  BY <1>1, <1>4 DEF Removing
<1>10. /\ total = SumFractions(e, E) /\ L.removed = r /\ total \in Squares /\ r \in Squares /\ s \in Squares
       /\ r[1] = 0 \/ Less(r, Times(f.merge, total))
  <2>1. total = SumFractions(e, E) /\ total \in Squares
    BY <1>1, <1>2
  <2>2. SumErrors(G, b) = r /\ r \in Squares
    BY <1>2, <1>9
  <2>3. s \in Squares
    BY <1>2, <1>9
  <2> QED  BY <1>4, <1>5, <2>1, <2>2, <2>3 DEF Removing
<1> HIDE DEF M, L, G, merged, e, total
<1>11. total = Plus(r, s)
  <2>1. IsFiniteSet(E) /\ \A p \in E : e[p] \in Squares
    BY <1>1, <1>2
  <2> HIDE DEF E
  <2> QED  BY <1>9, <1>10, <2>1, FractionsParts
<1>12. \A p \in G : merged[p] = Whole(0)
  BY <1>6, <1>9
<1>13. \A p \in Procs \ E : merged[p] = e[p]
  BY <1>2, <1>6, <1>9
<1>14. \A p \in E \ G : merged[p] = Expanded(e[p], total, r)
  <2>1. \A p \in E \ G : p \in Procs /\ p \notin G
    BY <1>1
  <2> QED  BY <1>2, <1>6, <1>10, <2>1
<1> HIDE DEF E, r, s
<1>15. \A S \in SUBSET Procs : /\ IsFiniteSet(S) /\ SumFractions(e, S) \in Squares /\ SumFractions(e, S) \in Fractions
                               /\ SumFractions(merged, S) \in Squares /\ SumFractions(merged, S) \in Fractions
                               /\ \A p \in S : e[p] \in Squares /\ merged[p] \in Squares
  BY <1>2, <1>7, FractionSum, Parts
<1>16. ASSUME r[1] = 0
       PROVE  /\ \A p \in E \ G : ~Less(merged[p], e[p])
              /\ Same(SumFractions(merged, E \ G), total)
  <2>1. \A p \in E \ G : merged[p] = e[p]
    BY <1>14, <1>16 DEF Expanded
  <2>2. \A p \in E \ G : ~Less(merged[p], e[p])
    <3>1. \A p \in E \ G : e[p][1] \in Int /\ e[p][2] \in Int
      BY <1>9, <1>15, Parts
    <3> QED  BY <2>1, <3>1 DEF Less
  <2>3. SumFractions(merged, E \ G) = s
    BY <1>9, <1>15, <2>1, FractionsEqual DEF s
  <2>4. Same(Plus(Whole(0), s), Plus(r, s))
    <3>1. Same(Whole(0), r) /\ Same(s, s)
      <4>1. Same(Whole(0), r)
        BY <1>10, <1>16, Parts DEF Same, Whole
      <4> QED  BY <1>10, <4>1, Parts, SameEquivalence
    <3> QED  BY <1>10, <3>1, Parts, FractionTypes, SamePlus
  <2>5. Plus(Whole(0), s) = s
    BY <1>10, Parts, PlusMonoid
  <2> QED  BY <1>11, <2>2, <2>3, <2>4, <2>5
<1>17. ASSUME r[1] # 0
       PROVE  /\ \A p \in E \ G : ~Less(merged[p], e[p])
              /\ Same(SumFractions(merged, E \ G), total)
  <2> DEFINE k == Growth(total, r)
  <2>1. k \in Squares
    BY <1>8, <1>10, <1>17, GrowthType
  <2>2. \A p \in E \ G : merged[p] \in Squares /\ e[p] \in Squares /\ Same(merged[p], Times(e[p], k))
    BY <1>9, <1>10, <1>14, <1>15, <1>17, <2>1, ExpandedSame
  <2>3. \A p \in E \ G : ~Less(merged[p], e[p])
    BY <1>10, <2>1, <2>2, GrownNotLess
  <2>4. Same(Times(s, k), total)
    BY <1>10, <1>11, GrowthOfRest
  <2> HIDE DEF k
  <2>5. Same(SumFractions(merged, E \ G), Times(s, k))
    BY <1>9, <1>15, <2>1, <2>2, GrownSums DEF s
  <2>6. SumFractions(merged, E \ G) \in Fractions /\ Times(s, k) \in Fractions /\ total \in Fractions
    BY <1>9, <1>10, <1>15, <2>1, Parts, FractionTypes
  <2>7. Same(SumFractions(merged, E \ G), total)
    BY <2>4, <2>5, <2>6, SameEquivalence
  <2> QED  BY <2>3, <2>7
<1>18. ASSUME NEW A \in SUBSET Procs, E \subseteq A
       PROVE  Same(SumFractions(merged, A \ G), SumErrors(A, b))
  <2> DEFINE rest == SumFractions(e, A \ E)
  <2>1. SumFractions(merged, A \ G) = Plus(SumFractions(merged, E \ G), SumFractions(merged, A \ E))
    <3>1. A \ G \in SUBSET Procs /\ E \ G \in SUBSET (A \ G) /\ (A \ G) \ (E \ G) = A \ E
      BY <1>9, <1>18
    <3>2. IsFiniteSet(A \ G) /\ \A p \in A \ G : merged[p] \in Squares
      BY <1>15, <3>1
    <3>3. SumFractions(merged, A \ G)
            = Plus(SumFractions(merged, E \ G), SumFractions(merged, (A \ G) \ (E \ G)))
      BY <3>1, <3>2, FractionsParts
    <3> QED  BY <3>1, <3>3, Zenon
  <2>2. SumFractions(merged, A \ E) = rest
    <3>1. A \ E \in SUBSET Procs /\ \A p \in A \ E : merged[p] = e[p]
      BY <1>13
    <3> QED  BY <1>15, <3>1, FractionsEqual
  <2>3. SumErrors(A, b) = Plus(total, rest)
    <3>1. IsFiniteSet(A) /\ E \in SUBSET A /\ \A p \in A : e[p] \in Squares
      BY <1>15, <1>18
    <3>2. SumFractions(e, A) = Plus(SumFractions(e, E), rest)
      BY <3>1, FractionsParts
    <3> QED  BY <1>2, <1>10, <3>2
  <2>4. rest \in Fractions /\ SumFractions(merged, E \ G) \in Fractions /\ total \in Fractions
    <3>1. A \ E \in SUBSET Procs
      OBVIOUS
    <3> QED  BY <1>9, <1>10, <1>15, <3>1, Parts
  <2> HIDE DEF rest
  <2>5. Same(SumFractions(merged, E \ G), total) /\ Same(rest, rest)
    BY <1>10, <1>16, <1>17, <2>4, SameEquivalence
  <2>6. Same(Plus(SumFractions(merged, E \ G), rest), Plus(total, rest))
    BY <2>4, <2>5, SamePlus
  <2> QED  BY <2>1, <2>2, <2>3, <2>6, Zenon
<1>19. /\ \A p \in Procs \ E : merged[p] = Errors(p)[b]
       /\ \A p \in E \ G : ~Less(merged[p], Errors(p)[b])
  BY <1>1, <1>2, <1>13, <1>16, <1>17
<1> QED
  <2> DEFINE X(H) == /\ \A p \in H : merged[p] = Whole(0)
                     /\ \A p \in Procs \ E : merged[p] = Errors(p)[b]
                     /\ \A p \in E \ H : ~Less(merged[p], Errors(p)[b])
                     /\ \A A \in SUBSET Procs : E \subseteq A => Same(SumFractions(merged, A \ H), SumErrors(A, b))
  <2>1. X(G) /\ G \in SUBSET E
    BY <1>9, <1>12, <1>18, <1>19
  <2>2. \E H \in SUBSET E : X(H)
    <3> HIDE DEF X
    <3> QED  BY <2>1
  <2> QED  BY <1>1, <2>2 DEF merged

\* Between processes of P, errors only move.
LEMMA MergedSums ==
  ASSUME Typed, NEW f \in Factories, NEW P \in SUBSET Procs, NEW b \in Bins(cuts),
         NEW address \in [P -> 1..Cardinality(P)]
  PROVE  Same(SumFractions(MergedErrors(f, P, b, address), P), SumErrors(P, b))
<1> DEFINE merged == MergedErrors(f, P, b, address)
<1>1. PICK G \in SUBSET Growing(f, P, b) :
           /\ \A p \in G : merged[p] = Whole(0)
           /\ \A A \in SUBSET Procs : Growing(f, P, b) \subseteq A =>
                Same(SumFractions(merged, A \ G), SumErrors(A, b))
  BY MergedParts, Zenon
<1>2. Growing(f, P, b) \subseteq P /\ G \in SUBSET P
  BY DEF Growing, Merging
<1>3. merged \in [Procs -> Squares]
  BY MergedType
<1> HIDE DEF merged
<1>4. /\ IsFiniteSet(P) /\ IsFiniteSet(G) /\ IsFiniteSet(P \ G)
      /\ (\A p \in P : merged[p] \in Squares) /\ SumErrors(P, b) \in Fractions
  BY <1>2, <1>3, BinsAssumption, FS_Subset, SumErrorsOf, Parts
<1>5. SumFractions(merged, P) = Plus(SumFractions(merged, G), SumFractions(merged, P \ G))
  BY <1>2, <1>4, FractionsParts
<1> DEFINE x == SumFractions(merged, G)
           y == SumFractions(merged, P \ G)
           zero == [p \in G |-> Whole(0)]
<1>6. x \in Fractions /\ y \in Fractions
  BY <1>2, <1>4, FractionSum, Parts
<1>7. Same(x, Whole(0))
  <2>1. SumFractions(zero, G) = Whole(0)
    <3> DEFINE B == {T \in SUBSET G : SumFractions(zero, T) # Whole(0)}
    <3>1. SUFFICES ASSUME B # {} PROVE FALSE
      OBVIOUS
    <3>2. PICK T \in B : \A u \in B : u \subseteq T => u = T
      <4>1. B \in SUBSET SUBSET G
        OBVIOUS
      <4> HIDE DEF B
      <4> QED  BY <1>4, <3>1, <4>1, SmallestSubset
    <3>3. T # {} /\ Pick(T) \in T
      BY <3>2, FractionsEmpty, PickIn
    <3>4. SumFractions(zero, T \ {Pick(T)}) = Whole(0)
      BY <3>2, <3>3
    <3>5. SumFractions(zero, T) = Plus(zero[Pick(T)], SumFractions(zero, T \ {Pick(T)}))
      BY <1>4, <3>3, FractionsUnrolled, FS_Subset
    <3>6. zero[Pick(T)] = Whole(0)
      BY <3>2, <3>3
    <3>7. Plus(Whole(0), Whole(0)) = Whole(0)
      BY FractionTypes, PlusMonoid
    <3> QED  BY <3>2, <3>4, <3>5, <3>6, <3>7, Zenon
  <2>2. x = SumFractions(zero, G)
    <3>1. \A p \in G : merged[p] = zero[p]
      BY <1>1
    <3> HIDE DEF zero
    <3> QED  BY <1>4, <3>1, FractionsEqual
  <2> QED  BY <2>1, <2>2, FractionTypes, SameEquivalence
<1>8. Same(y, SumErrors(P, b))
  BY <1>1, <1>2
<1> HIDE DEF x, y, zero
<1>9. Same(Plus(x, y), Plus(Whole(0), SumErrors(P, b)))
  BY <1>4, <1>6, <1>7, <1>8, FractionTypes, SamePlus
<1>10. Plus(Whole(0), SumErrors(P, b)) = SumErrors(P, b)
  BY <1>4, PlusMonoid
<1> QED  BY <1>5, <1>9, <1>10, Zenon DEF x, y, merged

\* Merging, with the errors it leaves.
LEMMA MergeWith ==
  ASSUME Typed, NEW f \in Factories, NEW P \in SUBSET Procs, Merge(f, P)
  PROVE  \E address \in [P -> 1..Cardinality(P)] :
           /\ \A p \in P : /\ proc'[p].rate = proc[p].rate /\ proc'[p].v = Nominal(p)
                           /\ proc'[p].e2 \in [Bins(cuts) -> Squares]
                           /\ \A b \in Bins(cuts) : proc'[p].e2[b] = MergedErrors(f, P, b, address)[p]
           /\ \A p \in Procs \ P : proc'[p] = proc[p]
<1>1. PICK address \in [P -> 1..Cardinality(P)] :
        proc' = [p \in Procs |-> IF p \in P
                  THEN [rate |-> proc[p].rate, v |-> Nominal(p),
                        e2 |-> [b \in Bins(cuts) |-> [c \in Bins(cuts) |-> MergedErrors(f, P, c, address)][b][p]]]
                  ELSE proc[p]]
  BY DEF Merge
<1>2. \A b \in Bins(cuts) : MergedErrors(f, P, b, address) \in [Procs -> Squares]
  BY MergedType
<1>3. ASSUME NEW p \in P
      PROVE  /\ proc'[p].rate = proc[p].rate /\ proc'[p].v = Nominal(p)
             /\ proc'[p].e2 \in [Bins(cuts) -> Squares]
             /\ \A b \in Bins(cuts) : proc'[p].e2[b] = MergedErrors(f, P, b, address)[p]
  <2> DEFINE e == [b \in Bins(cuts) |-> [c \in Bins(cuts) |-> MergedErrors(f, P, c, address)][b][p]]
  <2>1. proc'[p] = [rate |-> proc[p].rate, v |-> Nominal(p), e2 |-> e]
    BY <1>1
  <2>2. \A b \in Bins(cuts) : e[b] = MergedErrors(f, P, b, address)[p]
    OBVIOUS
  <2>3. e \in [Bins(cuts) -> Squares]
    BY <1>2
  <2> HIDE DEF e
  <2> QED  BY <2>1, <2>2, <2>3
<1>4. \A p \in Procs \ P : proc'[p] = proc[p]
  BY <1>1
<1> QED  BY <1>3, <1>4

\* Errors above the threshold are not zero.
LEMMA AbovePositive ==
  ASSUME NEW f \in Factories, NEW v \in Int, NEW e2 \in Squares, Above(f, v, e2)
  PROVE  e2[1] > 0
<1>1. CASE v = 0
  BY <1>1 DEF Above
<1>2. CASE v # 0
  <2>1. v > 0 /\ Less(Times(f.add, Whole(v * v)), e2)
    BY <1>2 DEF Above
  <2> DEFINE a1 == f.add[1]
             a2 == f.add[2]
             n == e2[1]
             d == e2[2]
             w == v * v
  <2>2. a1 \in Int /\ a1 >= 0 /\ a2 \in Int /\ a2 > 0 /\ n \in Int /\ n >= 0 /\ d \in Int /\ d > 0
    BY SettingsAssumption, Parts
  <2>3. w \in Int /\ w >= 0
    BY <2>1, NaturalProduct
  <2>4. (a1 * w) * d < n * (a2 * 1)
    BY <2>1 DEF Less, Times, Whole
  <2> HIDE DEF a1, a2, n, d, w
  <2>5. (a1 * w) * d \in Int /\ (a1 * w) * d >= 0
    <3>1. a1 * w \in Int /\ a1 * w >= 0
      BY <2>2, <2>3, NaturalProduct
    <3> QED  BY <2>2, <3>1, NaturalProduct
  <2>6. n # 0
    <3>1. SUFFICES ASSUME n = 0 PROVE FALSE
      OBVIOUS
    <3>2. n * (a2 * 1) = 0
      BY <2>2, <3>1
    <3> QED  BY <2>4, <2>5, <3>2
  <2> QED  BY <2>2, <2>6 DEF n
<1> QED  BY <1>1, <1>2

\* Errors above the threshold stay there when they grow.
LEMMA AboveGrown ==
  ASSUME NEW f \in Factories, NEW v \in Int, NEW e2 \in Squares, NEW m \in Squares, Above(f, v, e2), ~Less(m, e2)
  PROVE  Above(f, v, m)
<1>1. CASE v = 0
  <2>1. e2[1] > 0 /\ e2[1] \in Int /\ e2[2] \in Int /\ e2[2] > 0 /\ m[1] \in Int /\ m[1] >= 0 /\ m[2] \in Int /\ m[2] > 0
    BY <1>1, Parts DEF Above
  <2>2. e2[1] * m[2] \in Int /\ e2[1] * m[2] > 0
    BY <2>1, PositiveProduct
  <2>3. ~(m[1] * e2[2] < e2[1] * m[2])
    BY DEF Less
  <2>4. m[1] # 0
    BY <2>1, <2>2, <2>3
  <2> QED  BY <1>1, <2>1, <2>4 DEF Above
<1>2. CASE v # 0
  <2>1. v > 0 /\ Less(Times(f.add, Whole(v * v)), e2)
    BY <1>2 DEF Above
  <2>2. Times(f.add, Whole(v * v)) \in Fractions /\ e2 \in Fractions /\ m \in Fractions
    <3>1. v * v \in Int
      OBVIOUS
    <3>2. f.add \in Fractions
      BY SettingsAssumption, Parts
    <3> QED  BY <3>1, <3>2, Parts, FractionTypes
  <2>3. Less(Times(f.add, Whole(v * v)), m)
    BY <2>1, <2>2, LessOrNot
  <2> QED  BY <2>1, <2>3 DEF Above
<1> QED  BY <1>1, <1>2

\* The nuisances of a bin are for the errors above the threshold, as far as
\* these were not merged into others.
LEMMA AddedFor ==
  ASSUME Typed, NEW f \in Factories, NEW P \in SUBSET Procs, MergeAndAdd(f, P),
         \A p \in P : ~Skipped(f, p), NEW b \in Bins(cuts)
  PROVE  LET made == {p \in P : <<p, b>> \in bbb'.of}
         IN /\ \A p \in made : proc'[p].e2[b][1] > 0
            /\ Same(SumFractions([p \in Procs |-> proc'[p].e2[b]], made),
                    SumErrors({p \in P : Above(f, Nominal(p)[b], Errors(p)[b])}, b))
<1>1. PICK address \in [P -> 1..Cardinality(P)] :
        \A p \in P : /\ proc'[p].v = Nominal(p)
                     /\ \A c \in Bins(cuts) : proc'[p].e2[c] = MergedErrors(f, P, c, address)[p]
  BY MergeWith DEF MergeAndAdd
<1> DEFINE merged == MergedErrors(f, P, b, address)
           made == {p \in P : <<p, b>> \in bbb'.of}
           A == {p \in P : Above(f, Nominal(p)[b], Errors(p)[b])}
           g == [p \in Procs |-> proc'[p].e2[b]]
<1>2. \A p \in P : proc'[p].v[b] = Nominal(p)[b] /\ proc'[p].e2[b] = merged[p]
  BY <1>1
<1>3. made = {p \in P : Above(f, Nominal(p)[b], merged[p])}
  <2>1. bbb'.of = Added(f, P, proc')
    BY DEF MergeAndAdd
  <2>2. \A p \in P : <<p, b>> \in Added(f, P, proc') <=> Above(f, proc'[p].v[b], proc'[p].e2[b])
    BY DEF Added
  <2> QED  BY <1>2, <2>1, <2>2
<1>4. PICK G \in SUBSET Growing(f, P, b) :
        /\ \A p \in G : merged[p] = Whole(0)
        /\ \A p \in Procs \ Growing(f, P, b) : merged[p] = Errors(p)[b]
        /\ \A p \in Growing(f, P, b) \ G : ~Less(merged[p], Errors(p)[b])
        /\ \A S \in SUBSET Procs : Growing(f, P, b) \subseteq S =>
             Same(SumFractions(merged, S \ G), SumErrors(S, b))
  BY MergedParts, Zenon
<1>5. \A p \in Procs : Nominal(p)[b] \in Int /\ Errors(p)[b] \in Squares /\ merged[p] \in Squares
  <2>1. \A p \in Procs : Nominal(p) \in [Bins(cuts) -> Int] /\ Errors(p) \in [Bins(cuts) -> Squares]
    BY Computed
  <2>2. merged \in [Procs -> Squares]
    BY MergedType
  <2> HIDE DEF merged
  <2> QED  BY <2>1, <2>2
<1>6. Growing(f, P, b) \subseteq A /\ A \subseteq P
  BY DEF Growing, Merging
<1> HIDE DEF merged, made, A
<1>7. made = A \ G
  <2>1. ASSUME NEW p \in P, p \in G PROVE p \notin made
    <3>1. merged[p] = Whole(0) /\ ~(Whole(0)[1] > 0)
      BY <1>4, <2>1 DEF Whole
    <3>2. ~Above(f, Nominal(p)[b], merged[p])
      BY <1>5, <3>1, AbovePositive
    <3> QED  BY <1>3, <3>2
  <2>2. ASSUME NEW p \in P, p \notin Growing(f, P, b) PROVE p \in made <=> p \in A
    BY <1>3, <1>4, <2>2 DEF A
  <2>3. ASSUME NEW p \in P, p \in Growing(f, P, b), p \notin G PROVE p \in made
    <3>1. Above(f, Nominal(p)[b], Errors(p)[b])
      BY <1>6, <2>3 DEF A
    <3>2. ~Less(merged[p], Errors(p)[b])
      BY <1>4, <2>3
    <3>3. Above(f, Nominal(p)[b], merged[p])
      BY <1>5, <3>1, <3>2, AboveGrown
    <3> QED  BY <1>3, <3>3
  <2>4. made \subseteq P
    BY <1>3
  <2> QED  BY <1>4, <1>6, <2>1, <2>2, <2>3, <2>4
<1>8. \A p \in made : g[p] = merged[p] /\ merged[p][1] > 0 /\ proc'[p].e2[b] = merged[p]
  <2>1. \A p \in made : p \in P /\ p \in Procs /\ Above(f, Nominal(p)[b], merged[p])
    BY <1>3
  <2> QED  BY <1>2, <1>5, <2>1, AbovePositive
<1> HIDE DEF g
<1>9. IsFiniteSet(made) /\ A \in SUBSET Procs
  BY <1>6, <1>7, BinsAssumption, FS_Subset
<1>10. SumFractions(g, made) = SumFractions(merged, A \ G)
  BY <1>7, <1>8, <1>9, FractionsEqual
<1>11. Same(SumFractions(merged, A \ G), SumErrors(A, b))
  BY <1>4, <1>6, <1>9
<1>12. Same(SumFractions(g, made), SumErrors(A, b))
  BY <1>10, <1>11, Zenon
<1>13. \A p \in made : proc'[p].e2[b][1] > 0
  BY <1>8
<1> QED  BY <1>12, <1>13 DEF made, A, g

LEMMA CoveredStep ==
  ASSUME Typed, [Next]_vars
  PROVE  [LET f == bbb'.settings
              P == bbb'.procs
              Made(b) == {p \in P : <<p, b>> \in bbb'.of}
          IN bbb'.on /\ P \cap lost = {} /\ (\A p \in P : ~Skipped(f, p)) =>
               \A b \in Bins(cuts) :
                 /\ \A p \in Made(b) : proc'[p].e2[b][1] > 0
                 /\ Same(SumFractions([p \in Procs |-> proc'[p].e2[b]], Made(b)),
                         SumErrors({p \in P : Above(f, Nominal(p)[b], Errors(p)[b])}, b))]_vars
<1>1. SUFFICES ASSUME Next, bbb'.on, \A p \in bbb'.procs : ~Skipped(bbb'.settings, p), NEW b \in Bins(cuts)
               PROVE  LET made == {p \in bbb'.procs : <<p, b>> \in bbb'.of}
                      IN /\ \A p \in made : proc'[p].e2[b][1] > 0
                         /\ Same(SumFractions([p \in Procs |-> proc'[p].e2[b]], made),
                                 SumErrors({p \in bbb'.procs : Above(bbb'.settings, Nominal(p)[b], Errors(p)[b])}, b))
  OBVIOUS
<1>2. \E f \in Factories : \E P \in {Procs, Backgrounds} : MergeAndAdd(f, P)
  <2>1. search.on => ~bbb.on
    BY DEF Typed, Shaped
  <2>2. ~(bbb' = bbb /\ (~bbb.on \/ search.on))
    BY <1>1, <2>1
  <2> QED  BY <1>1, <2>2 DEF Next, VariableRebin, ZeroBins, StartSearch, SearchOn, EndSearch, MergeBinErrors
<1>3. PICK f \in Factories, P \in SUBSET Procs : MergeAndAdd(f, P)
  BY <1>2, BinsAssumption
<1>4. bbb'.settings = f /\ bbb'.procs = P
  BY <1>3 DEF MergeAndAdd
<1>5. \A p \in P : ~Skipped(f, p)
  BY <1>1, <1>4
<1>6. LET made == {p \in P : <<p, b>> \in bbb'.of}
      IN /\ \A p \in made : proc'[p].e2[b][1] > 0
         /\ Same(SumFractions([p \in Procs |-> proc'[p].e2[b]], made),
                 SumErrors({p \in P : Above(f, Nominal(p)[b], Errors(p)[b])}, b))
  BY <1>3, <1>5, AddedFor
<1> QED  BY <1>4, <1>6

\* However errors are merged, the nuisances that are made for a bin cover the
\* squares of all errors that were above the threshold, and none is made
\* without an error (BinByBin.cc:42-105, 150-210).
THEOREM NuisancesCover == Spec => Covered
<1>1. Init => Typed
  BY TypedInit
<1>2. Typed /\ [Next]_vars => Typed'
  BY TypedStep
<1>3. Typed /\ [Next]_vars =>
        [LET f == bbb'.settings
             P == bbb'.procs
             Made(b) == {p \in P : <<p, b>> \in bbb'.of}
         IN bbb'.on /\ P \cap lost = {} /\ (\A p \in P : ~Skipped(f, p)) =>
              \A b \in Bins(cuts) :
                /\ \A p \in Made(b) : proc'[p].e2[b][1] > 0
                /\ Same(SumFractions([p \in Procs |-> proc'[p].e2[b]], Made(b)),
                        SumErrors({p \in P : Above(f, Nominal(p)[b], Errors(p)[b])}, b))]_vars
  BY CoveredStep
<1> QED  BY <1>1, <1>2, <1>3, PTL DEF Spec, Covered

-----------------------------------------------------------------------------
(* Errors that move.                                                       *)

LEMMA SumSigns ==
  ASSUME NEW f, NEW S, IsFiniteSet(S), \A s \in S : f[s] \in Int
  PROVE  /\ (\A s \in S : f[s] <= 0) => SumFunctionOnSet(f, S) <= 0
         /\ (\A s \in S : f[s] = 0) => SumFunctionOnSet(f, S) = 0
<1> DEFINE Good(T) == /\ (\A s \in T : f[s] <= 0) => SumFunctionOnSet(f, T) <= 0
                      /\ (\A s \in T : f[s] = 0) => SumFunctionOnSet(f, T) = 0
           B == {T \in SUBSET S : ~Good(T)}
<1>1. SUFFICES ASSUME B # {} PROVE FALSE
  OBVIOUS
<1>2. PICK T \in B : \A u \in B : u \subseteq T => u = T
  <2>1. B \in SUBSET SUBSET S
    OBVIOUS
  <2> HIDE DEF B
  <2> QED  BY <1>1, <2>1, SmallestSubset
<1>3. T # {} /\ Pick(T) \in T
  <2>1. Good({})
    BY SumEmpty
  <2> HIDE DEF Good
  <2> QED  BY <1>2, <2>1, PickIn
<1> DEFINE p == Pick(T)
           x == SumFunctionOnSet(f, T \ {p})
<1>4. Good(T \ {p})
  <2>1. T \ {p} \in SUBSET S /\ T \ {p} \subseteq T /\ T \ {p} # T
    BY <1>2, <1>3
  <2> HIDE DEF Good, p
  <2> QED  BY <1>2, <2>1
<1>5. SumFunctionOnSet(f, T) = f[p] + x
  BY <1>3, SumUnrolled, FS_Subset
<1>6. f[p] \in Int /\ x \in Int
  <2>1. T \ {p} \in SUBSET S /\ IsFiniteSet(T \ {p})
    BY FS_Subset
  <2> QED  BY <1>3, <2>1, SumInt
<1>7. /\ (\A s \in T : f[s] <= 0) => x <= 0 /\ f[p] <= 0
      /\ (\A s \in T : f[s] = 0) => x = 0 /\ f[p] = 0
  BY <1>3, <1>4
<1> HIDE DEF p, x
<1>8. Good(T)
  BY <1>5, <1>6, <1>7
<1> QED  BY <1>2, <1>8

LEMMA ZeroFractions ==
  ASSUME NEW f, NEW S, IsFiniteSet(S), \A s \in S : f[s] \in Squares /\ f[s][1] = 0
  PROVE  SumFractions(f, S)[1] = 0
<1> DEFINE B == {T \in SUBSET S : SumFractions(f, T)[1] # 0}
<1>1. SUFFICES ASSUME B # {} PROVE FALSE
  OBVIOUS
<1>2. PICK T \in B : \A u \in B : u \subseteq T => u = T
  <2>1. B \in SUBSET SUBSET S
    OBVIOUS
  <2> HIDE DEF B
  <2> QED  BY <1>1, <2>1, SmallestSubset
<1>3. T # {} /\ Pick(T) \in T
  <2>1. SumFractions(f, {})[1] = 0
    BY FractionsEmpty DEF Whole
  <2> QED  BY <1>2, <2>1, PickIn
<1> DEFINE p == Pick(T)
           x == SumFractions(f, T \ {p})
<1>4. x[1] = 0
  BY <1>2, <1>3
<1>5. SumFractions(f, T) = Plus(f[p], x)
  BY <1>3, FractionsUnrolled, FS_Subset
<1>6. x \in Squares /\ f[p] \in Squares /\ f[p][1] = 0
  <2>1. T \ {p} \in SUBSET S /\ IsFiniteSet(T \ {p})
    BY FS_Subset
  <2> QED  BY <1>3, <2>1, FractionSum
<1> HIDE DEF p, x
<1>7. Plus(f[p], x)[1] = 0
  <2>1. x[2] \in Int /\ f[p][2] \in Int
    BY <1>6, Parts
  <2>2. Plus(f[p], x)[1] = 0 * x[2] + 0 * f[p][2]
    BY <1>4, <1>6 DEF Plus
  <2> QED  BY <2>1, <2>2
<1> QED  BY <1>2, <1>5, <1>7

\* The rate r of the template v on the bins B: the sum, or negative and then not of an empty
\* template.
Sized(r, v, B) == (r >= 0 => Integral(v) = r) /\ (r < 0 => \E b \in B : v[b] # 0)

LEMMA SizedSet ==
  ASSUME NEW B, IsFiniteSet(B), NEW h \in [B -> Int]
  PROVE  Sized(Integral(h), h, B)
<1>1. (\A b \in B : h[b] = 0) => Integral(h) = 0
  BY SumSigns DEF Integral
<1> QED  BY <1>1 DEF Sized

\* What is set for a process when its errors are merged.
LEMMA SizedScaled ==
  ASSUME NEW B, IsFiniteSet(B), NEW v \in [B -> Int], NEW r \in Int, Sized(r, v, B)
  PROVE  /\ Sized(r, Scaled(v, Whole(r)), B)
         /\ r < 0 => Scaled(v, Whole(r)) # v
         /\ r = 0 => \A b \in B : Scaled(v, Whole(r))[b] = 0
<1> DEFINE h == Scaled(v, Whole(r))
           I == Integral(v)
           d == IF I > 0 THEN I ELSE 1
<1>1. I \in Int /\ d \in Int /\ d > 0
  BY IntegralInt
<1>2. h = [b \in B |-> (v[b] * r) \div (1 * d)]
  BY DEF Scaled, Whole
<1>3. h \in [B -> Int]
  BY ScaledType, FractionTypes
<1>4. CASE r > 0
  <2>1. I > 0 /\ I = r /\ Whole(r) = <<I * 1, 1>>
    BY <1>1, <1>4 DEF Sized, Whole
  <2>2. h = v
    BY <2>1, ScaledSame
  <2> QED  BY <1>4, <2>2
<1>5. CASE r = 0
  <2>1. \A b \in B : h[b] = 0
    <3>1. TAKE b \in B
    <3>2. h[b] = (v[b] * 0) \div (1 * d) /\ v[b] * 0 = 0 /\ 1 * d = d
      BY <1>1, <1>2, <1>5
    <3> HIDE DEF d, h
    <3>3. 0 \div d = 0
      BY <1>1
    <3>4. h[b] = 0 \div d
      BY <3>2, Zenon
    <3> QED  BY <3>3, <3>4
  <2>2. Integral(h) = 0
    <3> HIDE DEF h
    <3> QED  BY <1>3, <2>1, SumSigns DEF Integral
  <2> QED  BY <1>5, <2>1, <2>2 DEF Sized
<1>6. CASE r < 0
  <2>1. \E b \in B : h[b] # v[b] /\ h[b] # 0
    <3>1. CASE I > 0
      <4>1. PICK b \in B : ~(v[b] <= 0)
        <5>1. DOMAIN v = B /\ (\A b \in B : v[b] \in Int) /\ I = SumFunctionOnSet(v, B)
          BY DEF Integral
        <5>2. (\A b \in B : v[b] <= 0) => SumFunctionOnSet(v, B) <= 0
          BY <5>1, SumSigns
        <5>3. ~(I <= 0)
          BY <1>1, <3>1
        <5> QED  BY <5>1, <5>2, <5>3, Zenon
      <4>2. h[b] = (v[b] * r) \div d
        <5>1. 1 * d = d
          BY <1>1
        <5>2. h[b] = (v[b] * r) \div (1 * d)
          BY <1>2, Zenon
        <5> QED  BY <5>1, <5>2, Zenon
      <4>3. v[b] \in Int /\ v[b] > 0
        BY <4>1
      <4>4. v[b] * r \in Int /\ v[b] * r < 0
        BY <1>6, <4>3
      <4> HIDE DEF d, h
      <4>5. (v[b] * r) \div d < 0
        BY <1>1, <4>4
      <4> QED  BY <4>2, <4>3, <4>5
    <3>2. CASE ~(I > 0)
      <4>1. PICK b \in B : v[b] # 0
        BY <1>6 DEF Sized
      <4>2. h[b] = (v[b] * r) \div 1 /\ v[b] \in Int
        BY <1>2, <3>2
      <4> HIDE DEF d, h
      <4>3. h[b] = v[b] * r
        BY <4>2
      <4> QED  BY <1>6, <4>1, <4>2, <4>3
    <3> QED  BY <3>1, <3>2
  <2>2. ~(r >= 0) /\ r # 0
    BY <1>6
  <2>3. (\E b \in B : h[b] # 0) /\ h # v
    BY <2>1, Zenon
  <2>4. (r >= 0 => Integral(h) = r) /\ (r < 0 => \E b \in B : h[b] # 0)
    BY <2>2, <2>3, Zenon
  <2> QED  BY <2>2, <2>3, <2>4, Zenon DEF Sized
<1> QED  BY <1>4, <1>5, <1>6

\* A template that holds its rate has the errors it was set with; an empty one has none.
LEMMA ErrorsKept ==
  ASSUME NEW B, IsFiniteSet(B), NEW v \in [B -> Int], NEW e2 \in [B -> Squares], NEW r \in Int, Integral(v) = r
  PROVE  /\ r > 0 => ScaledErrors(v, e2, r) = e2
         /\ r = 0 => \A b \in B : ScaledErrors(v, e2, r)[b][1] = 0
<1>1. CASE r > 0
  <2>1. ScaledErrors(v, e2, r) = [b \in B |-> e2[b]]
    BY <1>1 DEF ScaledErrors
  <2> QED  BY <1>1, <2>1
<1>2. CASE r = 0
  <2>1. ScaledErrors(v, e2, r) = [b \in B |-> Times(e2[b], Times(Whole(0), Whole(0)))]
    BY <1>2 DEF ScaledErrors, Whole
  <2>2. \A b \in B : Times(e2[b], Times(Whole(0), Whole(0)))[1] = 0
    <3> TAKE b \in B
    <3>1. e2[b][1] \in Int
      BY Parts
    <3>2. Times(e2[b], Times(Whole(0), Whole(0)))[1] = e2[b][1] * (0 * 0)
      BY DEF Times, Whole
    <3> QED  BY <3>1, <3>2
  <2> QED  BY <1>2, <2>1, <2>2
<1> QED  BY <1>1, <1>2

\* A bin of which all parts were zeroed has no error.
Cleared(e, C, z) == \A b \in Bins(C) : (\A a \in Edges : b <= a /\ a < End(C, b) => a \in z) => e[b][1] = 0

Recorded ==
  /\ \A p \in Procs : Sized(proc[p].rate, proc[p].v, Bins(cuts))
  /\ \A p \in Procs \ lost : Cleared(proc[p].e2, cuts, zeroed[p])

LEMMA SetParts ==
  \A h, e : SetShape(h, e).rate = Integral(h) /\ SetShape(h, e).v = h /\ SetShape(h, e).e2 = e
  BY DEF SetShape

LEMMA RecordedInit ==
  ASSUME Init
  PROVE  Recorded
<1>1. /\ cuts = Edges /\ first \in Starts
      /\ proc = [p \in Procs |-> SetShape(first[p].v, first[p].e2)] /\ \A p \in Procs : zeroed[p] = {}
  BY DEF Init
<1>2. IsFiniteSet(Bins(Edges))
  BY BinningFacts, EdgesBinning
<1>3. ASSUME NEW p \in Procs PROVE Sized(proc[p].rate, proc[p].v, Bins(cuts))
  <2>1. proc[p].rate = Integral(first[p].v) /\ proc[p].v = first[p].v /\ first[p].v \in [Bins(Edges) -> Int]
    BY <1>1, StartsAssumption DEF SetShape
  <2> QED  BY <1>1, <1>2, <2>1, SizedSet
<1>4. ASSUME NEW e, NEW z, z = {} PROVE Cleared(e, Edges, z)
  <2>1. \A b \in Bins(Edges) : b \in Edges /\ b <= b /\ b < End(Edges, b)
    BY EdgesBinning, PartFacts
  <2> QED  BY <1>4, <2>1 DEF Cleared
<1> QED  BY <1>1, <1>3, <1>4 DEF Recorded

\* A process with templates has the errors it was set with.
LEMMA ErrorsOf ==
  ASSUME Typed, Kept, NEW p \in Procs \ lost
  PROVE  Errors(p) = proc[p].e2
<1>1. IsFiniteSet(Bins(cuts)) /\ ProcTyped(proc[p], syst[p], cuts)
  BY TypedProcs
<1>2. Integral(proc[p].v) > 0 /\ proc[p].rate = Integral(proc[p].v)
  BY DEF Kept, KeptProc
<1> QED  BY <1>1, <1>2, ErrorsKept DEF Errors, ProcTyped

LEMMA RecordedRebin ==
  ASSUME Typed, Kept, Recorded, NEW C \in SUBSET cuts, Cardinality(C) >= 2, Rebin(C), zeroed' = zeroed
  PROVE  Recorded'
<1>1. /\ cuts' = C /\ lost' = lost \cup NotPositive(Procs)'
      /\ \A p \in Procs : proc'[p] = SetShape(Grouped(Nominal(p), C), GroupedErrors(Errors(p), C))
  BY RebinStep
<1>2. Binning(cuts) /\ IsFiniteSet(Bins(cuts)) /\ Binning(C) /\ IsFiniteSet(Bins(C))
  <2>1. Binning(cuts) /\ IsFiniteSet(Bins(cuts))
    BY TypedProcs
  <2>2. Binning(C)
    BY <2>1 DEF Binning
  <2> QED  BY <2>1, <2>2, BinningFacts
<1>3. ASSUME NEW p \in Procs PROVE Sized(proc'[p].rate, proc'[p].v, Bins(C))
  <2> DEFINE h == Grouped(Nominal(p), C)
  <2>1. h \in [Bins(C) -> Int]
    BY <1>2, Computed, GroupedType
  <2>2. proc'[p].rate = Integral(h) /\ proc'[p].v = h
    BY <1>1, SetParts, Zenon
  <2> HIDE DEF h
  <2> QED  BY <1>2, <2>1, <2>2, SizedSet
<1>4. ASSUME NEW p \in Procs \ lost PROVE Cleared(proc'[p].e2, C, zeroed[p])
  <2> DEFINE e == proc[p].e2
             z == zeroed[p]
  <2>1. Errors(p) = e
    BY ErrorsOf
  <2> HIDE DEF e, z
  <2>2. proc'[p].e2 = [b \in Bins(C) |-> SumFractions(e, Inside(e, C, b))]
    <3>1. proc'[p].e2 = GroupedErrors(e, C)
      <4> DEFINE h == Grouped(Nominal(p), C)
      <4>1. proc'[p] = SetShape(h, GroupedErrors(Errors(p), C))
        BY <1>1
      <4> HIDE DEF h
      <4>2. proc'[p].e2 = GroupedErrors(Errors(p), C)
        BY <4>1, SetParts
      <4> QED  BY <2>1, <4>2
    <3> QED  BY <3>1 DEF GroupedErrors
  <2>3. e \in [Bins(cuts) -> Squares] /\ Cleared(e, cuts, z)
    BY TypedProcs DEF ProcTyped, Recorded, e, z
  <2>4. ASSUME NEW b \in Bins(C), \A a \in Edges : b <= a /\ a < End(C, b) => a \in z
        PROVE  SumFractions(e, Inside(e, C, b))[1] = 0
    <3>1. Inside(e, C, b) \in SUBSET Bins(cuts) /\ IsFiniteSet(Inside(e, C, b))
      <4>1. Inside(e, C, b) \in SUBSET Bins(cuts)
        BY <2>3 DEF Inside
      <4> QED  BY <1>2, <4>1, FS_Subset
    <3>2. ASSUME NEW a \in Inside(e, C, b) PROVE e[a] \in Squares /\ e[a][1] = 0
      <4> DEFINE hi == End(C, b)
                 up == End(cuts, a)
      <4>1. a \in Bins(cuts) /\ b <= a /\ a < hi
        BY <3>1, <3>2 DEF Inside
      <4>2. a \in Int /\ b \in Int /\ hi \in Int /\ up \in Int /\ hi \in cuts
        BY <1>2, <4>1, PartFacts
      <4>3. up <= hi
        <5>1. a < Max(cuts) /\ hi > a
          BY <1>2, <4>1, <4>2, PartFacts
        <5> QED  BY <1>2, <4>2, <5>1, EndFacts
      <4>4. \A c \in Edges : c \in Int
        BY EdgesBinning, BinningFacts
      <4>5. \A c \in Edges : c < hi /\ b <= c => c \in z
        BY <2>4
      <4> HIDE DEF hi, up
      <4>6. \A c \in Edges : a <= c /\ c < up => c \in z
        BY <4>1, <4>2, <4>3, <4>4, <4>5
      <4>7. e[a][1] = 0
        BY <2>3, <4>1, <4>6 DEF Cleared, up
      <4> QED  BY <2>3, <4>1, <4>7
    <3> QED  BY <3>1, <3>2, ZeroFractions
  <2> QED  BY <2>2, <2>4 DEF Cleared, z
<1> QED  BY <1>1, <1>3, <1>4 DEF Recorded

LEMMA RecordedZeroBins ==
  ASSUME Typed, Kept, Recorded, NEW min \in Int, NEW max \in Int, NEW P \in SUBSET Procs, ZeroBins(min, max, P)
  PROVE  Recorded'
<1> DEFINE Z == Within(min, max)
           W == {a \in Edges : min <= a /\ a < max /\ \E b \in Z : b <= a /\ a < End(cuts, b)}
<1>1. /\ lost' = lost \cup NotPositive(P)'
      /\ \A p \in Procs : proc'[p] = IF p \in P
                    THEN SetShape(ZeroedIn(Nominal(p), Z), ZeroedErrors(Errors(p), Z)) ELSE proc[p]
  BY ZeroStep
<1>2. cuts' = cuts /\ zeroed' = [p \in Procs |-> IF p \in P THEN zeroed[p] \cup W ELSE zeroed[p]]
  BY DEF ZeroBins
<1>3. Binning(cuts) /\ IsFiniteSet(Bins(cuts)) /\ Z \subseteq Bins(cuts)
  BY TypedProcs DEF Within
<1> HIDE DEF Z
<1>4. ASSUME NEW p \in Procs PROVE Sized(proc'[p].rate, proc'[p].v, Bins(cuts))
  <2>1. CASE p \in P
    <3> DEFINE h == ZeroedIn(Nominal(p), Z)
    <3>1. h \in [Bins(cuts) -> Int]
      BY Computed DEF ZeroedIn
    <3>2. proc'[p].rate = Integral(h) /\ proc'[p].v = h
      <4>1. proc'[p] = SetShape(h, ZeroedErrors(Errors(p), Z))
        BY <1>1, <2>1, Zenon
      <4> QED  BY <4>1, SetParts, Zenon
    <3> HIDE DEF h
    <3> QED  BY <1>3, <3>1, <3>2, SizedSet
  <2>2. CASE p \notin P
    BY <1>1, <2>2 DEF Recorded
  <2> QED  BY <2>1, <2>2
<1>5. ASSUME NEW p \in Procs \ lost PROVE Cleared(proc'[p].e2, cuts, zeroed'[p])
  <2> DEFINE e == proc[p].e2
             z == zeroed[p]
  <2>1. e \in [Bins(cuts) -> Squares] /\ Cleared(e, cuts, z)
    BY TypedProcs DEF ProcTyped, Recorded
  <2>2. CASE p \in P
    <3>1. proc'[p].e2 = ZeroedErrors(e, Z) /\ zeroed'[p] = z \cup W
      <4>1. Errors(p) = e
        BY ErrorsOf
      <4>2. proc'[p] = SetShape(ZeroedIn(Nominal(p), Z), ZeroedErrors(e, Z))
        BY <1>1, <2>2, <4>1, Zenon
      <4>3. proc'[p].e2 = ZeroedErrors(e, Z)
        BY <4>2, SetParts, Zenon
      <4>4. zeroed'[p] = z \cup W
        BY <1>2, <2>2
      <4> QED  BY <4>3, <4>4
    <3> HIDE DEF e, z
    <3>2. ZeroedErrors(e, Z) = [b \in Bins(cuts) |-> IF b \in Z THEN Whole(0) ELSE e[b]]
      BY <2>1 DEF ZeroedErrors
    <3>3. ASSUME NEW b \in Bins(cuts), \A a \in Edges : b <= a /\ a < End(cuts, b) => a \in z \cup W, b \notin Z
          PROVE  e[b][1] = 0
      <4>1. ASSUME NEW a \in Edges, b <= a, a < End(cuts, b) PROVE a \in z
        <5>1. a \in Int
          BY EdgesBinning, BinningFacts
        <5>2. \A c \in Z : ~(c <= a /\ a < End(cuts, c))
          BY <1>3, <3>3, <4>1, <5>1, PartFacts
        <5> QED  BY <3>3, <4>1, <5>2
      <4> QED  BY <2>1, <4>1 DEF Cleared
    <3>4. Whole(0)[1] = 0
      BY DEF Whole
    <3>5. Cleared(ZeroedErrors(e, Z), cuts, z \cup W)
      BY <3>2, <3>3, <3>4 DEF Cleared
    <3> QED  BY <3>1, <3>5
  <2>3. CASE p \notin P
    BY <1>1, <1>2, <2>1, <2>3
  <2> QED  BY <2>2, <2>3
<1> QED  BY <1>1, <1>2, <1>4, <1>5 DEF Recorded

LEMMA RecordedMerge ==
  ASSUME Typed, Kept, Recorded, NEW f \in Factories, NEW P \in SUBSET Procs, Merge(f, P),
         UNCHANGED <<cuts, zeroed, lost>>
  PROVE  Recorded'
<1>1. PICK address \in [P -> 1..Cardinality(P)] :
           /\ \A p \in P : /\ proc'[p].rate = proc[p].rate /\ proc'[p].v = Nominal(p)
                           /\ proc'[p].e2 \in [Bins(cuts) -> Squares]
                           /\ \A b \in Bins(cuts) : proc'[p].e2[b] = MergedErrors(f, P, b, address)[p]
           /\ \A p \in Procs \ P : proc'[p] = proc[p]
  BY MergeWith, Zenon
<1>2. ASSUME NEW p \in P PROVE Sized(proc'[p].rate, proc'[p].v, Bins(cuts))
  <2>1. /\ IsFiniteSet(Bins(cuts)) /\ proc[p].v \in [Bins(cuts) -> Int] /\ proc[p].rate \in Int
        /\ Sized(proc[p].rate, proc[p].v, Bins(cuts))
    BY TypedProcs DEF ProcTyped, Recorded
  <2>2. Sized(proc[p].rate, Scaled(proc[p].v, Whole(proc[p].rate)), Bins(cuts))
    BY <2>1, SizedScaled
  <2> QED  BY <1>1, <2>2 DEF Nominal
<1>3. ASSUME NEW p \in P, p \notin lost PROVE Cleared(proc'[p].e2, cuts, zeroed[p])
  <2>1. Errors(p) = proc[p].e2 /\ Cleared(proc[p].e2, cuts, zeroed[p])
    BY <1>3, ErrorsOf DEF Recorded
  <2>2. ASSUME NEW b \in Bins(cuts), Errors(p)[b][1] = 0 PROVE proc'[p].e2[b] = Errors(p)[b]
    <3>1. Nominal(p)[b] \in Int /\ Errors(p)[b] \in Squares
      BY Computed
    <3>2. ~Above(f, Nominal(p)[b], Errors(p)[b])
      BY <2>2, <3>1, AbovePositive
    <3>3. p \in Procs \ Growing(f, P, b)
      BY <3>2 DEF Growing, Merging
    <3>4. MergedErrors(f, P, b, address)[p] = Errors(p)[b]
      BY <3>3, MergedParts
    <3> QED  BY <1>1, <3>4
  <2> QED  BY <2>1, <2>2 DEF Cleared
<1> QED  BY <1>1, <1>2, <1>3 DEF Recorded

LEMMA RecordedStep ==
  ASSUME Typed, Kept, Recorded, [Next]_vars
  PROVE  Recorded'
<1>1. CASE UNCHANGED <<cuts, proc, zeroed, lost>>
  BY <1>1 DEF Recorded
<1>2. ASSUME NEW C \in SUBSET cuts, VariableRebin(C) PROVE Recorded'
  BY <1>2, RecordedRebin DEF VariableRebin
<1>3. ASSUME NEW min \in Edges, NEW max \in Edges, NEW P \in SUBSET Procs, ZeroBins(min, max, P) PROVE Recorded'
  <2>1. min \in Int /\ max \in Int
    BY BinningFacts, EdgesBinning
  <2> QED  BY <1>3, <2>1, RecordedZeroBins
<1>4. CASE EndSearch
  <2>1. CASE UNCHANGED <<cuts, proc, syst, lost>>
    BY <1>1, <1>4, <2>1 DEF EndSearch
  <2>2. CASE Rebin(Found)
    <3>1. Found \in SUBSET cuts /\ Cardinality(Found) >= 2 /\ zeroed' = zeroed
      BY <1>4, FoundBinning DEF EndSearch, Binning
    <3> QED  BY <2>2, <3>1, RecordedRebin
  <2> QED  BY <1>4, <2>1, <2>2 DEF EndSearch
<1>5. ASSUME NEW f \in Factories, NEW P \in SUBSET Procs, MergeBinErrors(f, P) \/ MergeAndAdd(f, P) PROVE Recorded'
  BY <1>5, RecordedMerge DEF MergeBinErrors, MergeAndAdd
<1>6. {Procs, Backgrounds} \subseteq SUBSET Procs
  BY BinsAssumption
<1> QED  BY <1>1, <1>2, <1>3, <1>4, <1>5, <1>6 DEF Next, StartSearch, SearchOn, vars

\* Processes that hold their rates: sums of their errors.
LEMMA SumErrorsSet ==
  ASSUME NEW C, IsFiniteSet(Bins(C)), NEW r, NEW P \in SUBSET Procs, NEW b \in Bins(C),
         \A p \in P : /\ r[p].v \in [Bins(C) -> Int] /\ r[p].e2 \in [Bins(C) -> Squares]
                      /\ Integral(r[p].v) > 0 /\ r[p].rate = Integral(r[p].v)
  PROVE  SumFractions([p \in P |-> ScaledErrors(r[p].v, r[p].e2, r[p].rate)[b]], P)
           = SumFractions([p \in Procs |-> r[p].e2[b]], P)
<1> DEFINE f == [p \in P |-> ScaledErrors(r[p].v, r[p].e2, r[p].rate)[b]]
           g == [p \in Procs |-> r[p].e2[b]]
<1>1. ASSUME NEW p \in P PROVE f[p] = g[p]
  <2> DEFINE i == Integral(r[p].v)
  <2>1. i \in Int /\ i > 0 /\ r[p].rate = i
    BY IntegralInt
  <2>2. ScaledErrors(r[p].v, r[p].e2, r[p].rate) = r[p].e2
    BY <2>1, ErrorsKept
  <2> QED  BY <2>2
<1>2. IsFiniteSet(P)
  BY BinsAssumption, FS_Subset
<1> HIDE DEF f, g
<1>3. SumFractions(f, P) = SumFractions(g, P)
  BY <1>1, <1>2, FractionsEqual
<1> QED  BY <1>3 DEF f, g

\* Templates of a process that merging leaves as it was keep their errors.
LEMMA UnchangedSame ==
  ASSUME Typed, Recorded, NEW f \in Factories, NEW P \in SUBSET Procs, NEW p \in P, NEW b \in Bins(cuts),
         NEW address \in [P -> 1..Cardinality(P)],
         Nominal(p) = proc[p].v, MergedErrors(f, P, b, address)[p] = proc[p].e2[b]
  PROVE  Same(MergedErrors(f, P, b, address)[p], Errors(p)[b])
<1> DEFINE v == proc[p].v
           e2 == proc[p].e2
           r == proc[p].rate
           merged == MergedErrors(f, P, b, address)
<1>1. /\ IsFiniteSet(Bins(cuts)) /\ v \in [Bins(cuts) -> Int] /\ e2 \in [Bins(cuts) -> Squares] /\ r \in Int
      /\ Sized(r, v, Bins(cuts))
  BY TypedProcs DEF ProcTyped, Recorded
<1>2. Nominal(p) = Scaled(v, Whole(r)) /\ Errors(p) = ScaledErrors(v, e2, r) /\ Nominal(p) = v
      /\ merged[p] = e2[b]
  BY DEF Nominal, Errors
<1>3. Nominal(p)[b] \in Int /\ Errors(p)[b] \in Squares
  BY Computed
<1> HIDE DEF v, e2, r, merged
<1>4. CASE r > 0
  <2>1. Integral(v) = r
    BY <1>1, <1>4 DEF Sized
  <2>2. ScaledErrors(v, e2, r) = e2
    BY <1>1, <1>4, <2>1, ErrorsKept
  <2>3. merged[p] = Errors(p)[b]
    BY <1>2, <2>2
  <2> QED  BY <1>3, <2>3, Parts, SameEquivalence DEF merged
<1>5. CASE r = 0
  <2>1. Integral(v) = r
    BY <1>1, <1>5 DEF Sized
  <2>2. Errors(p)[b][1] = 0
    BY <1>1, <1>2, <1>5, <2>1, ErrorsKept
  <2>3. ~Above(f, Nominal(p)[b], Errors(p)[b])
    BY <1>3, <2>2, AbovePositive
  <2>4. p \in Procs \ Growing(f, P, b)
    BY <2>3 DEF Growing, Merging
  <2>5. merged[p] = Errors(p)[b]
    BY <2>4, MergedParts DEF merged
  <2> QED  BY <1>3, <2>5, Parts, SameEquivalence DEF merged
<1>6. CASE r < 0
  BY <1>1, <1>2, <1>6, SizedScaled
<1> QED  BY <1>1, <1>4, <1>5, <1>6

\* Errors of processes P move between them when all other processes stay as they were.
LEMMA MergeMoves ==
  ASSUME Typed, Kept, Recorded, NEW f \in Factories, NEW Q \in SUBSET Procs, Merge(f, Q),
         NEW P \in SUBSET Procs, \A p \in Procs \ P : proc'[p] = proc[p], P \cap lost = {}, NEW b \in Bins(cuts)
  PROVE  Same(SumFractions([p \in Procs |-> proc'[p].e2[b]], P), SumFractions([p \in Procs |-> proc[p].e2[b]], P))
<1>1. PICK address \in [Q -> 1..Cardinality(Q)] :
           /\ \A p \in Q : /\ proc'[p].rate = proc[p].rate /\ proc'[p].v = Nominal(p)
                           /\ proc'[p].e2 \in [Bins(cuts) -> Squares]
                           /\ \A c \in Bins(cuts) : proc'[p].e2[c] = MergedErrors(f, Q, c, address)[p]
           /\ \A p \in Procs \ Q : proc'[p] = proc[p]
  BY MergeWith, Zenon
<1> DEFINE merged == MergedErrors(f, Q, b, address)
           new == [p \in Procs |-> proc'[p].e2[b]]
           old == [p \in Procs |-> proc[p].e2[b]]
           e == ErrorsIn(b)
           X == P \cap Q
<1>2. \A p \in Procs : /\ e[p] = Errors(p)[b] /\ e[p] \in Squares /\ merged[p] \in Squares
                       /\ old[p] = proc[p].e2[b] /\ old[p] \in Squares
                       /\ new[p] = proc'[p].e2[b]
                       /\ p \in Q => new[p] = merged[p]
                       /\ p \notin Q => new[p] = old[p]
  <2>1. merged \in [Procs -> Squares]
    BY MergedType
  <2>2. \A p \in Procs : proc[p].e2 \in [Bins(cuts) -> Squares]
    BY TypedProcs DEF ProcTyped
  <2>3. \A p \in Procs : e[p] = Errors(p)[b] /\ e[p] \in Squares
    BY SumErrorsOf
  <2>4. \A p \in Q : proc'[p].e2[b] = merged[p]
    BY <1>1
  <2> HIDE DEF e, merged
  <2> QED  BY <1>1, <2>1, <2>2, <2>3, <2>4
<1>3. \A p \in P : e[p] = old[p]
  <2>1. \A p \in P : Errors(p) = proc[p].e2
    BY ErrorsOf
  <2> QED  BY <1>2, <2>1
<1>4. \A p \in Q \ P : Same(merged[p], e[p])
  <2> TAKE p \in Q \ P
  <2>1. proc'[p] = proc[p] /\ p \in Q
    OBVIOUS
  <2>2. Nominal(p) = proc[p].v /\ merged[p] = proc[p].e2[b]
    BY <1>1, <2>1
  <2>3. Same(merged[p], Errors(p)[b])
    BY <2>1, <2>2, UnchangedSame
  <2>4. e[p] = Errors(p)[b]
    BY <1>2
  <2> QED  BY <2>3, <2>4, Zenon
<1>5. Same(SumFractions(merged, Q), SumFractions(e, Q))
  <2>1. SumErrors(Q, b) = SumFractions(e, Q)
    BY SumErrorsOf
  <2> QED  BY <2>1, MergedSums
<1> HIDE DEF merged, new, old, e
<1>6. \A S \in SUBSET Procs : IsFiniteSet(S)
  BY BinsAssumption, FS_Subset
<1>7. \A p \in Procs : new[p] \in Squares
  BY <1>2
<1>8. \A S \in SUBSET Procs : /\ SumFractions(merged, S) \in Fractions /\ SumFractions(e, S) \in Fractions
                              /\ SumFractions(new, S) \in Fractions /\ SumFractions(old, S) \in Fractions
  BY <1>2, <1>6, <1>7, FractionSum, Parts
<1>9. Same(SumFractions(merged, X), SumFractions(e, X))
  <2>1. X \in SUBSET Q /\ Q \ X \in SUBSET Procs /\ Q \ X = Q \ P /\ X \in SUBSET Procs
    OBVIOUS
  <2>2. /\ SumFractions(merged, Q) = Plus(SumFractions(merged, X), SumFractions(merged, Q \ X))
        /\ SumFractions(e, Q) = Plus(SumFractions(e, X), SumFractions(e, Q \ X))
    <3>1. IsFiniteSet(Q) /\ \A p \in Q : merged[p] \in Squares /\ e[p] \in Squares
      BY <1>2, <1>6
    <3> QED  BY <2>1, <3>1, FractionsParts
  <2>3. Same(SumFractions(merged, Q \ X), SumFractions(e, Q \ X))
    <3>1. IsFiniteSet(Q \ X) /\ \A p \in Q \ X : merged[p] \in Squares /\ e[p] \in Squares /\ Same(merged[p], e[p])
      BY <1>2, <1>4, <1>6, <2>1
    <3> QED  BY <3>1, SameSums
  <2> QED  BY <1>5, <1>8, <2>1, <2>2, <2>3, SamePlus
<1>10. SumFractions(new, X) = SumFractions(merged, X) /\ SumFractions(old, X) = SumFractions(e, X)
  <2>1. IsFiniteSet(X) /\ \A p \in X : new[p] = merged[p] /\ old[p] = e[p]
    BY <1>2, <1>3, <1>6
  <2> QED  BY <2>1, FractionsEqual
<1>11. SumFractions(new, P \ X) = SumFractions(old, P \ X)
  <2>1. IsFiniteSet(P \ X) /\ \A p \in P \ X : new[p] = old[p]
    BY <1>2, <1>6
  <2> QED  BY <2>1, FractionsEqual
<1>12. /\ SumFractions(new, P) = Plus(SumFractions(new, X), SumFractions(new, P \ X))
       /\ SumFractions(old, P) = Plus(SumFractions(old, X), SumFractions(old, P \ X))
  <2>1. IsFiniteSet(P) /\ X \in SUBSET P /\ \A p \in P : new[p] \in Squares /\ old[p] \in Squares
    BY <1>2, <1>6, <1>7
  <2> QED  BY <2>1, FractionsParts
<1>13. Same(SumFractions(new, X), SumFractions(old, X))
  BY <1>9, <1>10
<1>14. Same(SumFractions(new, P \ X), SumFractions(old, P \ X))
  BY <1>8, <1>11, SameEquivalence
<1>15. Same(Plus(SumFractions(new, X), SumFractions(new, P \ X)), Plus(SumFractions(old, X), SumFractions(old, P \ X)))
  <2>1. X \in SUBSET Procs /\ P \ X \in SUBSET Procs
    OBVIOUS
  <2> QED  BY <1>8, <1>13, <1>14, <2>1, SamePlus
<1> QED  BY <1>12, <1>15, Zenon DEF new, old

\* What rebinning and zeroing do to the errors of a bin when no edge, no zeroed bin and no
\* lost process is new.
LEMMA OthersKeep ==
  ASSUME Typed, Kept, Recorded, Next, UNCHANGED <<cuts, zeroed>>,
         ~\E f \in Factories : \E Q \in {Procs, Backgrounds} : MergeBinErrors(f, Q) \/ MergeAndAdd(f, Q),
         NEW p \in Procs \ lost, NEW b \in Bins(cuts)
  PROVE  proc'[p].e2[b] = proc[p].e2[b] \/ (proc[p].e2[b][1] = 0 /\ proc'[p].e2[b] = Whole(0))
<1> DEFINE e == proc[p].e2
<1>1. /\ Binning(cuts) /\ IsFiniteSet(Bins(cuts)) /\ e \in [Bins(cuts) -> Squares] /\ Errors(p) = e
      /\ Cleared(e, cuts, zeroed[p])
  BY TypedProcs, ErrorsOf DEF ProcTyped, Recorded
<1> HIDE DEF e
<1>2. CASE proc' = proc
  BY <1>2
<1>3. ASSUME Rebin(cuts) PROVE proc'[p].e2[b] = e[b]
  <2>1. proc'[p].e2 = GroupedErrors(e, cuts)
    <3> DEFINE h == Grouped(Nominal(p), cuts)
    <3>1. proc'[p] = SetShape(h, GroupedErrors(Errors(p), cuts))
      BY <1>3, RebinStep
    <3> HIDE DEF h
    <3>2. proc'[p].e2 = GroupedErrors(Errors(p), cuts)
      BY <3>1, SetParts
    <3> QED  BY <1>1, <3>2
  <2>2. proc'[p].e2[b] = SumFractions(e, Inside(e, cuts, b))
    BY <2>1 DEF GroupedErrors
  <2>3. Inside(e, cuts, b) = {b}
    <3>1. Inside(e, cuts, b) = {a \in Bins(cuts) : b <= a /\ a < End(cuts, b)}
      BY <1>1 DEF Inside
    <3>2. b \in Int /\ b <= b /\ b < End(cuts, b)
      BY <1>1, PartFacts
    <3>3. \A a \in Bins(cuts) : b <= a /\ a < End(cuts, b) => a = b
      <4> TAKE a \in Bins(cuts)
      <4> HAVE b <= a /\ a < End(cuts, b)
      <4>1. a \in Int /\ a <= a /\ a < End(cuts, a)
        BY <1>1, PartFacts
      <4> QED  BY <1>1, <4>1, PartFacts
    <3> QED  BY <3>1, <3>2, <3>3, Zenon
  <2>4. SumFractions(e, {b}) = Plus(e[b], SumFractions(e, {b} \ {b}))
    <3>1. IsFiniteSet({b}) /\ \A s \in {b} : e[s] \in Squares
      BY <1>1, FS_Singleton
    <3> QED  BY <3>1, FractionsTake
  <2>5. {b} \ {b} = {}
    OBVIOUS
  <2>6. Plus(e[b], Whole(0)) = e[b]
    BY <1>1, Parts, PlusMonoid
  <2> QED  BY <2>2, <2>3, <2>4, <2>5, <2>6, FractionsEmpty, Zenon
<1>4. ASSUME NEW C \in SUBSET cuts, VariableRebin(C) PROVE Rebin(cuts)
  <2>1. Rebin(C) /\ cuts' = C
    BY <1>4 DEF VariableRebin, Rebin
  <2> QED  BY <2>1
<1>5. CASE EndSearch
  <2>1. CASE Found = cuts
    BY <1>2, <1>5, <2>1 DEF EndSearch
  <2>2. CASE Found # cuts
    <3>1. Rebin(Found)
      BY <1>5, <2>2 DEF EndSearch
    <3>2. cuts' = Found
      BY <3>1 DEF Rebin
    <3> QED  BY <2>2, <3>2
  <2> QED  BY <2>1, <2>2
<1>6. ASSUME NEW min \in Edges, NEW max \in Edges, NEW Q \in SUBSET Procs, ZeroBins(min, max, Q)
      PROVE  proc'[p].e2[b] = e[b] \/ (e[b][1] = 0 /\ proc'[p].e2[b] = Whole(0))
  <2> DEFINE Z == Within(min, max)
             W == {a \in Edges : min <= a /\ a < max /\ \E c \in Z : c <= a /\ a < End(cuts, c)}
  <2>1. proc'[p] = IF p \in Q THEN SetShape(ZeroedIn(Nominal(p), Z), ZeroedErrors(Errors(p), Z)) ELSE proc[p]
    BY <1>6, ZeroStep
  <2>2. p \in Q => W \subseteq zeroed[p]
    <3>1. zeroed' = [q \in Procs |-> IF q \in Q THEN zeroed[q] \cup W ELSE zeroed[q]]
      BY <1>6 DEF ZeroBins
    <3> HIDE DEF W
    <3> QED  BY <3>1
  <2>3. b \in Z => \A a \in Edges : b <= a /\ a < End(cuts, b) => a \in W
    <3>1. ASSUME b \in Z, NEW a \in Edges, b <= a, a < End(cuts, b) PROVE min <= a /\ a < max
      <4> DEFINE hi == End(cuts, b)
      <4>1. b >= min /\ hi <= max
        BY <3>1 DEF Within
      <4>2. min \in Int /\ max \in Int /\ a \in Int /\ b \in Int /\ hi \in Int
        BY <1>1, PartFacts, EdgesBinning, BinningFacts
      <4>3. a < hi
        BY <3>1
      <4> HIDE DEF hi
      <4> QED  BY <3>1, <4>1, <4>2, <4>3
    <3> QED  BY <3>1
  <2> HIDE DEF Z, W
  <2>4. CASE p \in Q /\ b \in Z
    <3>1. \A a \in Edges : b <= a /\ a < End(cuts, b) => a \in zeroed[p]
      BY <2>2, <2>3, <2>4
    <3>2. e[b][1] = 0
      BY <1>1, <3>1 DEF Cleared
    <3>3. proc'[p].e2 = ZeroedErrors(e, Z)
      <4>1. proc'[p] = SetShape(ZeroedIn(Nominal(p), Z), ZeroedErrors(e, Z))
        BY <1>1, <2>1, <2>4, Zenon
      <4> QED  BY <4>1, SetParts, Zenon
    <3>4. proc'[p].e2[b] = Whole(0)
      BY <1>1, <2>4, <3>3 DEF ZeroedErrors
    <3> QED  BY <3>2, <3>4
  <2>5. CASE p \in Q /\ b \notin Z
    <3>1. proc'[p].e2 = ZeroedErrors(e, Z)
      <4>1. proc'[p] = SetShape(ZeroedIn(Nominal(p), Z), ZeroedErrors(e, Z))
        BY <1>1, <2>1, <2>5, Zenon
      <4> QED  BY <4>1, SetParts, Zenon
    <3> QED  BY <1>1, <2>5, <3>1 DEF ZeroedErrors
  <2>6. CASE p \notin Q
    BY <2>1, <2>6 DEF e
  <2> QED  BY <2>4, <2>5, <2>6
<1>7. {Procs, Backgrounds} \subseteq SUBSET Procs
  BY BinsAssumption
<1>8. \/ proc' = proc
      \/ \E C \in SUBSET cuts : VariableRebin(C)
      \/ EndSearch
      \/ \E min \in Edges : \E max \in Edges : \E Q \in SUBSET Procs : ZeroBins(min, max, Q)
  BY <1>7 DEF Next, StartSearch, SearchOn
<1> QED  BY <1>2, <1>3, <1>4, <1>5, <1>6, <1>8 DEF e


LEMMA MovedStep ==
  ASSUME Typed, Kept, Recorded, Typed', Kept', Next, UNCHANGED <<cuts, zeroed, lost>>,
         NEW P \in SUBSET Procs, \A p \in Procs \ P : proc'[p] = proc[p], P \cap lost = {}, NEW b \in Bins(cuts)
  PROVE  Same(SumErrors(P, b)', SumErrors(P, b))
<1> DEFINE new == [p \in Procs |-> proc'[p].e2[b]]
           old == [p \in Procs |-> proc[p].e2[b]]
<1>1. IsFiniteSet(Bins(cuts)) /\ IsFiniteSet(P)
  BY TypedProcs, BinsAssumption, FS_Subset
<1>2. \A p \in P : /\ proc[p].v \in [Bins(cuts) -> Int] /\ proc[p].e2 \in [Bins(cuts) -> Squares]
                   /\ Integral(proc[p].v) > 0 /\ proc[p].rate = Integral(proc[p].v)
  <2>1. \A p \in P : p \in Procs \ lost
    OBVIOUS
  <2> QED  BY <2>1, TypedProcs DEF ProcTyped, Kept, KeptProc
<1>3. \A p \in P : /\ proc'[p].v \in [Bins(cuts) -> Int] /\ proc'[p].e2 \in [Bins(cuts) -> Squares]
                   /\ Integral(proc'[p].v) > 0 /\ proc'[p].rate = Integral(proc'[p].v)
  <2>1. \A p \in P : p \in Procs \ lost'
    OBVIOUS
  <2>2. cuts' = cuts
    OBVIOUS
  <2>3. \A p \in Procs : proc'[p].v \in [Bins(cuts) -> Int] /\ proc'[p].e2 \in [Bins(cuts) -> Squares]
    BY <2>2 DEF Typed, TypeOK
  <2>4. \A p \in Procs \ lost' : KeptProc(proc'[p], syst'[p], first'[p], cuts', zeroed'[p])
    BY DEF Kept
  <2> QED  BY <2>1, <2>3, <2>4 DEF KeptProc
<1>4. SumErrors(P, b) = SumFractions(old, P)
  BY <1>1, <1>2, SumErrorsSet DEF SumErrors, Errors
<1>5. SumErrors(P, b)' = SumFractions(new, P)
  <2>1. SumErrors(P, b)' = SumFractions([p \in P |-> ScaledErrors(proc'[p].v, proc'[p].e2, proc'[p].rate)[b]], P)
    BY DEF SumErrors, Errors, SumFractions
  <2> QED  BY <1>1, <1>3, <2>1, SumErrorsSet
<1>6. Same(SumFractions(new, P), SumFractions(old, P))
  <2>1. CASE \E f \in Factories : \E Q \in {Procs, Backgrounds} : MergeBinErrors(f, Q) \/ MergeAndAdd(f, Q)
    <3>1. PICK f \in Factories, Q \in SUBSET Procs : Merge(f, Q)
      BY <2>1, BinsAssumption DEF MergeBinErrors, MergeAndAdd
    <3> QED  BY <3>1, MergeMoves
  <2>2. CASE ~\E f \in Factories : \E Q \in {Procs, Backgrounds} : MergeBinErrors(f, Q) \/ MergeAndAdd(f, Q)
    <3>1. ASSUME NEW p \in P
          PROVE  /\ new[p] \in Squares /\ old[p] \in Squares
                 /\ new[p] = old[p] \/ (old[p][1] = 0 /\ new[p] = Whole(0))
      <4>1. p \in Procs \ lost /\ p \in Procs
        OBVIOUS
      <4>2. proc'[p].e2[b] = proc[p].e2[b] \/ (proc[p].e2[b][1] = 0 /\ proc'[p].e2[b] = Whole(0))
        BY <2>2, <4>1, OthersKeep
      <4>3. proc[p].e2[b] \in Squares /\ proc'[p].e2[b] \in Squares
        BY <1>2, <1>3
      <4> QED  BY <4>1, <4>2, <4>3
    <3> HIDE DEF new, old
    <3>2. \A p \in P : Same(new[p], old[p])
      <4> TAKE p \in P
      <4>1. CASE new[p] = old[p]
        BY <3>1, <4>1, Parts, SameEquivalence
      <4>2. CASE old[p][1] = 0 /\ new[p] = Whole(0)
        <5>1. old[p][2] \in Int
          BY <3>1, Parts
        <5> QED  BY <4>2, <5>1 DEF Same, Whole
      <4> QED  BY <3>1, <4>1, <4>2
    <3> QED  BY <1>1, <3>1, <3>2, SameSums
  <2> QED  BY <2>1, <2>2
<1> QED  BY <1>4, <1>5, <1>6, Zenon

\* When the squared errors of processes change in a bin that was not cut
\* anew, nor zeroed for the first time, they have only moved: what
\* MergeBinErrors takes from one it gives to others (BinByBin.cc:42-105).
THEOREM ErrorsOnlyMove == Spec => ErrorsMoved
<1>1. Init => Typed /\ Kept /\ Recorded
  BY TypedInit, KeptInit, RecordedInit
<1>2. Typed /\ Kept /\ Recorded /\ [Next]_vars => Typed' /\ Kept' /\ Recorded'
  BY TypedStep, KeptStep, RecordedStep
<1>3. Typed /\ Kept /\ Recorded /\ Typed' /\ Kept' /\ [Next]_vars =>
        [proc' # proc /\ <<cuts, zeroed, lost>>' = <<cuts, zeroed, lost>> =>
           \A P \in {Procs, Backgrounds} : (\A p \in Procs \ P : proc'[p] = proc[p]) /\ P \cap lost = {} =>
             \A b \in Bins(cuts) : Same(SumErrors(P, b)', SumErrors(P, b))]_vars
  <2>1. SUFFICES ASSUME Typed, Kept, Recorded, Typed', Kept', Next, UNCHANGED <<cuts, zeroed, lost>>,
                        NEW P \in {Procs, Backgrounds}, \A p \in Procs \ P : proc'[p] = proc[p],
                        P \cap lost = {}, NEW b \in Bins(cuts)
                 PROVE  Same(SumErrors(P, b)', SumErrors(P, b))
    BY DEF vars
  <2>2. P \in SUBSET Procs
    BY BinsAssumption
  <2> QED  BY <2>1, <2>2, MovedStep
<1> QED  BY <1>1, <1>2, <1>3, PTL DEF Spec, ErrorsMoved
================================================================================
