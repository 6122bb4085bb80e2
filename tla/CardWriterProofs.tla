--------------------------- MODULE CardWriterProofs ---------------------------
(***************************************************************************)
(* For every instance, every pattern and every set of wildcard masses, and *)
(* whatever WriteDatacard throws, a card that WriteCards reports finds its *)
(* shapes in its root file.  The inductive invariant adds where the call   *)
(* is: the root file of a written card is not opened again by this call.   *)
(***************************************************************************)
EXTENDS CardWriter, TLAPS

\* The datacards of this call are on disk, with their root files.
OnDisk ==
  \A d \in datacards : d \in DOMAIN textfile /\ textfile[d].file \in DOMAIN rootfile
\* f_map has every name once: a file that was opened is not to be opened again.
Visited == \A d \in datacards : textfile[d].file \notin roots
\* The root file that is open.
Open == pc = "texts" => file \in DOMAIN rootfile /\ file \notin roots
\* It holds shapes of this instance only.
Current == pc = "texts" => f_cmb \subseteq cmb /\ rootfile[file] \subseteq cmb
\* Nothing is written before the keys of f_map are known.
Fresh == pc = "tagged" => datacards = {}

ShapesInv == OnDisk /\ Visited /\ Open /\ Current /\ Fresh /\ ShapesPresent

USE DEF ShapesInv, OnDisk, Visited, Open, Current, Fresh, ShapesPresent

\* Selecting leaves a subset.
LEMMA SelectSubset ==
  ASSUME NEW pattern, NEW C, NEW names  PROVE Select(pattern, C, names) \subseteq C
  BY DEF Select

\* Opening a root file leaves the files of the cards already written alone.
LEMMA OpenRootShapes ==
  ASSUME NEW key, ShapesInv, OpenRoot(key)
  PROVE  ShapesInv'
<1>1. /\ pc = "roots" /\ key \in roots
      /\ roots' = roots \ {key} /\ file' = key /\ pc' = "texts"
      /\ rootfile' = Put(rootfile, key, {})
      /\ textfile' = textfile /\ datacards' = datacards /\ cmb' = cmb
      /\ f_cmb' \subseteq cmb
  BY DEF OpenRoot, Select
<1>2. /\ DOMAIN rootfile' = DOMAIN rootfile \cup {key}
      /\ rootfile'[key] = {}
      /\ \A x \in DOMAIN rootfile : x # key => rootfile'[x] = rootfile[x]
  BY <1>1 DEF Put
<1>3. \A d \in datacards : textfile[d].file # key
  BY <1>1
<1> QED BY <1>1, <1>2, <1>3

\* Both outcomes of WriteDatacard put a set of objects into a text file and at
\* least as many shapes into the open root file.
LEMMA PutShapes ==
  ASSUME NEW key, NEW objects, NEW shapes, ShapesInv, pc = "texts",
         objects \subseteq shapes, shapes \subseteq f_cmb,
         textfile' = Put(textfile, key, [objects |-> objects, file |-> file]),
         rootfile' = Put(rootfile, file, rootfile[file] \cup shapes)
  PROVE  \A d \in datacards \cup {key} :
           /\ d \in DOMAIN textfile' /\ textfile'[d].file \in DOMAIN rootfile'
           /\ textfile'[d].file \notin roots
           /\ textfile'[d].objects \subseteq rootfile'[textfile'[d].file]
           /\ rootfile'[textfile'[d].file] \subseteq cmb
<1>1. /\ DOMAIN textfile' = DOMAIN textfile \cup {key}
      /\ textfile'[key] = [objects |-> objects, file |-> file]
      /\ \A x \in DOMAIN textfile : x # key => textfile'[x] = textfile[x]
  BY DEF Put
<1>2. /\ DOMAIN rootfile' = DOMAIN rootfile \cup {file}
      /\ rootfile'[file] = rootfile[file] \cup shapes
      /\ \A x \in DOMAIN rootfile : x # file => rootfile'[x] = rootfile[x]
  BY DEF Put
<1>3. \A x \in DOMAIN rootfile : rootfile[x] \subseteq rootfile'[x]
  BY <1>2
<1>4. /\ file \in DOMAIN rootfile /\ file \notin roots
      /\ rootfile[file] \cup shapes \subseteq cmb
  OBVIOUS
<1>5. /\ textfile'[key].objects = objects /\ textfile'[key].file = file
  BY <1>1
<1>6. ASSUME NEW d \in datacards, d # key
      PROVE  /\ d \in DOMAIN textfile' /\ textfile'[d].file \in DOMAIN rootfile'
             /\ textfile'[d].file \notin roots
             /\ textfile'[d].objects \subseteq rootfile'[textfile'[d].file]
             /\ rootfile'[textfile'[d].file] \subseteq cmb
  <2>1. /\ d \in DOMAIN textfile /\ textfile'[d] = textfile[d]
        /\ textfile[d].file \in DOMAIN rootfile /\ textfile[d].file \notin roots
        /\ textfile[d].objects \subseteq rootfile[textfile[d].file]
        /\ rootfile[textfile[d].file] \subseteq cmb
    BY <1>1, <1>6
  <2>2. CASE textfile[d].file = file
    BY <1>1, <1>2, <1>3, <1>4, <2>1, <2>2
  <2>3. CASE textfile[d].file # file
    BY <1>1, <1>2, <2>1, <2>3
  <2> QED  BY <2>2, <2>3
<1> QED BY <1>1, <1>2, <1>4, <1>5, <1>6

\* Every step of WriteCards keeps the invariant.
LEMMA StepShapes ==
  ASSUME ShapesInv, [Next]_vars
  PROVE  ShapesInv'
<1> SUFFICES ShapesInv'
  OBVIOUS
<1>1. ASSUME NEW t \in Tags, NEW C \in SUBSET Objects, WriteCards(t, C)
      PROVE  ShapesInv'
  BY <1>1 DEF WriteCards
<1>2. CASE BuildRootMap
  BY <1>2 DEF BuildRootMap
<1>3. ASSUME NEW key \in roots, OpenRoot(key)
      PROVE  ShapesInv'
  BY <1>3, OpenRootShapes
<1>4. ASSUME NEW key \in texts, WriteDatacard(key)
      PROVE  ShapesInv'
  <2>1. PICK names \in Maps(text_pattern, f_cmb, key) :
          /\ textfile' = Put(textfile, key,
               [objects |-> Select(text_pattern, f_cmb, names), file |-> file])
          /\ rootfile' = Put(rootfile, file,
               rootfile[file] \cup Select(text_pattern, f_cmb, names))
    BY <1>4 DEF WriteDatacard
  <2>2. /\ pc = "texts" /\ datacards' = datacards \cup {key}
        /\ pc' = pc /\ roots' = roots /\ file' = file
        /\ f_cmb' = f_cmb /\ cmb' = cmb
    BY <1>4 DEF WriteDatacard
  <2> DEFINE d_cmb == Select(text_pattern, f_cmb, names)
  <2>3. d_cmb \subseteq f_cmb
    BY SelectSubset
  <2> HIDE DEF d_cmb
  <2>4. /\ textfile' = Put(textfile, key, [objects |-> d_cmb, file |-> file])
        /\ rootfile' = Put(rootfile, file, rootfile[file] \cup d_cmb)
    BY <2>1 DEF d_cmb
  <2>5. \A d \in datacards' :
           /\ d \in DOMAIN textfile' /\ textfile'[d].file \in DOMAIN rootfile'
           /\ textfile'[d].file \notin roots'
           /\ textfile'[d].objects \subseteq rootfile'[textfile'[d].file]
           /\ rootfile'[textfile'[d].file] \subseteq cmb'
    BY <2>2, <2>3, <2>4, PutShapes
  <2>6. file \in DOMAIN rootfile' /\ rootfile'[file] \subseteq cmb
    BY <2>2, <2>3, <2>4 DEF Put
  <2> QED BY <2>2, <2>5, <2>6
<1>5. ASSUME NEW key \in texts, Throw(key)
      PROVE  ShapesInv'
  <2>1. /\ pc = "texts" /\ pc' = "idle" /\ roots' = {} /\ datacards' = datacards
        /\ cmb' = cmb
    BY <1>5 DEF Throw
  <2>2. CASE UNCHANGED <<rootfile, textfile>>
    BY <2>1, <2>2
  <2>3. CASE \E names \in Maps(text_pattern, f_cmb, key) :
               \E shapes \in SUBSET Select(text_pattern, f_cmb, names) :
                 /\ textfile' = Put(textfile, key, [objects |-> {}, file |-> file])
                 /\ rootfile' = Put(rootfile, file, rootfile[file] \cup shapes)
    <3>1. PICK shapes :
            /\ shapes \subseteq f_cmb
            /\ textfile' = Put(textfile, key, [objects |-> {}, file |-> file])
            /\ rootfile' = Put(rootfile, file, rootfile[file] \cup shapes)
      BY <2>3 DEF Select
    <3> DEFINE none == {}
    <3>2. none \subseteq shapes /\ textfile' = Put(textfile, key, [objects |-> none, file |-> file])
      BY <3>1
    <3> HIDE DEF none
    <3>3. \A d \in datacards :
             /\ d \in DOMAIN textfile' /\ textfile'[d].file \in DOMAIN rootfile'
             /\ textfile'[d].objects \subseteq rootfile'[textfile'[d].file]
             /\ rootfile'[textfile'[d].file] \subseteq cmb
      BY <2>1, <3>1, <3>2, PutShapes
    <3> QED BY <2>1, <3>3
  <2> QED BY <1>5, <2>2, <2>3 DEF Throw
<1>6. CASE CloseRoot
  BY <1>6 DEF CloseRoot
<1>7. CASE Return
  BY <1>7 DEF Return
<1>8. ASSUME NEW W \in Wildcards, SetWildcardMasses(W)
      PROVE  ShapesInv'
  BY <1>8 DEF SetWildcardMasses
<1>9. CASE UNCHANGED vars
  BY <1>9 DEF vars
<1> QED BY <1>1, <1>2, <1>3, <1>4, <1>5, <1>6, <1>7, <1>8, <1>9 DEF Next

\* A card this call of WriteCards has written finds its shapes in its root file,
\* also after the root files that follow were created and after a card that
\* throws (WriteCards re-creates each root file once).
THEOREM CardsFindShapes == Spec => []ShapesPresent
<1>1. Init => ShapesInv
  BY DEF Init
<1>2. ShapesInv /\ [Next]_vars => ShapesInv'
  BY StepShapes
<1>3. ShapesInv => ShapesPresent
  OBVIOUS
<1> QED BY <1>1, <1>2, <1>3, PTL DEF Spec

-----------------------------------------------------------------------------
(* Type correctness, and which objects a root file is for.                 *)

\* A selection exists only while its root file is open.
Closed == pc # "texts" => f_cmb = {} /\ texts = {}
\* Outside a root file and the loop over them there is no name to visit.
Unmapped == pc \in {"idle", "tagged", "done"} => roots = {}
CallInv == TypeOK /\ Closed /\ Unmapped /\ ShapesInv

\* Every step keeps the types and the bookkeeping of the call.
LEMMA StepCall == CallInv /\ [Next]_vars => CallInv'
<1> SUFFICES ASSUME CallInv, [Next]_vars  PROVE TypeOK' /\ Closed' /\ Unmapped'
  BY StepShapes DEF CallInv
<1> USE DEF CallInv, Closed, Unmapped
<1> DEFINE Goal == TypeOK' /\ Closed' /\ Unmapped'
<1>1. ASSUME NEW t \in Tags, NEW C \in SUBSET Objects, WriteCards(t, C)
      PROVE  Goal
  <2>1. calls' \in 0 .. MaxCalls
    BY <1>1, BoundsAssumption DEF WriteCards, TypeOK
  <2>2. Closed' /\ Unmapped'
    BY <1>1 DEF WriteCards
  <2>3. f_cmb' \subseteq cmb' /\ cmb' \subseteq Objects
    BY <1>1 DEF WriteCards
  <2> QED  BY <1>1, <2>1, <2>2, <2>3 DEF WriteCards, TypeOK, writer
<1>2. ASSUME BuildRootMap  PROVE Goal
  BY <1>2 DEF BuildRootMap, TypeOK, writer
<1>3. ASSUME NEW key \in roots, OpenRoot(key)  PROVE Goal
  <2>1. /\ pc = "roots" /\ pc' = "texts" /\ rootfile' = Put(rootfile, key, {})
        /\ UNCHANGED <<writer, cmb, tag, textfile, datacards, calls>>
    BY <1>3 DEF OpenRoot
  <2>2. f_cmb' \subseteq cmb
    BY <1>3, SelectSubset DEF OpenRoot
  <2>3. /\ DOMAIN rootfile' = DOMAIN rootfile \cup {key}
        /\ \A f \in DOMAIN rootfile' : rootfile'[f] \subseteq Objects
    BY <2>1 DEF Put, TypeOK
  <2> QED  BY <2>1, <2>2, <2>3 DEF TypeOK, writer
<1>4. ASSUME NEW key, NEW objects, NEW shapes, pc = "texts",
             objects \subseteq Objects, shapes \subseteq Objects,
             textfile' = Put(textfile, key, [objects |-> objects, file |-> file]),
             rootfile' = Put(rootfile, file, rootfile[file] \cup shapes)
      PROVE  /\ \A d \in DOMAIN textfile' :
                  textfile'[d].objects \subseteq Objects /\ textfile'[d].file \in DOMAIN rootfile'
             /\ \A f \in DOMAIN rootfile' : rootfile'[f] \subseteq Objects
             /\ DOMAIN textfile' = DOMAIN textfile \cup {key}
  <2>1. /\ DOMAIN rootfile' = DOMAIN rootfile \cup {file}
        /\ rootfile'[file] = rootfile[file] \cup shapes
        /\ \A x \in DOMAIN rootfile : x # file => rootfile'[x] = rootfile[x]
    BY <1>4 DEF Put
  <2>2. /\ DOMAIN textfile' = DOMAIN textfile \cup {key}
        /\ textfile'[key].objects = objects /\ textfile'[key].file = file
        /\ \A x \in DOMAIN textfile : x # key => textfile'[x] = textfile[x]
    BY <1>4 DEF Put
  <2>3. file \in DOMAIN rootfile
    BY <1>4
  <2> QED  BY <1>4, <2>1, <2>2, <2>3 DEF TypeOK
<1>5. ASSUME NEW key \in texts, WriteDatacard(key)  PROVE Goal
  <2>1. PICK names \in Maps(text_pattern, f_cmb, key) :
          /\ textfile' = Put(textfile, key,
               [objects |-> Select(text_pattern, f_cmb, names), file |-> file])
          /\ rootfile' = Put(rootfile, file,
               rootfile[file] \cup Select(text_pattern, f_cmb, names))
    BY <1>5 DEF WriteDatacard
  <2>2. /\ pc = "texts" /\ datacards' = datacards \cup {key} /\ texts' = texts \ {key}
        /\ UNCHANGED <<writer, cmb, pc, tag, roots, file, f_cmb, calls>>
    BY <1>5 DEF WriteDatacard
  <2>3. Select(text_pattern, f_cmb, names) \subseteq Objects
    BY SelectSubset DEF TypeOK
  <2>4. /\ \A d \in DOMAIN textfile' :
             textfile'[d].objects \subseteq Objects /\ textfile'[d].file \in DOMAIN rootfile'
        /\ \A f \in DOMAIN rootfile' : rootfile'[f] \subseteq Objects
        /\ DOMAIN textfile' = DOMAIN textfile \cup {key}
    BY <1>4, <2>1, <2>2, <2>3
  <2> QED  BY <2>2, <2>4 DEF TypeOK, writer
<1>6. ASSUME NEW key \in texts, Throw(key)  PROVE Goal
  <2>1. /\ pc = "texts" /\ pc' = "idle" /\ roots' = {} /\ texts' = {} /\ f_cmb' = {}
        /\ UNCHANGED <<writer, cmb, tag, datacards, calls>>
    BY <1>6 DEF Throw
  <2>2. CASE UNCHANGED <<rootfile, textfile>>
    BY <2>1, <2>2 DEF TypeOK, writer
  <2>3. CASE \E names \in Maps(text_pattern, f_cmb, key) :
               \E shapes \in SUBSET Select(text_pattern, f_cmb, names) :
                 /\ textfile' = Put(textfile, key, [objects |-> {}, file |-> file])
                 /\ rootfile' = Put(rootfile, file, rootfile[file] \cup shapes)
    <3>1. PICK names \in Maps(text_pattern, f_cmb, key) :
            \E shapes \in SUBSET Select(text_pattern, f_cmb, names) :
              /\ textfile' = Put(textfile, key, [objects |-> {}, file |-> file])
              /\ rootfile' = Put(rootfile, file, rootfile[file] \cup shapes)
      BY <2>3
    <3>2. PICK shapes \in SUBSET Select(text_pattern, f_cmb, names) :
            /\ textfile' = Put(textfile, key, [objects |-> {}, file |-> file])
            /\ rootfile' = Put(rootfile, file, rootfile[file] \cup shapes)
      BY <3>1
    <3>3. shapes \subseteq Objects /\ {} \subseteq Objects
      BY SelectSubset DEF TypeOK
    <3>4. /\ \A d \in DOMAIN textfile' :
               textfile'[d].objects \subseteq Objects /\ textfile'[d].file \in DOMAIN rootfile'
          /\ \A f \in DOMAIN rootfile' : rootfile'[f] \subseteq Objects
          /\ DOMAIN textfile' = DOMAIN textfile \cup {key}
      <4> DEFINE none == {}
      <4>1. textfile' = Put(textfile, key, [objects |-> none, file |-> file])
        BY <3>2
      <4>2. none \subseteq Objects
        OBVIOUS
      <4> HIDE DEF none
      <4> QED  BY <1>4, <2>1, <3>2, <3>3, <4>1, <4>2
    <3> QED  BY <2>1, <3>4 DEF TypeOK, writer
  <2> QED  BY <1>6, <2>2, <2>3 DEF Throw
<1>7. ASSUME CloseRoot  PROVE Goal
  BY <1>7 DEF CloseRoot, TypeOK, writer
<1>8. ASSUME Return  PROVE Goal
  BY <1>8 DEF Return, TypeOK, writer
<1>9. ASSUME NEW W \in Wildcards, SetWildcardMasses(W)  PROVE Goal
  BY <1>9 DEF SetWildcardMasses, TypeOK, writer
<1>10. ASSUME UNCHANGED vars  PROVE Goal
  BY <1>10 DEF vars, TypeOK, writer
<1> QED
  BY <1>1, <1>2, <1>3, <1>5, <1>6, <1>7, <1>8, <1>9, <1>10 DEF Next

\* The writer and the files on disk keep their types.
THEOREM WriterTypes == Spec => []TypeOK
<1>1. Init => CallInv
  BY PatternsAssumption, WildcardsAssumption, BoundsAssumption
     DEF Init, CallInv, TypeOK, Closed, Unmapped
<1>2. CallInv => TypeOK
  BY DEF CallInv
<1> QED  BY <1>1, <1>2, StepCall, PTL DEF Spec

HIDE DEF ShapesInv, OnDisk, Visited, Open, Current, Fresh, ShapesPresent

-----------------------------------------------------------------------------
(* Completeness.  For every instance, every pair of patterns and every set *)
(* of wildcard masses: WriteCards puts every object into its card, the     *)
(* wildcard objects into the cards of every mass, and nothing else.        *)
(* The argument follows one object with a mass of its own, o.  Its root    *)
(* file is still to be opened, or it is open and o's card still to be      *)
(* written, or o's card is written; and a written card is not written      *)
(* again, because a later root file leads to other cards: the name of a    *)
(* card contains the name of its root file.                                *)
Root(o) == Compile(root_pattern, o, o.MASS)

-----------------------------------------------------------------------------
(* Names.                                                                  *)

\* Replacing the mass in a name gives the name at that mass.
LEMMA WithMassCompile ==
  ASSUME NEW P, NEW o, NEW m, NEW n
  PROVE  WithMass(Compile(P, o, m), n) = Compile(P, o, n)
  BY DEF WithMass, Compile

\* Two names that are the same object's, or are alike but for the mass.
LEMMA WithMassTwice ==
  ASSUME NEW P, NEW o, NEW l, NEW m, NEW n
  PROVE  WithMass(WithMass(Compile(P, o, l), m), n) = WithMass(Compile(P, o, l), n)
  BY WithMassCompile

\* A name with a mass in it tells the mass.
LEMMA CompileMass ==
  ASSUME NEW P, "MASS" \in P, NEW o, NEW m
  PROVE  Compile(P, o, m)["MASS"] = m
  BY DEF Compile

\* A name without one does not depend on it.
LEMMA CompileNoMass ==
  ASSUME NEW P, "MASS" \notin P, NEW o, NEW m, NEW n
  PROVE  Compile(P, o, m) = Compile(P, o, n)
  BY DEF Compile

\* The name of a card contains the name of its root file.
LEMMA CardTellsRoot ==
  ASSUME NEW P, NEW Q, Q \subseteq P, NEW x, NEW y, NEW m, NEW n,
         Compile(P, x, m) = Compile(P, y, n)
  PROVE  Compile(Q, x, m) = Compile(Q, y, n)
<1>1. \A k \in Q : Compile(P, x, m)[k] = Compile(Q, x, m)[k]
                   /\ Compile(P, y, n)[k] = Compile(Q, y, n)[k]
  BY DEF Compile
<1>2. \A k \in Q : Compile(Q, x, m)[k] = Compile(Q, y, n)[k]
  BY <1>1
<1>3. Compile(Q, x, m) = [k \in Q |-> Compile(Q, x, m)[k]]
  BY DEF Compile
<1>4. Compile(Q, y, n) = [k \in Q |-> Compile(Q, y, n)[k]]
  BY DEF Compile
<1> QED  BY <1>2, <1>3, <1>4

\* What is selected for a key has the name of the key, at the mass of the key
\* or at a wildcard mass.
LEMMA Mapped ==
  ASSUME NEW P, NEW C, NEW key \in Keys(P, C), NEW names \in Maps(P, C, key),
         NEW x, Compile(P, x, x.MASS) \in names
  PROVE  \/ Compile(P, x, x.MASS) = key
         \/ /\ x.MASS \in wildcard_masses
            /\ "MASS" \in P
            /\ \A n : Compile(P, x, n) = WithMass(key, n)
<1>1. PICK y, l : key = Compile(P, y, l)
  BY DEF Keys, FixedKeys, FloatingKeys
<1>2. \/ Compile(P, x, x.MASS) = key
      \/ \E m \in wildcard_masses : Compile(P, x, x.MASS) = WithMass(key, m)
  BY DEF Maps, Floating
<1>3. ASSUME NEW m \in wildcard_masses, Compile(P, x, x.MASS) = WithMass(key, m)
      PROVE  \/ Compile(P, x, x.MASS) = key
             \/ /\ x.MASS \in wildcard_masses
                /\ "MASS" \in P
                /\ \A n : Compile(P, x, n) = WithMass(key, n)
  <2>1. WithMass(key, m) = Compile(P, y, m)
    BY <1>1, WithMassCompile
  <2>2. CASE "MASS" \notin P
    BY <1>1, <1>3, <2>1, <2>2, CompileNoMass
  <2>3. CASE "MASS" \in P
    <3>1. x.MASS = m
      BY <1>3, <2>1, <2>3, CompileMass
    <3>2. ASSUME NEW n  PROVE Compile(P, x, n) = WithMass(key, n)
      BY <1>1, <1>3, WithMassCompile, WithMassTwice
    <3> QED  BY <2>3, <3>1, <3>2
  <2> QED  BY <2>2, <2>3
<1> QED  BY <1>2, <1>3

\* Of the objects with a mass of their own, those of the key are selected.
LEMMA SelectedFixed ==
  ASSUME NEW P, NEW C, NEW key \in Keys(P, C), NEW names \in Maps(P, C, key),
         NEW x \in Fixed(Select(P, C, names))
  PROVE  Compile(P, x, x.MASS) = key
  BY Mapped DEF Fixed, Floating, Select

\* They all are, and with them the wildcard objects that have the key at the
\* same mass.
LEMMA KeySelects ==
  ASSUME NEW P, NEW C, NEW o \in Fixed(C), NEW key, key = Compile(P, o, o.MASS),
         NEW names \in Maps(P, C, key)
  PROVE  /\ o \in Fixed(Select(P, C, names))
         /\ \A w \in Floating(C) :
              Compile(P, w, o.MASS) = key => w \in Floating(Select(P, C, names))
<1>1. names = {key} \cup {WithMass(key, m) : m \in wildcard_masses}
  BY DEF Maps, FixedKeys
<1>2. ASSUME NEW w \in Floating(C), Compile(P, w, o.MASS) = key
      PROVE  Compile(P, w, w.MASS) \in names
  BY <1>1, <1>2, WithMassCompile DEF Floating
<1> QED  BY <1>1, <1>2 DEF Fixed, Floating, Select

\* The cards of a root file whose names agree with that of an object lie in the
\* object's root file.
LEMMA CardsOfRoot ==
  ASSUME NEW Q, NEW P, Q \subseteq P, NEW C, NEW key \in Keys(Q, C),
         NEW names \in Maps(Q, C, key), NEW o,
         Compile(P, o, o.MASS) \in Keys(P, Select(Q, C, names))
  PROVE  Compile(Q, o, o.MASS) = key
<1> DEFINE S == Select(Q, C, names)
<1>1. CASE Compile(P, o, o.MASS) \in FixedKeys(P, S)
  <2>1. PICK x \in Fixed(S) : Compile(P, o, o.MASS) = Compile(P, x, x.MASS)
    BY <1>1 DEF FixedKeys
  <2> QED  BY <2>1, SelectedFixed, CardTellsRoot
<1>2. CASE Compile(P, o, o.MASS) \in FloatingKeys(P, S)
  <2>1. PICK w \in Floating(S), m \in mass_set(S) : Compile(P, o, o.MASS) = Compile(P, w, m)
    BY <1>2 DEF FloatingKeys
  <2>2. PICK x \in Fixed(S) : m = x.MASS
    BY DEF mass_set
  <2>3. Compile(Q, x, m) = key
    BY <2>2, SelectedFixed
  <2>4. WithMass(key, m) = key
    BY <2>3, WithMassCompile
  <2>5. Compile(Q, w, w.MASS) \in names
    BY DEF Floating, Select
  <2>6. Compile(Q, w, m) = key
    <3>1. CASE Compile(Q, w, w.MASS) = key
      BY <2>4, <3>1, WithMassCompile
    <3>2. CASE \A n : Compile(Q, w, n) = WithMass(key, n)
      BY <2>4, <3>2
    <3> QED  BY <2>5, <3>1, <3>2, Mapped
  <2> QED  BY <2>1, <2>6, CardTellsRoot
<1> QED  BY <1>1, <1>2 DEF Keys

-----------------------------------------------------------------------------
(* Where the objects are.                                                  *)

\* The wildcard objects that go into the card of o.
Matching(o) == {w \in Floating(cmb) : Compile(text_pattern, w, o.MASS) = Card(o)}
InSession(o) ==
  /\ pc = "texts" /\ file = Root(o) /\ Card(o) \in texts
  /\ {o} \cup Matching(o) \subseteq f_cmb
Written(o) ==
  /\ Card(o) \in datacards /\ {o} \cup Matching(o) \subseteq textfile[Card(o)].objects
  /\ Root(o) \notin roots /\ Card(o) \notin texts
Followed(o) == Root(o) \in roots \/ InSession(o) \/ Written(o)
Belongs(o, d) ==
  d = Card(o) \/ (o \in Floating(cmb) /\ \E m \in mass_set(cmb) : d = Compile(text_pattern, o, m))

Mapping == pc \in {"roots", "texts", "done"}
AllFollowed == Mapping => \A o \in Fixed(cmb) : Followed(o)
AllBelong == Mapping => \A d \in datacards : \A o \in textfile[d].objects : Belongs(o, d)
RootKeys == roots \subseteq Keys(root_pattern, cmb)
TextKeys == texts \subseteq Keys(text_pattern, f_cmb)
CompleteInv == CallInv /\ AllFollowed /\ AllBelong /\ RootKeys /\ TextKeys

\* The steps that keep the instance keep all names.
LEMMA SameNames ==
  ASSUME UNCHANGED <<writer, cmb, tag>>
  PROVE  /\ Fixed(cmb)' = Fixed(cmb) /\ Keys(root_pattern, cmb)' = Keys(root_pattern, cmb)
         /\ Keys(text_pattern, f_cmb)' = Keys(text_pattern, f_cmb')
         /\ \A o : /\ Card(o)' = Card(o) /\ Root(o)' = Root(o) /\ Matching(o)' = Matching(o)
                   /\ \A d : Belongs(o, d)' <=> Belongs(o, d)
  BY DEF writer, Fixed, Floating, Keys, FixedKeys, FloatingKeys, mass_set, Compile, Card,
         Root, Matching, Belongs

LEMMA RootInText == TypeOK => root_pattern \subseteq text_pattern
  BY PatternsAssumption DEF TypeOK

\* Opening a root file: its objects are selected, and the cards it leads to are
\* none of those already written.
LEMMA OpenRootComplete ==
  ASSUME CompleteInv, NEW key \in roots, OpenRoot(key)
  PROVE  AllFollowed' /\ AllBelong' /\ RootKeys' /\ TextKeys'
<1>1. /\ pc = "roots" /\ pc' = "texts" /\ roots' = roots \ {key} /\ file' = key
      /\ UNCHANGED <<writer, cmb, tag, textfile, datacards>>
      /\ key \in Keys(root_pattern, cmb)
  BY DEF OpenRoot, CompleteInv, RootKeys
<1>2. PICK names \in Maps(root_pattern, cmb, key) :
        f_cmb' = Select(root_pattern, cmb, names) /\ texts' = Keys(text_pattern, f_cmb')
  BY DEF OpenRoot
<1>3. root_pattern \subseteq text_pattern
  BY RootInText DEF CompleteInv, CallInv
<1>4. TextKeys'
  BY <1>1, <1>2, SameNames DEF TextKeys
<1>5. RootKeys'
  <2>1. roots \subseteq Keys(root_pattern, cmb) /\ Keys(root_pattern, cmb)' = Keys(root_pattern, cmb)
    BY <1>1, SameNames DEF RootKeys, CompleteInv
  <2> QED  BY <1>1, <2>1 DEF RootKeys
<1>6. AllBelong'
  BY <1>1, SameNames DEF AllBelong, CompleteInv, Mapping
<1>7. ASSUME NEW o \in Fixed(cmb), Root(o) = key  PROVE InSession(o)'
  <2>1. /\ o \in Fixed(Select(root_pattern, cmb, names))
        /\ \A w \in Floating(cmb) : Compile(root_pattern, w, o.MASS) = key
              => w \in Floating(Select(root_pattern, cmb, names))
    BY <1>2, <1>7, KeySelects DEF Root
  <2>2. \A w \in Matching(o) : w \in Floating(cmb) /\ Compile(root_pattern, w, o.MASS) = key
    BY <1>3, <1>7, CardTellsRoot DEF Matching, Card, Root
  <2>3. {o} \cup Matching(o) \subseteq f_cmb'
    BY <1>2, <2>1, <2>2 DEF Fixed, Floating
  <2>4. Card(o) \in texts'
    BY <1>2, <2>1 DEF Keys, FixedKeys, Card
  <2> QED  BY <1>1, <1>7, <2>3, <2>4, SameNames DEF InSession
<1>8. ASSUME NEW o \in Fixed(cmb), Written(o)  PROVE Written(o)'
  <2>1. Root(o) # key
    BY <1>8 DEF Written
  <2>2. Card(o) \notin texts'
    BY <1>1, <1>2, <1>3, <2>1, CardsOfRoot DEF Card, Root
  <2> QED  BY <1>1, <1>8, <2>2, SameNames DEF Written
<1>9. ASSUME NEW o \in Fixed(cmb)  PROVE Followed(o)'
  <2>1. Root(o) \in roots \/ Written(o)
    BY <1>1 DEF CompleteInv, AllFollowed, Mapping, Followed, InSession
  <2> QED  BY <1>1, <1>7, <1>8, <2>1, SameNames DEF Followed
<1>10. AllFollowed'
  BY <1>1, <1>9, SameNames DEF AllFollowed
<1> QED  BY <1>4, <1>5, <1>6, <1>10

\* The objects selected for a card belong there.
LEMMA SelectedBelong ==
  ASSUME NEW key \in Keys(text_pattern, f_cmb), NEW names \in Maps(text_pattern, f_cmb, key),
         f_cmb \subseteq cmb, NEW o \in Select(text_pattern, f_cmb, names)
  PROVE  Belongs(o, key)
<1>1. o \in cmb /\ Compile(text_pattern, o, o.MASS) \in names
  BY DEF Select
<1>2. PICK m \in mass_set(cmb) : \E y : key = Compile(text_pattern, y, m)
  <2>1. mass_set(f_cmb) \subseteq mass_set(cmb)
    BY DEF mass_set, Fixed, Floating
  <2>2. CASE key \in FixedKeys(text_pattern, f_cmb)
    BY <2>1, <2>2 DEF FixedKeys, mass_set
  <2>3. CASE key \in FloatingKeys(text_pattern, f_cmb)
    BY <2>1, <2>3 DEF FloatingKeys
  <2> QED  BY <2>2, <2>3 DEF Keys
<1>3. WithMass(key, m) = key
  BY <1>2, WithMassCompile
<1>4. CASE Compile(text_pattern, o, o.MASS) = key
  BY <1>4 DEF Belongs, Card
<1>5. CASE o.MASS \in wildcard_masses /\ \A n : Compile(text_pattern, o, n) = WithMass(key, n)
  BY <1>1, <1>2, <1>3, <1>5 DEF Belongs, Floating
<1> QED  BY <1>1, <1>4, <1>5, Mapped

\* Writing a card: the objects followed to it are in it.
LEMMA WriteComplete ==
  ASSUME CompleteInv, NEW key \in texts, WriteDatacard(key)
  PROVE  AllFollowed' /\ AllBelong' /\ RootKeys' /\ TextKeys'
<1>1. PICK names \in Maps(text_pattern, f_cmb, key) :
        textfile' = Put(textfile, key,
           [objects |-> Select(text_pattern, f_cmb, names), file |-> file])
  BY DEF WriteDatacard
<1>2. /\ pc = "texts" /\ texts' = texts \ {key} /\ datacards' = datacards \cup {key}
      /\ UNCHANGED <<writer, cmb, tag, pc, roots, file, f_cmb>>
  BY DEF WriteDatacard
<1>3. /\ DOMAIN textfile' = DOMAIN textfile \cup {key}
      /\ textfile'[key].objects = Select(text_pattern, f_cmb, names)
      /\ \A x \in DOMAIN textfile : x # key => textfile'[x] = textfile[x]
  BY <1>1 DEF Put
<1>4. /\ f_cmb \subseteq cmb /\ key \in Keys(text_pattern, f_cmb)
      /\ datacards \subseteq DOMAIN textfile /\ file \notin roots
  BY <1>2 DEF CompleteInv, CallInv, TypeOK, TextKeys, ShapesInv, Open
<1>5. RootKeys' /\ TextKeys'
  BY <1>2, SameNames DEF RootKeys, TextKeys, CompleteInv
<1>6. ASSUME NEW d \in datacards', NEW o \in textfile'[d].objects  PROVE Belongs(o, d)
  <2>1. CASE d = key
    BY <1>1, <1>3, <1>4, <1>6, <2>1, SelectedBelong
  <2>2. CASE d # key
    BY <1>2, <1>3, <1>4, <1>6, <2>2 DEF CompleteInv, AllBelong, Mapping
  <2> QED  BY <2>1, <2>2
<1>7. AllBelong'
  BY <1>2, <1>6, SameNames DEF AllBelong
<1>8. ASSUME NEW o \in Fixed(cmb), InSession(o), Card(o) = key  PROVE Written(o)'
  <2>1. o \in Fixed(f_cmb) /\ Matching(o) \subseteq Floating(f_cmb)
    BY <1>8 DEF InSession, Matching, Fixed, Floating
  <2>2. /\ o \in Fixed(Select(text_pattern, f_cmb, names))
        /\ \A w \in Floating(f_cmb) : Compile(text_pattern, w, o.MASS) = key
              => w \in Floating(Select(text_pattern, f_cmb, names))
    BY <1>8, <2>1, KeySelects DEF Card
  <2>3. {o} \cup Matching(o) \subseteq textfile'[key].objects
    BY <1>3, <1>8, <2>1, <2>2 DEF Matching, Fixed, Floating
  <2>4. Root(o) \notin roots
    BY <1>4, <1>8 DEF InSession
  <2> QED  BY <1>2, <1>8, <2>3, <2>4, SameNames DEF Written
<1>9. ASSUME NEW o \in Fixed(cmb), InSession(o), Card(o) # key  PROVE InSession(o)'
  BY <1>2, <1>9, SameNames DEF InSession
<1>10. ASSUME NEW o \in Fixed(cmb), Written(o)  PROVE Written(o)'
  <2>1. Card(o) # key
    BY <1>10 DEF Written
  <2>2. textfile'[Card(o)] = textfile[Card(o)]
    BY <1>3, <1>4, <1>10, <2>1 DEF Written
  <2> QED  BY <1>2, <1>10, <2>2, SameNames DEF Written
<1>11. ASSUME NEW o \in Fixed(cmb)  PROVE Followed(o)'
  <2>1. Followed(o)
    BY <1>2 DEF CompleteInv, AllFollowed, Mapping
  <2> QED  BY <1>2, <1>8, <1>9, <1>10, <2>1, SameNames DEF Followed
<1>12. AllFollowed'
  BY <1>2, <1>11, SameNames DEF AllFollowed
<1> QED  BY <1>5, <1>7, <1>12

\* Every step keeps track of the objects.
LEMMA StepComplete == CompleteInv /\ [Next]_vars => CompleteInv'
<1> SUFFICES ASSUME CompleteInv, [Next]_vars
             PROVE  AllFollowed' /\ AllBelong' /\ RootKeys' /\ TextKeys'
  BY StepCall DEF CompleteInv
<1> DEFINE Goal == AllFollowed' /\ AllBelong' /\ RootKeys' /\ TextKeys'
<1>0. /\ CallInv /\ CallInv' /\ AllFollowed /\ AllBelong /\ RootKeys /\ TextKeys
  BY StepCall DEF CompleteInv
<1>1. ASSUME NEW t \in Tags, NEW C \in SUBSET Objects, WriteCards(t, C)  PROVE Goal
  <2>1. pc \in {"idle", "done"} /\ pc' = "tagged" /\ UNCHANGED <<roots, texts>>
    BY <1>1 DEF WriteCards
  <2>2. roots' = {} /\ texts' = {}
    BY <1>0, <2>1 DEF CallInv, Closed, Unmapped
  <2> QED  BY <2>1, <2>2 DEF AllFollowed, AllBelong, Mapping, RootKeys, TextKeys
<1>2. ASSUME BuildRootMap  PROVE Goal
  <2>1. /\ pc = "tagged" /\ pc' = "roots" /\ roots' = Keys(root_pattern, cmb)
        /\ UNCHANGED <<writer, cmb, tag, texts, datacards>>
    BY <1>2 DEF BuildRootMap
  <2>2. texts' = {} /\ datacards' = {}
    BY <1>0, <2>1 DEF CallInv, Closed, ShapesInv, Fresh
  <2>3. \A o \in Fixed(cmb) : Root(o) \in roots'
    BY <2>1 DEF Keys, FixedKeys, Root
  <2>4. AllFollowed'
    BY <2>1, <2>3, SameNames DEF AllFollowed, Followed
  <2>5. RootKeys'
    BY <2>1, SameNames DEF RootKeys
  <2> QED  BY <2>2, <2>4, <2>5 DEF AllBelong, TextKeys
<1>3. ASSUME NEW key \in roots, OpenRoot(key)  PROVE Goal
  BY <1>3, OpenRootComplete
<1>4. ASSUME NEW key \in texts, WriteDatacard(key)  PROVE Goal
  BY <1>4, WriteComplete
<1>5. ASSUME NEW key \in texts, Throw(key)  PROVE Goal
  <2>1. pc' = "idle" /\ roots' = {} /\ texts' = {}
    BY <1>5 DEF Throw
  <2> QED  BY <2>1 DEF AllFollowed, AllBelong, Mapping, RootKeys, TextKeys
<1>6. ASSUME CloseRoot  PROVE Goal
  <2>1. /\ pc = "texts" /\ pc' = "roots" /\ texts = {} /\ texts' = {}
        /\ UNCHANGED <<writer, cmb, tag, roots, textfile, datacards>>
    BY <1>6 DEF CloseRoot
  <2>2. ASSUME NEW o \in Fixed(cmb)  PROVE Followed(o)'
    <3>1. Root(o) \in roots \/ Written(o)
      BY <1>0, <2>1 DEF AllFollowed, Mapping, Followed, InSession
    <3> QED  BY <2>1, <3>1, SameNames DEF Followed, Written
  <2>3. AllFollowed'
    BY <2>1, <2>2, SameNames DEF AllFollowed
  <2>4. AllBelong'
    BY <1>0, <2>1, SameNames DEF AllBelong, Mapping
  <2> QED  BY <1>0, <2>1, <2>3, <2>4, SameNames DEF RootKeys, TextKeys
<1>7. ASSUME Return  PROVE Goal
  <2>1. /\ pc = "roots" /\ pc' = "done"
        /\ UNCHANGED <<writer, cmb, tag, roots, texts, f_cmb, textfile, datacards>>
    BY <1>7 DEF Return
  <2>2. ASSUME NEW o \in Fixed(cmb)  PROVE Followed(o)'
    <3>1. Root(o) \in roots \/ Written(o)
      BY <1>0, <2>1 DEF AllFollowed, Mapping, Followed, InSession
    <3> QED  BY <2>1, <3>1, SameNames DEF Followed, Written
  <2>3. AllFollowed'
    BY <2>1, <2>2, SameNames DEF AllFollowed
  <2>4. AllBelong'
    BY <1>0, <2>1, SameNames DEF AllBelong, Mapping
  <2> QED  BY <1>0, <2>1, <2>3, <2>4, SameNames DEF RootKeys, TextKeys
<1>8. ASSUME NEW W \in Wildcards, SetWildcardMasses(W)  PROVE Goal
  <2>1. pc \in {"idle", "done"} /\ pc' = "idle" /\ UNCHANGED <<roots, texts>>
    BY <1>8 DEF SetWildcardMasses
  <2>2. roots' = {} /\ texts' = {}
    BY <1>0, <2>1 DEF CallInv, Closed, Unmapped
  <2> QED  BY <2>1, <2>2 DEF AllFollowed, AllBelong, Mapping, RootKeys, TextKeys
<1>9. ASSUME UNCHANGED vars  PROVE Goal
  <2>1. UNCHANGED <<writer, cmb, tag, pc, roots, texts, file, f_cmb, textfile, datacards>>
    BY <1>9 DEF vars
  <2>2. ASSUME NEW o \in Fixed(cmb), Followed(o)  PROVE Followed(o)'
    BY <2>1, <2>2, SameNames DEF Followed, InSession, Written
  <2>3. AllFollowed' /\ AllBelong'
    BY <1>0, <2>1, <2>2, SameNames DEF AllFollowed, AllBelong, Mapping
  <2> QED  BY <1>0, <2>1, <2>3, SameNames DEF RootKeys, TextKeys
<1> QED
  BY <1>1, <1>2, <1>3, <1>4, <1>5, <1>6, <1>7, <1>8, <1>9 DEF Next

LEMMA InitComplete == Init => CompleteInv
  BY PatternsAssumption, WildcardsAssumption, BoundsAssumption
     DEF Init, CompleteInv, CallInv, TypeOK, Closed, Unmapped, ShapesInv, OnDisk, Visited, Open,
         Current, Fresh, ShapesPresent, AllFollowed, AllBelong, Mapping, RootKeys, TextKeys

\* When WriteCards returns, every object with a mass of its own is in the card
\* named after it, with all wildcard objects that match it: BuildMap's
\* mappings lose none, and no later card takes the name of an earlier one.
THEOREM WriterLosesNothing == Spec => []CardsComplete
<1>1. CompleteInv => CardsComplete
  <2> SUFFICES ASSUME CompleteInv, pc = "done", NEW o \in Fixed(cmb)
               PROVE  Card(o) \in datacards /\ {o} \cup Matching(o) \subseteq textfile[Card(o)].objects
    BY DEF CardsComplete, Matching
  <2>1. roots = {} /\ Followed(o)
    BY DEF CompleteInv, CallInv, Unmapped, AllFollowed, Mapping
  <2> QED  BY <2>1 DEF Followed, InSession, Written
<1> QED  BY <1>1, InitComplete, StepComplete, PTL DEF Spec

\* When WriteCards returns, a card holds the objects of its name, and wildcard
\* objects at the mass of its name, only.
THEOREM WriterMixesNothing == Spec => []NoStrangers
<1>1. CompleteInv => NoStrangers
  BY DEF CompleteInv, AllBelong, Mapping, Belongs, NoStrangers
<1> QED  BY <1>1, InitComplete, StepComplete, PTL DEF Spec
=============================================================================
