------------------------------ MODULE CardWriter ------------------------------
(***************************************************************************)
(* ch::CardWriter: which text datacards and root files WriteCards creates  *)
(* for the objects of an instance, and which objects go into each.  A file *)
(* name is a function from the placeholders of its pattern to what they    *)
(* are replaced by.  An object with one of the wildcard masses belongs to  *)
(* the files of every mass.                                                *)
(***************************************************************************)
EXTENDS Naturals, FiniteSets

CONSTANTS
  Objects,        \* records of metadata: BIN, CHANNEL, MASS, ...
  Tags,           \* values of $TAG
  Patterns,       \* [text, root]: the placeholders in the two patterns
  Wildcards,      \* arguments of SetWildcardMasses
  DefaultWild,    \* wildcard_masses_ of a new writer
  MaxObjects,     \* bound on the objects of an instance
  MaxCalls        \* bound on the calls of WriteCards

\* The root file of a datacard can be told from the name of the datacard, as
\* in the example of CardWriter.h.
ASSUME PatternsAssumption == \A q \in Patterns : q.root \subseteq q.text
ASSUME ObjectsAssumption ==
  \A o \in Objects : /\ "MASS" \in DOMAIN o
                     /\ \A q \in Patterns : q.text \subseteq DOMAIN o \cup {"TAG"}
ASSUME WildcardsAssumption == DefaultWild \in Wildcards
ASSUME BoundsAssumption == MaxObjects \in Nat /\ MaxCalls \in Nat

VARIABLES
  text_pattern, root_pattern, wildcard_masses,   \* of the writer
  cmb,         \* the objects of the instance
  pc, tag,     \* where WriteCards is, and tag_
  roots,       \* keys of f_map still to be visited
  file, f_cmb, \* the open root file and the objects selected for it
  texts,       \* keys of d_map still to be visited
  rootfile,    \* root files on disk: the objects whose shapes they hold
  textfile,    \* text files on disk: their objects and their root file
  datacards,   \* names of the datacards this call has written
  calls        \* calls of WriteCards so far

writer == <<text_pattern, root_pattern, wildcard_masses>>
vars == <<writer, cmb, pc, tag, roots, file, f_cmb, texts, rootfile, textfile,
          datacards, calls>>

-----------------------------------------------------------------------------
Floating(C) == {o \in C : o.MASS \in wildcard_masses}
Fixed(C) == C \ Floating(C)
mass_set(C) == {o.MASS : o \in Fixed(C)}

\* Compile with $MASS replaced by m.
Compile(pattern, o, m) ==
  [k \in pattern |-> IF k = "TAG" THEN tag ELSE IF k = "MASS" THEN m ELSE o[k]]
WithMass(name, m) == [k \in DOMAIN name |-> IF k = "MASS" THEN m ELSE name[k]]

\* BuildMap: the names of the objects with a mass of their own, and those of
\* the wildcard objects at every such mass.
FixedKeys(pattern, C) == {Compile(pattern, o, o.MASS) : o \in Fixed(C)}
FloatingKeys(pattern, C) == {Compile(pattern, o, m) : o \in Floating(C), m \in mass_set(C)}
Keys(pattern, C) == FixedKeys(pattern, C) \cup FloatingKeys(pattern, C)

\* Mutant: only the first wildcard mass is substituted.
MapsFirstWild(pattern, C, key) ==
  IF key \in FixedKeys(pattern, C)
  THEN {{key, WithMass(key, m)} : m \in wildcard_masses}
  ELSE {{WithMass(key, o.MASS)} :
          o \in {x \in Floating(C) : \E m \in mass_set(C) : Compile(pattern, x, m) = key}}

\* BuildMap: what the key can be mapped to, the names of the objects selected
\* for that file.  Where only wildcard objects have the key, the first of them
\* decides.
Maps(pattern, C, key) ==
  IF key \in FixedKeys(pattern, C)
  THEN {{key} \cup {WithMass(key, m) : m \in wildcard_masses}}
  ELSE {{WithMass(key, o.MASS)} :
          o \in {x \in Floating(C) : \E m \in mass_set(C) : Compile(pattern, x, m) = key}}

\* Mutant: objects are kept if they match any wildcard.
SelectAnyWild(pattern, C, names) ==
  {o \in C : Compile(pattern, o, o.MASS) \in names \/ o.MASS \in wildcard_masses}

\* The FilterAll that leaves the objects of one file.
Select(pattern, C, names) == {o \in C : Compile(pattern, o, o.MASS) \in names}

Put(f, k, v) == [x \in DOMAIN f \cup {k} |-> IF x = k THEN v ELSE f[x]]

-----------------------------------------------------------------------------
Init ==
  /\ \E q \in Patterns : text_pattern = q.text /\ root_pattern = q.root
  /\ wildcard_masses = DefaultWild
  /\ cmb = {} /\ pc = "idle" /\ tag \in Tags
  /\ roots = {} /\ file = <<>> /\ f_cmb = {} /\ texts = {}
  /\ rootfile = <<>> /\ textfile = <<>> /\ datacards = {}
  /\ calls = 0

SetWildcardMasses(W) ==
  /\ pc \in {"idle", "done"} /\ calls < MaxCalls
  /\ pc' = "idle" /\ wildcard_masses' = W
  /\ UNCHANGED <<text_pattern, root_pattern, cmb, tag, roots, file, f_cmb, texts,
                 rootfile, textfile, datacards, calls>>

\* The client calls WriteCards with an instance of its own making.
WriteCards(t, C) ==
  /\ pc \in {"idle", "done"} /\ calls < MaxCalls /\ Cardinality(C) <= MaxObjects
  /\ pc' = "tagged" /\ calls' = calls + 1
  /\ cmb' = C /\ tag' = t /\ datacards' = {}
  /\ UNCHANGED <<writer, roots, file, f_cmb, texts, rootfile, textfile>>

BuildRootMap ==
  /\ pc = "tagged"
  /\ pc' = "roots" /\ roots' = Keys(root_pattern, cmb)
  /\ UNCHANGED <<writer, cmb, tag, file, f_cmb, texts, rootfile, textfile, datacards,
                 calls>>

\* A root file is created, an existing one overwritten, and the datacards that
\* will refer to it are determined.
OpenRoot(key) ==
  /\ pc = "roots" /\ key \in roots
  /\ roots' = roots \ {key} /\ file' = key /\ pc' = "texts"
  /\ rootfile' = Put(rootfile, key, {})
  /\ \E names \in Maps(root_pattern, cmb, key) :
       /\ f_cmb' = Select(root_pattern, cmb, names)
       /\ texts' = Keys(text_pattern, f_cmb')
  /\ UNCHANGED <<writer, cmb, tag, textfile, datacards, calls>>

\* Mutant: the shapes go into a file that is re-created for every card.
WriteDatacardAlone(key) ==
  /\ pc = "texts" /\ key \in texts
  /\ texts' = texts \ {key} /\ datacards' = datacards \cup {key}
  /\ \E names \in Maps(text_pattern, f_cmb, key) :
       LET d_cmb == Select(text_pattern, f_cmb, names)
       IN /\ textfile' = Put(textfile, key, [objects |-> d_cmb, file |-> file])
          /\ rootfile' = Put(rootfile, file, d_cmb)
  /\ UNCHANGED <<writer, cmb, pc, tag, roots, file, f_cmb, calls>>

\* WriteDatacard: the text, and the shapes into the open root file.
WriteDatacard(key) ==
  /\ pc = "texts" /\ key \in texts
  /\ texts' = texts \ {key} /\ datacards' = datacards \cup {key}
  /\ \E names \in Maps(text_pattern, f_cmb, key) :
       LET d_cmb == Select(text_pattern, f_cmb, names)
       IN /\ textfile' = Put(textfile, key, [objects |-> d_cmb, file |-> file])
          /\ rootfile' = Put(rootfile, file, rootfile[file] \cup d_cmb)
  /\ UNCHANGED <<writer, cmb, pc, tag, roots, file, f_cmb, calls>>

\* Mutant: the card is entered in the result before it is written.
ThrowRecorded(key) ==
  /\ pc = "texts" /\ key \in texts
  /\ pc' = "idle" /\ roots' = {} /\ texts' = {} /\ file' = <<>> /\ f_cmb' = {}
  /\ datacards' = datacards \cup {key}
  /\ \/ UNCHANGED <<rootfile, textfile>>
     \/ \E shapes \in SUBSET Select(text_pattern, f_cmb, {key}) :
          /\ textfile' = Put(textfile, key, [objects |-> {}, file |-> file])
          /\ rootfile' = Put(rootfile, file, rootfile[file] \cup shapes)
  /\ UNCHANGED <<writer, cmb, tag, calls>>

\* WriteDatacard throws: the text file cannot be created, or is left truncated
\* with some of the shapes already in the root file.  WriteCards passes the
\* exception on to the client, which may call it again.
Throw(key) ==
  /\ pc = "texts" /\ key \in texts
  /\ pc' = "idle" /\ roots' = {} /\ texts' = {} /\ file' = <<>> /\ f_cmb' = {}
  /\ \/ UNCHANGED <<rootfile, textfile>>
     \/ \E names \in Maps(text_pattern, f_cmb, key) :
          \E shapes \in SUBSET Select(text_pattern, f_cmb, names) :
            /\ textfile' = Put(textfile, key, [objects |-> {}, file |-> file])
            /\ rootfile' = Put(rootfile, file, rootfile[file] \cup shapes)
  /\ UNCHANGED <<writer, cmb, tag, datacards, calls>>

CloseRoot ==
  /\ pc = "texts" /\ texts = {}
  /\ pc' = "roots" /\ file' = <<>> /\ f_cmb' = {}
  /\ UNCHANGED <<writer, cmb, tag, roots, texts, rootfile, textfile, datacards, calls>>

Return ==
  /\ pc = "roots" /\ roots = {}
  /\ pc' = "done"
  /\ UNCHANGED <<writer, cmb, tag, roots, file, f_cmb, texts, rootfile, textfile, datacards,
                 calls>>

Next ==
  \/ \E t \in Tags, C \in SUBSET Objects : WriteCards(t, C)
  \/ \E W \in Wildcards : SetWildcardMasses(W)
  \/ BuildRootMap
  \/ \E key \in roots : OpenRoot(key)
  \/ \E key \in texts : WriteDatacard(key) \/ Throw(key)
  \/ CloseRoot \/ Return

Spec == Init /\ [][Next]_vars

-----------------------------------------------------------------------------
TypeOK ==
  /\ \E q \in Patterns : text_pattern = q.text /\ root_pattern = q.root
  /\ wildcard_masses \in Wildcards
  /\ cmb \subseteq Objects /\ f_cmb \subseteq cmb
  /\ pc \in {"idle", "tagged", "roots", "texts", "done"} /\ tag \in Tags
  /\ datacards \subseteq DOMAIN textfile /\ calls \in 0 .. MaxCalls
  /\ \A d \in DOMAIN textfile :
       textfile[d].objects \subseteq Objects /\ textfile[d].file \in DOMAIN rootfile
  /\ \A f \in DOMAIN rootfile : rootfile[f] \subseteq Objects

Card(o) == Compile(text_pattern, o, o.MASS)

\* Every object with a mass of its own is in the datacard named after it, with
\* every wildcard object that differs from it only in the mass: those are
\* "treated as matching any mass value".  A later root file, or a wildcard key,
\* never overwrites that card without them.  (A card that only wildcard objects
\* bring is not meant: it gets those of one wildcard, see Maps.)
CardsComplete ==
  pc = "done" => \A o \in Fixed(cmb) :
    /\ Card(o) \in datacards /\ o \in textfile[Card(o)].objects
    /\ \A w \in Floating(cmb) :
         Compile(text_pattern, w, o.MASS) = Card(o) => w \in textfile[Card(o)].objects

\* A card holds no object of another bin, channel or mass.
NoStrangers ==
  pc = "done" => \A d \in datacards : \A o \in textfile[d].objects :
    d = Card(o) \/ (o \in Floating(cmb) /\ \E m \in mass_set(cmb) : d = Compile(text_pattern, o, m))

\* A card this call has written finds its shapes in its root file, also after
\* the root files that follow were created, and that file keeps no shape of an
\* earlier call ("any existing files with the same name will be over-written").
ShapesPresent ==
  \A d \in datacards : /\ textfile[d].objects \subseteq rootfile[textfile[d].file]
                       /\ rootfile[textfile[d].file] \subseteq cmb
=============================================================================
