---------------------------- MODULE DatacardProofs ----------------------------
(***************************************************************************)
(* For every instance, any number of cards of it in one root file, and any *)
(* calls that throw.                                                       *)
(*                                                                         *)
(* A card that gets a rate line tells its processes apart by their ids.    *)
(* The invariant of the loop says what it has done when it has come to p   *)
(* from the front and from the back: the ids given are below bkg_id and    *)
(* above sig_id, so the next one is new, and no process was given one as   *)
(* both.                                                                   *)
(*                                                                         *)
(* What is read back follows from what the files hold: where the lines of  *)
(* a card are (CardsInv) and which lines a finished one has (LinesInv),    *)
(* that every histogram in the root file lies at a path of the object it   *)
(* was taken from (RootInv) and those of a finished card are there         *)
(* (HistsInv), and what ParseDatacard has read of the card when it is at   *)
(* line i: columns (ColumnsInv, PassedInv), entries and groups             *)
(* (EntriesInv), parameters (RecordsInv, ParamsInv).  From the same        *)
(* invariants, no line of such a card makes it throw.                      *)
(***************************************************************************)
EXTENDS Datacard, FiniteSetTheorems, TLAPS

N == Len(cmb.procs)
IsSequence == N \in Nat /\ DOMAIN cmb.procs = 1..N

Has(k) == cmb.procs[k].process \in DOMAIN p_ids
Id(k) == p_ids[cmb.procs[k].process]

\* Every process has an id of its own.
Own == \A x, y \in DOMAIN p_ids : p_ids[x] = p_ids[y] => x = y
\* The ids given so far lie between the next two.
Between ==
  /\ sig_id \in Int /\ sig_id <= 0 /\ bkg_id \in Int /\ bkg_id > 0
  /\ \A x \in DOMAIN p_ids : p_ids[x] \in Int /\ sig_id < p_ids[x] /\ p_ids[x] < bkg_id
\* The columns that the loop has passed.
Passed ==
  /\ \A k \in 1..N : ~cmb.procs[k].signal /\ (k < p \/ (pc = "signal" /\ k = p))
                     => Has(k) /\ Id(k) > 0
  /\ \A k \in 1..N : cmb.procs[k].signal /\ k > N + 1 - p => Has(k) /\ Id(k) <= 0

Numbering ==
  pc \in {"background", "signal"} =>
    /\ p \in 1..(N + 1) /\ (pc = "signal" => p <= N)
    /\ Own /\ Between /\ Passed
Numbered ==
  pc = "nuisances" =>
    Own /\ \A k \in 1..N : Has(k) /\ ((Id(k) <= 0) <=> cmb.procs[k].signal)

IdsInv == cb \in Inputs /\ IsSequence /\ Numbering /\ Numbered

\* What is kept of a sequence is a sequence.
LEMMA KeptSequence ==
  ASSUME NEW S, NEW s \in Seq(S), NEW K \in SUBSET DOMAIN s
  PROVE  Len(Kept(s, K)) \in Nat /\ DOMAIN Kept(s, K) = 1..Len(Kept(s, K))
<1> DEFINE t == Kept(s, K)
           T == {t[n] : n \in 1..Cardinality(K)}
<1>1. IsFiniteSet(DOMAIN s)
  <2>1. Len(s) \in Nat /\ DOMAIN s = 1..Len(s)
    OBVIOUS
  <2> QED BY <2>1, FS_Interval
<1>2. Cardinality(K) \in Nat
  BY <1>1, FS_Subset, FS_CardinalityType
<1>3. t \in [1..Cardinality(K) -> T]
  BY DEF Kept
<1> HIDE DEF t, T
<1>4. t \in Seq(T)
  BY <1>2, <1>3
<1>5. Len(t) \in Nat /\ DOMAIN t = 1..Len(t)
  BY <1>4
<1> QED BY <1>5 DEF t

LEMMA InitIds == Init => IdsInv
<1> SUFFICES ASSUME Init PROVE IdsInv
  OBVIOUS
<1>1. cb \in Inputs /\ pc = "client" /\ cmb.procs = <<>>
  BY DEF Init, Nothing
<1>2. IsSequence
  BY <1>1 DEF IsSequence, N
<1> QED BY <1>1, <1>2 DEF IdsInv, Numbering, Numbered

\* A call starts with the processes of its masses.
LEMMA WriteDatacardIds ==
  ASSUME IdsInv, NEW F, NEW open, WriteDatacard(F, open)
  PROVE  IdsInv'
<1>1. cb' = cb /\ cmb' = Select(cb, F) /\ pc' = "mappings"
  BY DEF WriteDatacard
<1>2. cb.procs \in Seq(Process)
  BY InputsAssumption DEF IdsInv
<1> DEFINE K == {k \in DOMAIN cb.procs : cb.procs[k].mass \in F}
<1>3. cmb'.procs = Kept(cb.procs, K)
  BY <1>1 DEF Select
<1>4. K \in SUBSET DOMAIN cb.procs
  OBVIOUS
<1> HIDE DEF K
<1>5. IsSequence'
  BY <1>2, <1>3, <1>4, KeptSequence DEF IsSequence, N
<1> QED BY <1>1, <1>5 DEF IdsInv, Numbering, Numbered

\* The loop starts with no id given.
LEMMA WriteProcessesIds ==
  ASSUME IdsInv, WriteProcesses
  PROVE  IdsInv'
<1>1. /\ cb' = cb /\ cmb' = cmb /\ pc' = "background"
      /\ p' = 1 /\ p_ids' = <<>> /\ sig_id' = 0 /\ bkg_id' = 1
  BY DEF WriteProcesses, writer
<1>2. DOMAIN p_ids' = {}
  BY <1>1
<1>3. IsSequence' /\ N' = N
  BY <1>1 DEF IdsInv, IsSequence, N
<1>4. Own' /\ Between' /\ Passed'
  BY <1>1, <1>2, <1>3 DEF IdsInv, IsSequence, Own, Between, Passed
<1> QED BY <1>1, <1>3, <1>4 DEF IdsInv, IsSequence, Numbering, Numbered

\* The background in front gets the next id from above, or has one.
LEMMA NumberBackgroundIds ==
  ASSUME IdsInv, NumberBackground
  PROVE  IdsInv'
<1> DEFINE q == cmb.procs[p]
<1>1. /\ pc = "background" /\ p <= N
      /\ cb' = cb /\ cmb' = cmb /\ p' = p /\ sig_id' = sig_id
  BY DEF NumberBackground, N, writer, ids
<1>2. IsSequence' /\ N' = N /\ N \in Nat
  BY <1>1 DEF IdsInv, IsSequence, N
<1>3. p \in 1..N /\ Own /\ Between /\ Passed
  BY <1>1, <1>2 DEF IdsInv, Numbering
<1>4. CASE q.signal
  <2>1. pc' = "signal" /\ p_ids' = p_ids /\ bkg_id' = bkg_id
    BY <1>4 DEF NumberBackground
  <2>2. Own' /\ Between' /\ Passed'
    BY <1>1, <1>2, <1>3, <1>4, <2>1 DEF Own, Between, Passed, Has, Id
  <2> QED BY <1>1, <1>2, <1>3, <2>1, <2>2 DEF IdsInv, Numbering, Numbered
<1>5. CASE ~q.signal /\ q.process \notin DOMAIN p_ids
  <2>1. /\ pc' = "signal" /\ bkg_id' = bkg_id + 1
        /\ DOMAIN p_ids' = DOMAIN p_ids \cup {q.process}
        /\ p_ids'[q.process] = bkg_id
        /\ \A x \in DOMAIN p_ids : p_ids'[x] = p_ids[x]
    BY <1>5 DEF NumberBackground
  <2>2. Own' /\ Between'
    BY <1>1, <1>3, <1>5, <2>1 DEF Own, Between
  <2>3. Passed'
    BY <1>1, <1>2, <1>3, <1>5, <2>1 DEF Passed, Between, Has, Id
  <2> QED BY <1>1, <1>2, <1>3, <2>1, <2>2, <2>3 DEF IdsInv, Numbering, Numbered
<1>6. CASE ~q.signal /\ q.process \in DOMAIN p_ids
  <2>1. /\ p_ids' = p_ids /\ bkg_id' = bkg_id
        /\ pc' = IF p_ids[q.process] <= 0 THEN "client" ELSE "signal"
    BY <1>6 DEF NumberBackground, Throw
  <2>2. pc' = "signal" => Own' /\ Between' /\ Passed'
    BY <1>1, <1>2, <1>3, <1>6, <2>1 DEF Own, Between, Passed, Has, Id
  <2> QED BY <1>1, <1>2, <1>3, <2>1, <2>2 DEF IdsInv, Numbering, Numbered
<1> QED BY <1>4, <1>5, <1>6

\* The signal at the back gets the next id from below, or has one.
LEMMA NumberSignalIds ==
  ASSUME IdsInv, NumberSignal
  PROVE  IdsInv'
<1> DEFINE q == cmb.procs[N + 1 - p]
<1>1. /\ pc = "signal" /\ p' = p + 1
      /\ cb' = cb /\ cmb' = cmb /\ bkg_id' = bkg_id
  BY DEF NumberSignal, writer, ids
<1>2. IsSequence' /\ N' = N /\ N \in Nat
  BY <1>1 DEF IdsInv, IsSequence, N
<1>3. p \in 1..N /\ Own /\ Between /\ Passed
  BY <1>1, <1>2 DEF IdsInv, Numbering
<1>4. CASE ~q.signal
  <2>1. pc' = "background" /\ p_ids' = p_ids /\ sig_id' = sig_id
    BY <1>4 DEF NumberSignal, N
  <2>2. Own' /\ Between' /\ Passed'
    BY <1>1, <1>2, <1>3, <1>4, <2>1 DEF Own, Between, Passed, Has, Id
  <2> QED BY <1>1, <1>2, <1>3, <2>1, <2>2 DEF IdsInv, Numbering, Numbered
<1>5. CASE q.signal /\ q.process \notin DOMAIN p_ids
  <2>1. /\ pc' = "background" /\ sig_id' = sig_id - 1
        /\ DOMAIN p_ids' = DOMAIN p_ids \cup {q.process}
        /\ p_ids'[q.process] = sig_id
        /\ \A x \in DOMAIN p_ids : p_ids'[x] = p_ids[x]
    BY <1>5 DEF NumberSignal, N
  <2>2. Own' /\ Between'
    BY <1>1, <1>3, <1>5, <2>1 DEF Own, Between
  <2>3. Passed'
    BY <1>1, <1>2, <1>3, <1>5, <2>1 DEF Passed, Between, Has, Id
  <2> QED BY <1>1, <1>2, <1>3, <2>1, <2>2, <2>3 DEF IdsInv, Numbering, Numbered
<1>6. CASE q.signal /\ q.process \in DOMAIN p_ids
  <2>1. /\ p_ids' = p_ids /\ sig_id' = sig_id
        /\ pc' = IF p_ids[q.process] > 0 THEN "client" ELSE "background"
    BY <1>6 DEF NumberSignal, Throw, N
  <2>2. pc' = "background" => Own' /\ Between' /\ Passed'
    BY <1>1, <1>2, <1>3, <1>6, <2>1 DEF Own, Between, Passed, Has, Id
  <2> QED BY <1>1, <1>2, <1>3, <2>1, <2>2 DEF IdsInv, Numbering, Numbered
<1> QED BY <1>4, <1>5, <1>6

\* When the loop has ended, it has passed every column from both ends.
LEMMA WriteRatesIds ==
  ASSUME IdsInv, WriteRates
  PROVE  IdsInv'
<1>1. /\ pc = "background" /\ p > N /\ pc' = "nuisances"
      /\ cb' = cb /\ cmb' = cmb /\ p_ids' = p_ids
  BY DEF WriteRates, N, writer, ids
<1>2. IsSequence' /\ N' = N /\ N \in Nat
  BY <1>1 DEF IdsInv, IsSequence, N
<1>3. p = N + 1 /\ Own /\ Between /\ Passed
  BY <1>1, <1>2 DEF IdsInv, Numbering
<1>4. \A k \in 1..N : Has(k) /\ ((Id(k) <= 0) <=> cmb.procs[k].signal)
  BY <1>2, <1>3 DEF Passed, Between, Has, Id
<1> QED BY <1>1, <1>2, <1>3, <1>4 DEF IdsInv, Numbering, Numbered, Own, Has, Id

\* What the rest of the steps leave alone.
LEMMA OtherIds ==
  ASSUME IdsInv, cb' = cb, cmb' = cmb, p_ids' = p_ids,
         pc' \notin {"background", "signal"}, pc' = "nuisances" => pc = "nuisances"
  PROVE  IdsInv'
  BY DEF IdsInv, IsSequence, N, Numbering, Numbered, Own, Has, Id

LEMMA NextIds == IdsInv /\ [Next]_vars => IdsInv'
<1> SUFFICES ASSUME IdsInv, [Next]_vars PROVE IdsInv'
  OBVIOUS
<1>1. CASE \E F \in Filters, open \in BOOLEAN : WriteDatacard(F, open)
  BY <1>1, WriteDatacardIds
<1>2. CASE FillHistMappings
  BY <1>2, OtherIds DEF FillHistMappings, Throw, writer, ids
<1>3. CASE WriteObservations
  BY <1>3, OtherIds DEF WriteObservations, writer, ids
<1>4. CASE WriteProcesses
  BY <1>4, WriteProcessesIds
<1>5. CASE NumberBackground
  BY <1>5, NumberBackgroundIds
<1>6. CASE NumberSignal
  BY <1>6, NumberSignalIds
<1>7. CASE WriteRates
  BY <1>7, WriteRatesIds
<1>8. CASE \E n \in todo : WriteNuisance(n)
  <2>1. PICK n \in todo : WriteNuisance(n)
    BY <1>8
  <2>2. /\ pc = "nuisances" /\ pc' \in {"nuisances", "client"}
        /\ cb' = cb /\ cmb' = cmb /\ p_ids' = p_ids
    BY <2>1 DEF WriteNuisance, Throw, writer, ids
  <2> QED BY <2>2, OtherIds
<1>9. CASE WriteTail
  BY <1>9, OtherIds DEF WriteTail, writer, ids
<1>10. CASE \E F \in complete, m \in Masses : ParseDatacard(F, m)
  BY <1>10, OtherIds DEF ParseDatacard, ids
<1>11. CASE ReadShapes \/ ReadObservations \/ ReadRates \/ Ignored \/ ReadParam
            \/ ReadNuisance \/ ReadRateParam \/ ReadFreeze \/ ReadAutoMCStats \/ ReadGroup
  <2>1. Rest /\ pc = "parse" /\ pc' \in {"parse", "client"}
    BY <1>11 DEF ReadShapes, ReadObservations, ReadRates, Ignored, ReadParam, ReadNuisance,
         ReadRateParam, ReadFreeze, ReadAutoMCStats, ReadGroup, Scanning, Reading, Skip, Fail
  <2> QED BY <2>1, OtherIds DEF Rest, writer, ids
<1>12. CASE EndParse \/ Return
  BY <1>12, OtherIds DEF EndParse, Return, writer, ids
<1>13. CASE UNCHANGED vars
  BY <1>13, OtherIds DEF vars, writer, ids, IdsInv, IsSequence, N, Numbering, Numbered,
       Own, Between, Passed, Has, Id
<1> QED BY <1>1, <1>2, <1>3, <1>4, <1>5, <1>6, <1>7, <1>8, <1>9, <1>10, <1>11, <1>12, <1>13
    DEF Next

LEMMA IdsSound == IdsInv => ProcessIdsSound
<1> SUFFICES ASSUME IdsInv, pc = "nuisances"
             PROVE  /\ \A q \in ToSet(cmb.procs) : (p_ids[q.process] <= 0) <=> q.signal
                    /\ \A q, x \in ToSet(cmb.procs) :
                         p_ids[q.process] = p_ids[x.process] => q.process = x.process
  BY DEF ProcessIdsSound
<1>1. \A q \in ToSet(cmb.procs) : \E k \in 1..N : q = cmb.procs[k]
  BY DEF ToSet, IdsInv, IsSequence
<1> QED BY <1>1 DEF IdsInv, Numbered, Own, Has, Id

\* The processes of a card that gets a rate line have ids of their own, zero or
\* negative for the signals and positive for the backgrounds, whatever the
\* instance is and whichever process comes how often (the loop of
\* WriteDatacard over procs_ that fills p_ids from both ends).
THEOREM IdsCorrect == Spec => []ProcessIdsSound
<1>1. Init => IdsInv
  BY InitIds
<1>2. IdsInv /\ [Next]_vars => IdsInv'
  BY NextIds
<1>3. IdsInv => ProcessIdsSound
  BY IdsSound
<1> QED BY <1>1, <1>2, <1>3, PTL DEF Spec

-----------------------------------------------------------------------------
(* Sequences: what the provers are told of \o, Append, SubSeq, Kept and     *)
(* SetToSeq.                                                                *)
IsSeq(s) == s \in Seq(ToSet(s))

LEMMA SeqIsSeq ==
  ASSUME NEW S, NEW s \in Seq(S)
  PROVE  IsSeq(s) /\ ToSet(s) \subseteq S /\ Len(s) \in Nat /\ DOMAIN s = 1..Len(s)
<1>1. Len(s) \in Nat /\ DOMAIN s = 1..Len(s) /\ s \in [1..Len(s) -> S]
  OBVIOUS
<1>2. s \in [1..Len(s) -> ToSet(s)]
  BY <1>1 DEF ToSet
<1>3. s \in Seq(ToSet(s))
  BY <1>1, <1>2
<1> QED BY <1>1, <1>3 DEF IsSeq, ToSet

LEMMA FunIsSeq ==
  ASSUME NEW s, NEW n \in Nat, s = [k \in 1..n |-> s[k]]
  PROVE  IsSeq(s) /\ Len(s) = n /\ DOMAIN s = 1..n
<1>1. DOMAIN s = 1..n
  OBVIOUS
<1>2. s \in [1..n -> ToSet(s)]
  BY <1>1 DEF ToSet
<1>3. s \in Seq(ToSet(s))
  BY <1>2
<1> QED BY <1>1, <1>3 DEF IsSeq

LEMMA SeqDomain ==
  ASSUME NEW s, IsSeq(s)
  PROVE  Len(s) \in Nat /\ DOMAIN s = 1..Len(s) /\ s = [k \in 1..Len(s) |-> s[k]]
  BY DEF IsSeq

LEMMA Concat ==
  ASSUME NEW s, NEW t, IsSeq(s), IsSeq(t)
  PROVE  /\ IsSeq(s \o t) /\ Len(s \o t) = Len(s) + Len(t)
         /\ \A k \in 1..Len(s) : (s \o t)[k] = s[k]
         /\ \A k \in 1..Len(t) : (s \o t)[Len(s) + k] = t[k]
         /\ ToSet(s \o t) = ToSet(s) \cup ToSet(t)
<1> DEFINE U == ToSet(s) \cup ToSet(t)
<1>1. /\ Len(s) \in Nat /\ DOMAIN s = 1..Len(s) /\ s \in [1..Len(s) -> ToSet(s)]
      /\ Len(t) \in Nat /\ DOMAIN t = 1..Len(t) /\ t \in [1..Len(t) -> ToSet(t)]
  BY DEF IsSeq
<1>2. s \in Seq(U) /\ t \in Seq(U)
  BY <1>1
<1> HIDE DEF U
<1>3. /\ s \o t \in Seq(U) /\ Len(s \o t) = Len(s) + Len(t)
      /\ \A k \in 1..Len(s) : (s \o t)[k] = s[k]
      /\ \A k \in 1..Len(t) : (s \o t)[Len(s) + k] = t[k]
  BY <1>1, <1>2
<1>4. IsSeq(s \o t) /\ DOMAIN (s \o t) = 1..(Len(s) + Len(t)) /\ ToSet(s \o t) \subseteq U
  BY <1>3, SeqIsSeq
<1>5. U \subseteq ToSet(s \o t)
  <2>1. ASSUME NEW k \in 1..Len(s) PROVE s[k] \in ToSet(s \o t)
    BY <1>1, <1>3, <1>4 DEF ToSet
  <2>2. ASSUME NEW k \in 1..Len(t) PROVE t[k] \in ToSet(s \o t)
    <3>1. Len(s) + k \in DOMAIN (s \o t) /\ (s \o t)[Len(s) + k] = t[k]
      BY <1>1, <1>3, <1>4
    <3> QED BY <3>1 DEF ToSet
  <2> QED BY <1>1, <2>1, <2>2 DEF U, ToSet
<1> QED BY <1>3, <1>4, <1>5 DEF U

LEMMA Appended ==
  ASSUME NEW s, NEW x, IsSeq(s)
  PROVE  /\ IsSeq(Append(s, x)) /\ Len(Append(s, x)) = Len(s) + 1
         /\ \A k \in 1..Len(s) : Append(s, x)[k] = s[k]
         /\ Append(s, x)[Len(s) + 1] = x
<1> DEFINE U == ToSet(s) \cup {x}
<1>1. Len(s) \in Nat /\ DOMAIN s = 1..Len(s) /\ s \in [1..Len(s) -> ToSet(s)]
  BY DEF IsSeq
<1>2. s \in Seq(U) /\ x \in U
  BY <1>1
<1> HIDE DEF U
<1>3. /\ Append(s, x) \in Seq(U) /\ Len(Append(s, x)) = Len(s) + 1
      /\ \A k \in 1..Len(s) : Append(s, x)[k] = s[k]
      /\ Append(s, x)[Len(s) + 1] = x
  BY <1>1, <1>2
<1> QED BY <1>3, SeqIsSeq

\* What was appended to s.
LEMMA AddedPart ==
  ASSUME NEW s, NEW t, IsSeq(s), IsSeq(t)
  PROVE  SubSeq(s \o t, Len(s) + 1, Len(s \o t)) = t
<1> DEFINE u == s \o t
           v == SubSeq(u, Len(s) + 1, Len(u))
<1>1. /\ Len(s) \in Nat /\ Len(t) \in Nat /\ t = [k \in 1..Len(t) |-> t[k]]
      /\ IsSeq(u) /\ Len(u) = Len(s) + Len(t)
      /\ \A k \in 1..Len(t) : u[Len(s) + k] = t[k]
  BY Concat, SeqDomain
<1>2. u \in Seq(ToSet(u))
  BY <1>1 DEF IsSeq
<1> HIDE DEF u
<1>3. v = [k \in 1..(Len(u) - Len(s)) |-> u[Len(s) + k]]
  BY <1>1, <1>2
<1>4. Len(u) - Len(s) = Len(t)
  BY <1>1
<1>5. v = [k \in 1..Len(t) |-> t[k]]
  BY <1>1, <1>3, <1>4
<1> QED BY <1>1, <1>5 DEF u

LEMMA NothingAdded ==
  ASSUME NEW s, IsSeq(s)
  PROVE  s \o <<>> = s /\ IsSeq(<<>>)
<1>1. IsSeq(<<>>)
  BY DEF IsSeq
<1>2. s \o <<>> = s
  BY DEF IsSeq
<1> QED BY <1>1, <1>2

LEMMA KeptSet ==
  ASSUME NEW s, IsSeq(s), NEW K \in SUBSET DOMAIN s
  PROVE  IsSeq(Kept(s, K)) /\ ToSet(Kept(s, K)) = {s[k] : k \in K}
<1> DEFINE upto(k) == {j \in K : j <= k}
           f == [k \in K |-> Cardinality(upto(k))]
           at(n) == CHOOSE k \in K : Cardinality(upto(k)) = n
           c == Cardinality(K)
           t == Kept(s, K)
<1>1. Len(s) \in Nat /\ DOMAIN s = 1..Len(s)
  BY SeqDomain
<1>2. IsFiniteSet(K)
  <2>1. IsFiniteSet(DOMAIN s)
    BY <1>1, FS_Interval
  <2> QED BY <2>1, FS_Subset
<1>3. c \in Nat
  BY <1>2, FS_CardinalityType
<1>4. \A k \in K : k \in Int
  BY <1>1
<1>5. \A k \in K : /\ IsFiniteSet(upto(k)) /\ Cardinality(upto(k)) \in Nat
                   /\ Cardinality(upto(k)) <= c /\ k \in upto(k)
  BY <1>2, <1>4, FS_Subset, FS_CardinalityType
<1>6. \A k \in K : Cardinality(upto(k)) # 0
  BY <1>5, FS_EmptySet
<1>7. f \in [K -> 1..c]
  BY <1>3, <1>5, <1>6
<1>8. ASSUME NEW k \in K, NEW l \in K, k < l
      PROVE  Cardinality(upto(k)) # Cardinality(upto(l))
  <2>1. upto(k) \in SUBSET upto(l) /\ l \in upto(l) /\ l \notin upto(k)
    BY <1>4, <1>8
  <2>2. IsFiniteSet(upto(l))
    BY <1>5
  <2> HIDE DEF upto
  <2>3. Cardinality(upto(l)) = Cardinality(upto(k)) => upto(l) = upto(k)
    BY <2>1, <2>2, FS_Subset
  <2> QED BY <2>1, <2>3
<1>9. \A k, l \in K : Cardinality(upto(k)) = Cardinality(upto(l)) => k = l
  <2> SUFFICES ASSUME NEW k \in K, NEW l \in K, k # l
               PROVE  Cardinality(upto(k)) # Cardinality(upto(l))
    OBVIOUS
  <2>1. k < l \/ l < k
    BY <1>4
  <2> QED BY <2>1, <1>8
<1> HIDE DEF upto
<1>10. f \in Injection(K, 1..c)
  BY <1>7, <1>9 DEF Injection, IsInjective
<1>11. IsFiniteSet(1..c) /\ Cardinality(1..c) = c
  BY <1>3, FS_Interval
<1> HIDE DEF c
<1>12. Cardinality(K) = Cardinality(1..c)
  BY <1>11 DEF c
<1>13. f \in Surjection(K, 1..c)
  BY <1>10, <1>11, <1>12, FS_Injection
<1>14. \A n \in 1..c : \E k \in K : Cardinality(upto(k)) = n
  BY <1>13 DEF Surjection
<1>15. \A n \in 1..c : at(n) \in K
  BY <1>14
<1>16. \A k \in K : Cardinality(upto(k)) \in 1..c /\ at(Cardinality(upto(k))) = k
  BY <1>7, <1>9
<1>17. t = [n \in 1..c |-> s[at(n)]]
  BY DEF Kept, upto, c
<1> HIDE DEF at, t
<1>18. DOMAIN t = 1..c /\ \A n \in 1..c : t[n] = s[at(n)]
  BY <1>17
<1>19. ToSet(t) = {s[k] : k \in K}
  BY <1>15, <1>16, <1>18 DEF ToSet
<1>20. t = [n \in 1..c |-> t[n]]
  BY <1>17, <1>18
<1>21. IsSeq(t)
  BY <1>3, <1>20, FunIsSeq DEF c
<1> QED BY <1>19, <1>21 DEF t

LEMMA SeqOfSet ==
  ASSUME NEW S, IsFiniteSet(S)
  PROVE  IsSeq(SetToSeq(S)) /\ ToSet(SetToSeq(S)) = S
<1> DEFINE c == Cardinality(S)
           t == SetToSeq(S)
<1>1. c \in Nat /\ ExistsBijection(1..c, S)
  BY FS_CardinalityType
<1>2. \E f \in [1..c -> S] : IsInjective(f)
  BY <1>1 DEF ExistsBijection, Bijection, Injection
<1>3. t \in [1..c -> S] /\ IsInjective(t)
  BY <1>2 DEF SetToSeq
<1>4. t \in Injection(1..c, S)
  BY <1>3 DEF Injection
<1>5. Cardinality(1..c) = c
  BY <1>1, FS_Interval
<1> HIDE DEF c, t
<1>6. Cardinality(1..c) = Cardinality(S)
  BY <1>5 DEF c
<1>7. t \in Surjection(1..c, S)
  BY <1>4, <1>6, FS_Injection
<1>8. ToSet(t) = S
  BY <1>3, <1>7 DEF Surjection, ToSet
<1>9. t \in Seq(S)
  BY <1>1, <1>3 DEF c
<1> QED BY <1>8, <1>9, SeqIsSeq DEF t

\* The image of a finite set is finite.
LEMMA FiniteImage ==
  ASSUME NEW S, IsFiniteSet(S), NEW f, f = [x \in S |-> f[x]]
  PROVE  IsFiniteSet({f[x] : x \in S})
<1> DEFINE T == {f[x] : x \in S}
<1>1. f \in Surjection(S, T)
  BY DEF Surjection
<1> QED BY <1>1, FS_Surjection

LEMMA FiniteElements ==
  ASSUME NEW s, IsSeq(s)
  PROVE  IsFiniteSet(ToSet(s))
<1>1. Len(s) \in Nat /\ DOMAIN s = 1..Len(s) /\ s = [k \in DOMAIN s |-> s[k]]
  BY SeqDomain
<1>2. IsFiniteSet(DOMAIN s)
  BY <1>1, FS_Interval
<1> QED BY <1>1, <1>2, FiniteImage DEF ToSet

LEMMA ConcatAssociative ==
  ASSUME NEW s, NEW t, NEW u, IsSeq(s), IsSeq(t), IsSeq(u)
  PROVE  (s \o t) \o u = s \o (t \o u)
<1> DEFINE U == ToSet(s) \cup ToSet(t) \cup ToSet(u)
<1>1. s \in Seq(U) /\ t \in Seq(U) /\ u \in Seq(U)
  <2>1. /\ Len(s) \in Nat /\ s \in [1..Len(s) -> ToSet(s)]
        /\ Len(t) \in Nat /\ t \in [1..Len(t) -> ToSet(t)]
        /\ Len(u) \in Nat /\ u \in [1..Len(u) -> ToSet(u)]
    BY DEF IsSeq
  <2> QED BY <2>1
<1> HIDE DEF U
<1> QED BY <1>1

LEMMA MinIn ==
  ASSUME NEW S \in SUBSET Nat, S # {}
  PROVE  Min(S) \in S /\ \A x \in S : Min(S) <= x
<1>1. PICK m \in S : \A x \in S : ~(<<x, m>> \in OpToRel(<, Nat))
  BY WFMin, NatLessThanWellFounded
<1>2. \A x \in S : m <= x
  <2> SUFFICES ASSUME NEW x \in S PROVE m <= x
    OBVIOUS
  <2>1. ~(x < m)
    BY <1>1 DEF OpToRel
  <2> QED BY <2>1
<1>3. \E y \in S : \A x \in S : y <= x
  BY <1>2
<1> QED BY <1>3 DEF Min

LEMMA MaxIn ==
  ASSUME NEW n \in Nat, NEW S \in SUBSET 1..n, S # {}
  PROVE  Max(S) \in S /\ \A x \in S : x <= Max(S)
<1> DEFINE T == {n - x : x \in S}
<1>1. T \in SUBSET Nat /\ T # {}
  <2>1. \A x \in S : n - x \in Nat
    OBVIOUS
  <2>2. PICK x \in S : TRUE
    OBVIOUS
  <2>3. n - x \in T
    BY <2>2
  <2> QED BY <2>1, <2>3
<1>2. Min(T) \in T /\ \A y \in T : Min(T) <= y
  <2> HIDE DEF T
  <2> QED BY <1>1, MinIn
<1>3. PICK m \in S : Min(T) = n - m
  BY <1>2
<1>4. \A x \in S : x <= m
  <2> SUFFICES ASSUME NEW x \in S PROVE x <= m
    OBVIOUS
  <2>1. n - m <= n - x
    BY <1>2, <1>3
  <2> QED BY <2>1
<1>5. \E y \in S : \A x \in S : y >= x
  BY <1>4
<1> QED BY <1>5 DEF Max

\* A loop pushes all, if nothing throws, or less.
LEMMA GoodPart ==
  ASSUME NEW n \in Nat, NEW loaded
  PROVE  /\ Good(n, loaded) \in 0..n
         /\ Good(n, loaded) = n => \A k \in 1..n : loaded[k].ok
         /\ Good(n, loaded) # n => \E k \in 1..n : ~loaded[k].ok
<1> DEFINE bad == {k \in 1..n : ~loaded[k].ok}
<1>1. CASE bad = {}
  BY <1>1 DEF Good
<1>2. CASE bad # {}
  <2>1. bad \in SUBSET Nat
    OBVIOUS
  <2>2. Good(n, loaded) = Min(bad) - 1
    BY <1>2 DEF Good
  <2>3. \A k \in bad : k \in 1..n /\ ~loaded[k].ok
    OBVIOUS
  <2> HIDE DEF bad
  <2>4. Min(bad) \in bad
    BY <1>2, <2>1, MinIn
  <2> QED BY <2>2, <2>3, <2>4
<1> QED BY <1>1, <1>2

-----------------------------------------------------------------------------
(* Types, and which card is being written.                                  *)
Writing == {"mappings", "observations", "processes", "background", "signal", "nuisances"}

TypesInv ==
  /\ cb \in Inputs /\ TypeOK
  /\ pc \in Writing => key \in DOMAIN text /\ key \notin complete /\ cmb = Select(cb, key)

LEMMA SelectParts ==
  ASSUME cb \in Inputs, NEW F
  PROVE  /\ Select(cb, F).obs = cb.obs /\ Select(cb, F).params = cb.params
         /\ Select(cb, F).auto = cb.auto
         /\ IsSeq(Select(cb, F).obs) /\ IsSeq(Select(cb, F).procs) /\ IsSeq(Select(cb, F).systs)
         /\ ToSet(Select(cb, F).procs) = {q \in ToSet(cb.procs) : q.mass \in F}
         /\ ToSet(Select(cb, F).systs) = {s \in ToSet(cb.systs) : s.mass \in F}
<1> DEFINE K == {k \in DOMAIN cb.procs : cb.procs[k].mass \in F}
           L == {k \in DOMAIN cb.systs : cb.systs[k].mass \in F}
<1>1. IsSeq(cb.obs) /\ IsSeq(cb.procs) /\ IsSeq(cb.systs)
  BY InputsAssumption, SeqIsSeq
<1>2. /\ Select(cb, F).obs = cb.obs /\ Select(cb, F).params = cb.params
      /\ Select(cb, F).auto = cb.auto
      /\ Select(cb, F).procs = Kept(cb.procs, K) /\ Select(cb, F).systs = Kept(cb.systs, L)
  BY DEF Select
<1>3. K \in SUBSET DOMAIN cb.procs /\ L \in SUBSET DOMAIN cb.systs
  OBVIOUS
<1>4. {cb.procs[k] : k \in K} = {q \in ToSet(cb.procs) : q.mass \in F}
  BY DEF ToSet
<1>5. {cb.systs[k] : k \in L} = {s \in ToSet(cb.systs) : s.mass \in F}
  BY DEF ToSet
<1> HIDE DEF K, L
<1>6. IsSeq(Kept(cb.procs, K)) /\ ToSet(Kept(cb.procs, K)) = {cb.procs[k] : k \in K}
  BY <1>1, <1>3, KeptSet
<1>7. IsSeq(Kept(cb.systs, L)) /\ ToSet(Kept(cb.systs, L)) = {cb.systs[k] : k \in L}
  BY <1>1, <1>3, KeptSet
<1> QED BY <1>1, <1>2, <1>4, <1>5, <1>6, <1>7, Zenon

LEMMA InitTypes == Init => TypesInv
<1> SUFFICES ASSUME Init PROVE TypesInv
  OBVIOUS
<1>1. /\ cb \in Inputs /\ allow_missing \in BOOLEAN /\ is_open = FALSE /\ pc = "client"
      /\ p = 1 /\ p_ids = <<>> /\ sig_id = 0 /\ bkg_id = 1 /\ todo = {}
      /\ complete = {} /\ parsed = {}
  BY DEF Init
<1>2. DOMAIN p_ids = {}
  BY <1>1
<1>3. \A x \in DOMAIN p_ids : p_ids[x] \in Int
  BY <1>2
<1>4. p \in Nat \ {0} /\ sig_id \in Int /\ bkg_id \in Int
  BY <1>1
<1>5. TypeOK
  BY <1>1, <1>3, <1>4, Zenon DEF TypeOK, Phases
<1> QED BY <1>1, <1>5 DEF TypesInv, Writing

\* The steps of a call that leave the card and its nuisances alone.
LEMMA SameCardTypes ==
  ASSUME TypesInv, UNCHANGED <<cb, allow_missing, complete, writer, todo, parsed>>,
         pc \in Writing, pc' \in Writing \cup {"client"}, DOMAIN text' = DOMAIN text,
         p' \in Nat \ {0}, sig_id' \in Int, bkg_id' \in Int,
         \A x \in DOMAIN p_ids' : p_ids'[x] \in Int
  PROVE  TypesInv'
<1>1. /\ cb' = cb /\ allow_missing' = allow_missing /\ complete' = complete /\ parsed' = parsed
      /\ key' = key /\ cmb' = cmb /\ is_open' = is_open /\ todo' = todo
  BY DEF writer
<1>2. pc' \in Phases
  BY DEF Writing, Phases
<1>3. sys_set(cmb') = sys_set(cmb)
  BY <1>1
<1> QED BY <1>1, <1>2, <1>3 DEF TypesInv, TypeOK, Writing

LEMMA NextTypes == TypesInv /\ [Next]_vars => TypesInv'
<1> SUFFICES ASSUME TypesInv, [Next]_vars PROVE TypesInv'
  OBVIOUS
<1> USE DEF Writing, Phases
<1>1. CASE \E F \in Filters, open \in BOOLEAN : WriteDatacard(F, open)
  <2>1. PICK F \in Filters, open \in BOOLEAN : WriteDatacard(F, open)
    BY <1>1
  <2>2. /\ cmb' = Select(cb, F) /\ todo' = sys_set(Select(cb, F)) /\ key' = F /\ is_open' = open
        /\ F \notin DOMAIN text /\ DOMAIN text' = DOMAIN text \cup {F} /\ pc' = "mappings"
        /\ cb' = cb /\ allow_missing' = allow_missing /\ complete' = complete /\ parsed' = parsed
        /\ UNCHANGED <<p, p_ids, sig_id, bkg_id>>
    BY <2>1 DEF WriteDatacard, ids
  <2>3. todo' = sys_set(cmb')
    BY <2>2
  <2> QED BY <2>2, <2>3 DEF TypesInv, TypeOK
<1>2. CASE FillHistMappings \/ WriteObservations \/ WriteRates
  <2>1. /\ UNCHANGED <<cb, allow_missing, complete, writer, todo, parsed>> /\ pc \in Writing
        /\ pc' \in Writing \cup {"client"} /\ DOMAIN text' = DOMAIN text
        /\ UNCHANGED <<p, p_ids, sig_id, bkg_id>>
    BY <1>2 DEF FillHistMappings, WriteObservations, WriteRates, Append1, AppendAll, Throw, ids
  <2> QED BY <2>1, SameCardTypes DEF TypesInv, TypeOK
<1>3. CASE WriteProcesses
  <2>1. /\ UNCHANGED <<cb, allow_missing, complete, writer, todo, parsed>> /\ pc \in Writing
        /\ pc' \in Writing \cup {"client"} /\ DOMAIN text' = DOMAIN text
        /\ p' = 1 /\ p_ids' = <<>> /\ sig_id' = 0 /\ bkg_id' = 1
    BY <1>3 DEF WriteProcesses
  <2> QED BY <2>1, SameCardTypes
<1>4. CASE NumberBackground \/ NumberSignal
  <2>1. /\ UNCHANGED <<cb, allow_missing, complete, writer, todo, parsed>> /\ pc \in Writing
        /\ pc' \in Writing \cup {"client"} /\ DOMAIN text' = DOMAIN text
        /\ p' \in {p, p + 1} /\ sig_id' \in {sig_id, sig_id - 1} /\ bkg_id' \in {bkg_id, bkg_id + 1}
    BY <1>4 DEF NumberBackground, NumberSignal, Throw, disk
  <2>2. \A x \in DOMAIN p_ids' : \/ x \in DOMAIN p_ids /\ p_ids'[x] = p_ids[x]
                                 \/ p_ids'[x] = sig_id \/ p_ids'[x] = bkg_id
    BY <1>4 DEF NumberBackground, NumberSignal
  <2>3. p' \in Nat \ {0} /\ sig_id' \in Int /\ bkg_id' \in Int
    BY <2>1 DEF TypesInv, TypeOK
  <2>4. \A x \in DOMAIN p_ids' : p_ids'[x] \in Int
    BY <2>2 DEF TypesInv, TypeOK
  <2> QED BY <2>1, <2>3, <2>4, SameCardTypes
<1>5. CASE \E n \in todo : WriteNuisance(n)
  <2>1. PICK n \in todo : WriteNuisance(n)
    BY <1>5
  <2>2. /\ UNCHANGED <<cb, allow_missing, complete, writer, ids, parsed>> /\ pc = "nuisances"
        /\ pc' \in {"nuisances", "client"} /\ DOMAIN text' = DOMAIN text /\ todo' \subseteq todo
    BY <2>1 DEF WriteNuisance, Append1, Throw
  <2>3. todo' \subseteq sys_set(cmb')
    BY <2>2 DEF TypesInv, TypeOK, writer
  <2> QED BY <2>2, <2>3 DEF TypesInv, TypeOK, writer, ids
<1>6. CASE WriteTail
  <2>1. /\ UNCHANGED <<cb, allow_missing, writer, ids, parsed, todo>> /\ pc = "nuisances"
        /\ pc' = "client" /\ DOMAIN text' = DOMAIN text /\ complete' = complete \cup {key}
    BY <1>6 DEF WriteTail, AppendAll
  <2>2. todo' \subseteq sys_set(cmb')
    BY <2>1 DEF TypesInv, TypeOK, writer
  <2> QED BY <2>1, <2>2 DEF TypesInv, TypeOK, writer, ids
<1>7. CASE \E F \in complete, m \in Masses : ParseDatacard(F, m)
  <2>1. /\ UNCHANGED <<cb, allow_missing, disk, ids, cmb, is_open, todo>> /\ pc' = "parse"
        /\ \E F \in complete : parsed' = parsed \cup {F}
    BY <1>7 DEF ParseDatacard
  <2>2. todo' \subseteq sys_set(cmb')
    BY <2>1 DEF TypesInv, TypeOK
  <2> QED BY <2>1, <2>2 DEF TypesInv, TypeOK, disk, ids
<1>8. CASE \/ ReadShapes \/ ReadObservations \/ ReadRates \/ Ignored \/ ReadParam
           \/ ReadNuisance \/ ReadRateParam \/ ReadFreeze \/ ReadAutoMCStats \/ ReadGroup
           \/ EndParse \/ Return
  <2>1. UNCHANGED <<cb, allow_missing, disk, writer, ids, todo, parsed>>
        /\ pc' \in {"parse", "client", "parsed"}
    BY <1>8 DEF ReadShapes, ReadObservations, ReadRates, Ignored, ReadParam, ReadNuisance,
         ReadRateParam, ReadFreeze, ReadAutoMCStats, ReadGroup, EndParse, Return,
         Scanning, Reading, Skip, Fail, Rest
  <2>2. todo' \subseteq sys_set(cmb')
    BY <2>1 DEF TypesInv, TypeOK, writer
  <2> QED BY <2>1, <2>2 DEF TypesInv, TypeOK, disk, writer, ids
<1>9. CASE UNCHANGED vars
  <2>1. todo' \subseteq sys_set(cmb')
    BY <1>9 DEF TypesInv, TypeOK, vars, writer
  <2> QED BY <1>9, <2>1 DEF TypesInv, TypeOK, vars, disk, writer, ids
<1> QED BY <1>1, <1>2, <1>3, <1>4, <1>5, <1>6, <1>7, <1>8, <1>9 DEF Next

\* Ids are integers, only finished cards are parsed, and what is left of
\* sys_set was in it, for every instance (WriteDatacard and ParseDatacard).
THEOREM CardTypes == Spec => []TypeOK
<1>1. TypesInv => TypeOK
  BY DEF TypesInv
<1> QED BY <1>1, InitTypes, NextTypes, PTL DEF Spec

-----------------------------------------------------------------------------
(* Cards: the lines before the rate line, the rate line, and others after.  *)
RatePos(C) == IF C.obs = <<>> THEN 2 ELSE 3
Heads(t, C) == t[1] = ShapesLine(C) /\ (C.obs # <<>> => t[2] = ObservationLine(C))
RateFits(l, C) ==
  /\ l.kind = "rate" /\ IsSeq(l.columns) /\ DOMAIN l.columns = DOMAIN C.procs
  /\ \A k \in DOMAIN C.procs :
       /\ l.columns[k].bin = C.procs[k].bin /\ l.columns[k].process = C.procs[k].process
       /\ l.columns[k].from = Ident(C.procs[k])
       /\ (l.columns[k].id <= 0) <=> C.procs[k].signal
TailKinds == {"param", "nuisance", "rateParam", "freeze", "autoMCStats", "group"}
Card(t, C) ==
  /\ IsSeq(t) /\ Len(t) >= RatePos(C) /\ Heads(t, C) /\ RateFits(t[RatePos(C)], C)
  /\ \A j \in 1..Len(t) : j > RatePos(C) => t[j].kind \in TailKinds
Headed(t, C) == IsSeq(t) /\ Len(t) = RatePos(C) - 1 /\ Heads(t, C)

Started ==
  /\ pc = "mappings" => text[key] = <<>>
  /\ pc = "observations" => text[key] = <<ShapesLine(cmb)>>
  /\ pc \in {"processes", "background", "signal"} => Headed(text[key], cmb)
  /\ pc = "nuisances" => Card(text[key], cmb)
CardsInv == Started /\ \A F \in complete : Card(text[F], Select(cb, F))

\* Lines of the tail can be added to a card.
LEMMA AddTail ==
  ASSUME NEW t, NEW C, Card(t, C), NEW u, IsSeq(u), \A l \in ToSet(u) : l.kind \in TailKinds
  PROVE  Card(t \o u, C)
<1> DEFINE v == t \o u
<1>1. RatePos(C) \in {2, 3} /\ Len(t) \in Nat /\ Len(u) \in Nat /\ DOMAIN u = 1..Len(u)
      /\ IsSeq(t) /\ Len(t) >= RatePos(C)
  BY SeqDomain DEF Card, RatePos
<1>2. /\ IsSeq(v) /\ Len(v) = Len(t) + Len(u)
      /\ \A k \in 1..Len(t) : v[k] = t[k]
      /\ \A k \in 1..Len(u) : v[Len(t) + k] = u[k]
  BY <1>1, Concat
<1> HIDE DEF v
<1>3. v[1] = t[1] /\ v[2] = t[2] /\ v[RatePos(C)] = t[RatePos(C)]
  BY <1>1, <1>2
<1>4. ASSUME NEW j \in 1..Len(v), j > RatePos(C) PROVE v[j].kind \in TailKinds
  <2>1. CASE j <= Len(t)
    BY <1>1, <1>2, <1>4, <2>1 DEF Card
  <2>2. CASE j > Len(t)
    <3>1. j - Len(t) \in 1..Len(u) /\ j = Len(t) + (j - Len(t))
      BY <1>1, <1>2, <2>2
    <3>2. v[j] = u[j - Len(t)]
      BY <1>2, <3>1
    <3>3. u[j - Len(t)] \in ToSet(u)
      BY <1>1, <3>1 DEF ToSet
    <3> QED BY <3>2, <3>3
  <2> QED BY <1>1, <1>2, <2>1, <2>2
<1>5. Heads(v, C) /\ RateFits(v[RatePos(C)], C) /\ Len(v) >= RatePos(C)
  BY <1>1, <1>2, <1>3 DEF Card, Heads
<1>6. Card(v, C)
  BY <1>2, <1>4, <1>5 DEF Card
<1> QED BY <1>6 DEF v

\* A rate line after the head makes a card.
LEMMA AddRate ==
  ASSUME NEW t, NEW C, Headed(t, C), NEW l, RateFits(l, C)
  PROVE  Card(t \o <<l>>, C)
<1> DEFINE u == <<l>>
           v == t \o u
<1>1. RatePos(C) \in {2, 3} /\ (C.obs # <<>> => RatePos(C) = 3) /\ IsSeq(t)
      /\ Len(t) = RatePos(C) - 1
  BY DEF Headed, RatePos
<1>2. u \in Seq({l}) /\ Len(u) = 1 /\ u[1] = l
  OBVIOUS
<1> HIDE DEF u
<1>3. IsSeq(u)
  BY <1>2, SeqIsSeq
<1>4. /\ IsSeq(v) /\ Len(v) = Len(t) + Len(u)
      /\ \A k \in 1..Len(t) : v[k] = t[k]
      /\ \A k \in 1..Len(u) : v[Len(t) + k] = u[k]
  BY <1>1, <1>3, Concat
<1> HIDE DEF v
<1>5. Len(v) = RatePos(C) /\ v[RatePos(C)] = l /\ v[1] = t[1] /\ (RatePos(C) = 3 => v[2] = t[2])
  BY <1>1, <1>2, <1>4
<1>6. Heads(v, C)
  BY <1>1, <1>5 DEF Headed, Heads
<1>7. Card(v, C)
  BY <1>1, <1>4, <1>5, <1>6 DEF Card
<1> QED BY <1>7 DEF u, v

\* The lines that WriteDatacard makes of an instance are sequences of their kinds.
LEMMA ParamTail ==
  ASSUME NEW C, IsSeq(C.systs)
  PROVE  /\ IsSeq(ParamLines(C)) /\ \A l \in ToSet(ParamLines(C)) : l.kind = "param"
         /\ ToSet(ParamLines(C)) =
              {[kind |-> "param", name |-> n] : n \in {x \in param_set(C) :
                 x \in rateparam_set(C) \/ (x \notin sys_set(C) /\ C.params[x].err)}}
<1> DEFINE line(n) == [kind |-> "param", name |-> n]
           alone == {n \in param_set(C) \ sys_set(C) : C.params[n].err}
           K == {k \in DOMAIN C.systs : /\ C.systs[k].type = "param"
                                        /\ C.systs[k].name \in rateparam_set(C)}
           both == Kept(C.systs, K)
           f == [n \in alone |-> line(n)]
           g == [s \in ToSet(C.systs) |-> s.name]
           u == [k \in DOMAIN both |-> line(both[k].name)]
<1>1. IsFiniteSet({g[s] : s \in ToSet(C.systs)})
  BY FiniteElements, FiniteImage
<1>2. alone \subseteq {g[s] : s \in ToSet(C.systs)}
  BY DEF param_set, Named
<1>3. IsFiniteSet(alone)
  BY <1>1, <1>2, FS_Subset
<1> HIDE DEF alone
<1>4. IsFiniteSet({f[n] : n \in alone})
  BY <1>3, FiniteImage
<1>5. {f[n] : n \in alone} = {line(n) : n \in alone}
  OBVIOUS
<1>6. IsFiniteSet({line(n) : n \in alone})
  BY <1>4, <1>5
<1> DEFINE s == SetToSeq({line(n) : n \in alone})
<1>7. IsSeq(s) /\ ToSet(s) = {line(n) : n \in alone}
  BY <1>6, SeqOfSet
<1>8. IsSeq(both) /\ ToSet(both) = {C.systs[k] : k \in K}
  BY KeptSet
<1>9. {C.systs[k].name : k \in K} = {x \in param_set(C) : x \in rateparam_set(C)}
  BY DEF param_set, Named, ToSet
<1> HIDE DEF both, s, K
<1>10. Len(both) \in Nat /\ DOMAIN both = 1..Len(both)
  BY <1>8, SeqDomain
<1>11. u = [k \in 1..Len(both) |-> u[k]] /\ \A k \in DOMAIN u : u[k].kind = "param"
  BY <1>10
<1>12. ParamLines(C) = s \o u
  BY DEF ParamLines, s, both, alone, K
<1> HIDE DEF u
<1>13. IsSeq(u)
  BY <1>10, <1>11, FunIsSeq
<1>14. IsSeq(s \o u) /\ ToSet(s \o u) = ToSet(s) \cup ToSet(u)
  BY <1>7, <1>13, Concat
<1>15. \A l \in ToSet(u) : l.kind = "param"
  BY <1>11 DEF ToSet
<1>16. \A l \in ToSet(s) : l.kind = "param"
  BY <1>7
<1>17. ToSet(u) = {line(n) : n \in {x \in param_set(C) : x \in rateparam_set(C)}}
  <2>1. ToSet(u) = {line(y.name) : y \in ToSet(both)}
    BY <1>10 DEF u, ToSet
  <2>2. ToSet(u) = {line(n) : n \in {C.systs[k].name : k \in K}}
    BY <1>8, <2>1
  <2> QED BY <1>9, <2>2
<1>18. ToSet(s) \cup ToSet(u) = {line(n) : n \in {x \in param_set(C) :
         x \in rateparam_set(C) \/ (x \notin sys_set(C) /\ C.params[x].err)}}
  BY <1>7, <1>17 DEF alone
<1> QED BY <1>12, <1>14, <1>15, <1>16, <1>18

\* A set of lines can be written, each of them once.
Lines(T, kind) ==
  IsSeq(SetToSeq(T)) /\ ToSet(SetToSeq(T)) = T /\ \A l \in T : l.kind = kind

\* A set of lines, one for each element of a finite set.
LEMMA LinesOfSet ==
  ASSUME NEW S, IsFiniteSet(S), NEW f, f = [x \in S |-> f[x]], NEW kind,
         \A x \in S : f[x].kind = kind, NEW T, T = {f[x] : x \in S}
  PROVE  Lines(T, kind)
<1>1. IsFiniteSet(T)
  BY FiniteImage
<1>2. IsSeq(SetToSeq(T)) /\ ToSet(SetToSeq(T)) = T
  BY <1>1, SeqOfSet
<1> QED BY <1>2 DEF Lines

LEMMA OtherTails ==
  ASSUME NEW C, IsSeq(C.procs), IsSeq(C.systs),
         \A s \in ToSet(C.systs) : IsFiniteSet(C.params[s.name].groups)
  PROVE  /\ Lines(RateParamLines(C), "rateParam") /\ Lines(FreezeLines(C), "freeze")
         /\ Lines(AutoLines(C), "autoMCStats") /\ Lines(GroupLines(C), "group")
<1> DEFINE systs == ToSet(C.systs)
           name == [s \in systs |-> s.name]
           bin == [q \in ToSet(C.procs) |-> q.bin]
<1>1. IsFiniteSet(systs) /\ IsFiniteSet(ToSet(C.procs))
  BY FiniteElements
<1>2. IsFiniteSet({name[s] : s \in systs}) /\ IsFiniteSet({bin[q] : q \in ToSet(C.procs)})
  BY <1>1, FiniteImage
<1>3. Lines(RateParamLines(C), "rateParam")
  <2> DEFINE rp == {s \in systs : s.type = "rateParam"}
             bins_rp(n, pr) == {s.bin : s \in {x \in rp : x.name = n /\ x.process = pr}}
             bins_all(pr) == {o.bin : o \in ToSet(C.obs)}
               \cup {q.bin : q \in {x \in ToSet(C.procs) \cup systs : x.process = pr}}
             star(s) == Cardinality(bins_rp(s.name, s.process)) = Cardinality(bins_all(s.process))
             b(s) == IF star(s) THEN "*" ELSE s.bin
             f == [s \in rp |-> [kind |-> "rateParam", name |-> s.name, bin |-> b(s),
                                 process |-> s.process]]
  <2>1. IsFiniteSet(rp)
    BY <1>1, FS_Subset
  <2>2. RateParamLines(C) = {[kind |-> "rateParam", name |-> s.name, bin |-> b(s),
                              process |-> s.process] : s \in rp}
    BY DEF RateParamLines
  <2> HIDE DEF b, rp
  <2>3. RateParamLines(C) = {f[s] : s \in rp}
    BY <2>2
  <2>4. f = [s \in rp |-> f[s]] /\ \A s \in rp : f[s].kind = "rateParam"
    OBVIOUS
  <2> HIDE DEF f
  <2> QED BY <2>1, <2>3, <2>4, LinesOfSet
<1>4. Lines(FreezeLines(C), "freeze")
  <2> DEFINE frozen == {x \in rateparam_set(C) : C.params[x].frozen}
             f == [n \in frozen |-> [kind |-> "freeze", name |-> n]]
  <2>1. frozen \subseteq {name[s] : s \in systs}
    BY DEF rateparam_set, Named
  <2>2. IsFiniteSet(frozen)
    BY <1>2, <2>1, FS_Subset
  <2>3. FreezeLines(C) = {[kind |-> "freeze", name |-> n] : n \in frozen}
    BY DEF FreezeLines
  <2> HIDE DEF frozen
  <2>4. FreezeLines(C) = {f[n] : n \in frozen}
    BY <2>3
  <2>5. f = [n \in frozen |-> f[n]] /\ \A n \in frozen : f[n].kind = "freeze"
    OBVIOUS
  <2> HIDE DEF f
  <2> QED BY <2>2, <2>4, <2>5, LinesOfSet
<1>5. Lines(AutoLines(C), "autoMCStats")
  <2> DEFINE with == C.auto \cap bin_set(C)
             f == [b \in with |-> [kind |-> "autoMCStats", bin |-> b]]
  <2>1. with \subseteq {bin[q] : q \in ToSet(C.procs)}
    BY DEF bin_set
  <2>2. IsFiniteSet(with)
    BY <1>2, <2>1, FS_Subset
  <2>3. AutoLines(C) = {[kind |-> "autoMCStats", bin |-> b] : b \in with}
    BY DEF AutoLines
  <2> HIDE DEF with
  <2>4. AutoLines(C) = {f[b] : b \in with}
    BY <2>3
  <2>5. f = [b \in with |-> f[b]] /\ \A b \in with : f[b].kind = "autoMCStats"
    OBVIOUS
  <2> HIDE DEF f
  <2> QED BY <2>2, <2>4, <2>5, LinesOfSet
<1>6. Lines(GroupLines(C), "group")
  <2> DEFINE np == {n \in sys_set(C) : C.params[n].err}
             group == [n \in np |-> C.params[n].groups]
             all == UNION {C.params[n].groups : n \in np}
             members(g) == {n \in np : g \in C.params[n].groups}
             f == [g \in all |-> [kind |-> "group", name |-> g, members |-> members(g)]]
  <2>1. np \subseteq {name[s] : s \in systs}
    BY DEF sys_set, Named
  <2>2. IsFiniteSet(np)
    BY <1>2, <2>1, FS_Subset
  <2>3. \A n \in np : \E s \in systs : n = s.name
    BY <2>1
  <2>4. \A n \in np : IsFiniteSet(group[n])
    BY <2>3
  <2>5. GroupLines(C) = {[kind |-> "group", name |-> g, members |-> members(g)] : g \in all}
    BY DEF GroupLines
  <2>6. all = UNION {group[n] : n \in np} /\ group = [n \in np |-> group[n]]
    OBVIOUS
  <2> HIDE DEF np, group
  <2>7. IsFiniteSet({group[n] : n \in np})
    BY <2>2, <2>6, FiniteImage
  <2>8. IsFiniteSet(all)
    <3> HIDE DEF all
    <3>1. \A T \in {group[n] : n \in np} : IsFiniteSet(T)
      BY <2>4
    <3>2. IsFiniteSet(UNION {group[n] : n \in np})
      BY <2>7, <3>1, FS_UNION
    <3> QED BY <2>6, <3>2
  <2> HIDE DEF all, members
  <2>9. GroupLines(C) = {f[g] : g \in all}
    BY <2>5
  <2>10. f = [g \in all |-> f[g]] /\ \A g \in all : f[g].kind = "group"
    OBVIOUS
  <2> HIDE DEF f
  <2> QED BY <2>8, <2>9, <2>10, LinesOfSet
<1> QED BY <1>3, <1>4, <1>5, <1>6

LEMMA RateLineFits ==
  ASSUME IdsInv, TypesInv, WriteRates
  PROVE  RateFits(RateLine(cmb), cmb)
<1>1. /\ pc = "background" /\ pc' = "nuisances"
      /\ cb' = cb /\ cmb' = cmb /\ p_ids' = p_ids
  BY DEF WriteRates, writer, ids
<1>2. \A k \in 1..N : (Id(k) <= 0) <=> cmb.procs[k].signal
  <2>1. IdsInv'
    BY WriteRatesIds
  <2>2. \A k \in 1..N' : (Id(k)' <= 0) <=> cmb'.procs[k].signal
    BY <1>1, <2>1 DEF IdsInv, Numbered
  <2> QED BY <1>1, <2>2 DEF N, Id
<1>3. IsSeq(cmb.procs)
  BY <1>1, SelectParts DEF TypesInv, Writing
<1>4. Len(cmb.procs) \in Nat /\ DOMAIN cmb.procs = 1..Len(cmb.procs)
  BY <1>3, SeqDomain
<1> DEFINE c == RateLine(cmb).columns
<1>5. /\ RateLine(cmb).kind = "rate" /\ c = [k \in 1..Len(cmb.procs) |-> c[k]]
      /\ \A k \in DOMAIN cmb.procs :
           /\ c[k].bin = cmb.procs[k].bin /\ c[k].process = cmb.procs[k].process
           /\ c[k].from = Ident(cmb.procs[k]) /\ c[k].id = p_ids[cmb.procs[k].process]
  BY <1>4 DEF RateLine
<1> HIDE DEF c
<1>6. IsSeq(c) /\ DOMAIN c = DOMAIN cmb.procs
  BY <1>4, <1>5, FunIsSeq
<1>7. \A k \in DOMAIN cmb.procs : (c[k].id <= 0) <=> cmb.procs[k].signal
  BY <1>2, <1>4, <1>5 DEF Id, N
<1> QED BY <1>5, <1>6, <1>7 DEF c, RateFits

\* The finished cards stay what they are while another is written.
LEMMA OthersStay ==
  ASSUME CardsInv, cb' = cb, complete' = complete, key \notin complete,
         \A F \in complete : F # key => text'[F] = text[F]
  PROVE  \A F \in complete' : Card(text'[F], Select(cb', F))
  BY DEF CardsInv

LEMMA NextCards ==
  ASSUME IdsInv, TypesInv, CardsInv, [Next]_vars
  PROVE  CardsInv'
<1>1. CASE \E F \in Filters, open \in BOOLEAN : WriteDatacard(F, open)
  <2>1. PICK F \in Filters, open \in BOOLEAN : WriteDatacard(F, open)
    BY <1>1
  <2>2. /\ key' = F /\ F \notin DOMAIN text /\ pc' = "mappings" /\ cb' = cb
        /\ complete' = complete /\ text' = [x \in DOMAIN text \cup {F} |-> IF x = F THEN <<>> ELSE text[x]]
    BY <2>1 DEF WriteDatacard
  <2>3. \A G \in complete : G \in DOMAIN text /\ G # F /\ text'[G] = text[G]
    BY <2>2 DEF TypesInv, TypeOK
  <2>4. text'[F] = <<>>
    BY <2>2
  <2>5. Started'
    BY <2>2, <2>4 DEF Started
  <2> QED BY <2>2, <2>3, <2>5 DEF CardsInv
<1>2. CASE FillHistMappings
  <2>1. /\ pc = "mappings" /\ cb' = cb /\ key' = key /\ cmb' = cmb /\ complete' = complete
        /\ \/ pc' = "client" /\ text' = text
           \/ pc' = "observations" /\ text' = [text EXCEPT ![key] = Append(@, ShapesLine(cmb))]
    BY <1>2 DEF FillHistMappings, Throw, Append1, writer
  <2>2. key \in DOMAIN text /\ key \notin complete /\ text[key] = <<>>
    BY <2>1 DEF TypesInv, Writing, CardsInv, Started
  <2>3. \A F \in complete' : Card(text'[F], Select(cb', F))
    <3>1. \A F \in complete : F # key => text'[F] = text[F]
      BY <2>1 DEF TypesInv, TypeOK
    <3> QED BY <2>1, <2>2, <3>1, OthersStay
  <2>4. pc' = "observations" => text'[key] = <<ShapesLine(cmb)>>
    BY <2>1, <2>2
  <2>5. Started'
    BY <2>1, <2>4 DEF Started
  <2> QED BY <2>3, <2>5 DEF CardsInv
<1>3. CASE WriteObservations
  <2>1. /\ pc = "observations" /\ pc' = "processes"
        /\ cb' = cb /\ key' = key /\ cmb' = cmb /\ complete' = complete
        /\ text' = IF cmb.obs = <<>> THEN text
                   ELSE [text EXCEPT ![key] = Append(@, ObservationLine(cmb))]
    BY <1>3 DEF WriteObservations, Append1, writer
  <2>2. key \in DOMAIN text /\ key \notin complete /\ text[key] = <<ShapesLine(cmb)>>
    BY <2>1 DEF TypesInv, Writing, CardsInv, Started
  <2>3. \A F \in complete' : Card(text'[F], Select(cb', F))
    BY <2>1, <2>2, OthersStay
  <2> DEFINE t == <<ShapesLine(cmb)>>
  <2>4. IsSeq(t) /\ Len(t) = 1 /\ t[1] = ShapesLine(cmb)
    <3>1. t \in Seq({ShapesLine(cmb)}) /\ Len(t) = 1 /\ t[1] = ShapesLine(cmb)
      OBVIOUS
    <3> QED BY <3>1, SeqIsSeq
  <2> HIDE DEF t
  <2>5. CASE cmb.obs = <<>>
    <3>1. Headed(text'[key], cmb)
      BY <2>1, <2>2, <2>4, <2>5 DEF t, Headed, Heads, RatePos
    <3>2. Started'
      BY <2>1, <3>1 DEF Started
    <3> QED BY <2>3, <3>2 DEF CardsInv
  <2>6. CASE cmb.obs # <<>>
    <3> DEFINE u == Append(t, ObservationLine(cmb))
    <3>1. /\ IsSeq(u) /\ Len(u) = Len(t) + 1 /\ u[Len(t) + 1] = ObservationLine(cmb)
          /\ \A k \in 1..Len(t) : u[k] = t[k]
      BY <2>4, Appended, Zenon
    <3>2. text'[key] = u
      BY <2>1, <2>2, <2>6 DEF t
    <3> HIDE DEF u
    <3>3. Len(u) = 2 /\ u[1] = ShapesLine(cmb) /\ u[2] = ObservationLine(cmb)
      BY <2>4, <3>1
    <3>4. Headed(u, cmb)
      BY <2>6, <3>1, <3>3 DEF Headed, Heads, RatePos
    <3>5. Headed(text'[key], cmb)
      BY <3>2, <3>4, Zenon
    <3>6. Started'
      BY <2>1, <3>5 DEF Started
    <3> QED BY <2>3, <3>6 DEF CardsInv
  <2> QED BY <2>5, <2>6
<1>4. CASE WriteProcesses \/ NumberBackground \/ NumberSignal
  <2>1. /\ pc \in {"processes", "background", "signal"}
        /\ pc' \in {"background", "signal", "client"}
        /\ cb' = cb /\ key' = key /\ cmb' = cmb /\ complete' = complete /\ text' = text
    BY <1>4 DEF WriteProcesses, NumberBackground, NumberSignal, Throw, writer, disk
  <2>2. key \notin complete /\ Headed(text[key], cmb)
    BY <2>1 DEF TypesInv, Writing, CardsInv, Started
  <2>3. \A F \in complete' : Card(text'[F], Select(cb', F))
    BY <2>1, <2>2, OthersStay
  <2>4. Started'
    BY <2>1, <2>2 DEF Started
  <2> QED BY <2>3, <2>4 DEF CardsInv
<1>5. CASE WriteRates
  <2>1. /\ pc = "background" /\ pc' = "nuisances"
        /\ cb' = cb /\ key' = key /\ cmb' = cmb /\ complete' = complete
        /\ text' = [text EXCEPT ![key] = @ \o (<<RateLine(cmb)>> \o ParamLines(cmb))]
    BY <1>5 DEF WriteRates, AppendAll, writer
  <2>2. /\ key \in DOMAIN text /\ key \notin complete /\ Headed(text[key], cmb)
        /\ cmb = Select(cb, key) /\ cb \in Inputs
    BY <2>1 DEF TypesInv, Writing, CardsInv, Started
  <2>3. \A F \in complete' : Card(text'[F], Select(cb', F))
    BY <2>1, <2>2, OthersStay
  <2>4. RateFits(RateLine(cmb), cmb)
    BY <1>5, RateLineFits
  <2>5. IsSeq(ParamLines(cmb)) /\ \A l \in ToSet(ParamLines(cmb)) : l.kind \in TailKinds
    BY <2>2, SelectParts, ParamTail DEF TailKinds
  <2> DEFINE t == text[key]
             u == <<RateLine(cmb)>>
             w == ParamLines(cmb)
  <2>6. IsSeq(u)
    <3>1. u \in Seq({RateLine(cmb)})
      OBVIOUS
    <3> QED BY <3>1, SeqIsSeq
  <2>7. Card(t \o u, cmb)
    BY <2>2, <2>4, AddRate
  <2> HIDE DEF t, u, w
  <2>8. Card((t \o u) \o w, cmb)
    BY <2>5, <2>7, AddTail DEF w
  <2>9. (t \o u) \o w = t \o (u \o w)
    <3>1. IsSeq(t) /\ IsSeq(w)
      BY <2>2, <2>5 DEF t, w, Headed
    <3> QED BY <2>6, <3>1, ConcatAssociative
  <2>10. text'[key] = t \o (u \o w)
    BY <2>1, <2>2 DEF t, u, w
  <2>11. Started'
    BY <2>1, <2>8, <2>9, <2>10 DEF Started
  <2> QED BY <2>3, <2>11 DEF CardsInv
<1>6. CASE \E n \in todo : WriteNuisance(n)
  <2>1. PICK n \in todo : WriteNuisance(n)
    BY <1>6
  <2>2. /\ pc = "nuisances" /\ cb' = cb /\ key' = key /\ cmb' = cmb /\ complete' = complete
        /\ \/ pc' \in {"nuisances", "client"} /\ text' = text
           \/ pc' = "nuisances" /\ text' = [text EXCEPT ![key] = Append(@, NuisanceLine(cmb, n))]
    BY <2>1 DEF WriteNuisance, Throw, Append1, writer
  <2>3. key \in DOMAIN text /\ key \notin complete /\ Card(text[key], cmb)
    BY <2>2 DEF TypesInv, Writing, CardsInv, Started
  <2>4. \A F \in complete' : Card(text'[F], Select(cb', F))
    <3>1. \A F \in complete : F # key => text'[F] = text[F]
      BY <2>2 DEF TypesInv, TypeOK
    <3> QED BY <2>2, <2>3, <3>1, OthersStay
  <2>5. Card(Append(text[key], NuisanceLine(cmb, n)), cmb)
    <3> DEFINE t == text[key]
               l == NuisanceLine(cmb, n)
               u == <<l>>
    <3>1. u \in Seq({l}) /\ l.kind \in TailKinds
      BY DEF NuisanceLine, TailKinds
    <3>2. IsSeq(t)
      BY <2>3 DEF Card
    <3> HIDE DEF t, l
    <3>3. IsSeq(u) /\ ToSet(u) \subseteq {l}
      BY <3>1, SeqIsSeq, Zenon
    <3>4. Card(t \o u, cmb)
      BY <2>3, <3>1, <3>3, AddTail DEF t
    <3>5. Append(t, l) = t \o u
      BY <3>2 DEF IsSeq
    <3> QED BY <3>4, <3>5 DEF t, l
  <2>6. Started'
    BY <2>2, <2>3, <2>5 DEF Started
  <2> QED BY <2>4, <2>6 DEF CardsInv
<1>7. CASE WriteTail
  <2> DEFINE t == text[key]
             u == SetToSeq(RateParamLines(cmb))
             v == SetToSeq(FreezeLines(cmb))
             w == SetToSeq(AutoLines(cmb))
             x == SetToSeq(GroupLines(cmb))
  <2>1. /\ pc = "nuisances" /\ pc' = "client" /\ cb' = cb /\ complete' = complete \cup {key}
        /\ text' = [text EXCEPT ![key] = @ \o (u \o v \o w \o x)]
    BY <1>7 DEF WriteTail, AppendAll
  <2>2. /\ key \in DOMAIN text /\ key \notin complete /\ Card(text[key], cmb)
        /\ cmb = Select(cb, key) /\ cb \in Inputs
    BY <2>1 DEF TypesInv, Writing, CardsInv, Started
  <2>3. \A s \in ToSet(cmb.systs) : IsFiniteSet(cmb.params[s.name].groups)
    BY <2>2, SelectParts, InputsAssumption
  <2>4. IsSeq(cmb.procs) /\ IsSeq(cmb.systs)
    BY <2>2, SelectParts
  <2>5. /\ IsSeq(u) /\ \A l \in ToSet(u) : l.kind \in TailKinds
        /\ IsSeq(v) /\ \A l \in ToSet(v) : l.kind \in TailKinds
        /\ IsSeq(w) /\ \A l \in ToSet(w) : l.kind \in TailKinds
        /\ IsSeq(x) /\ \A l \in ToSet(x) : l.kind \in TailKinds
    BY <2>3, <2>4, OtherTails DEF TailKinds, Lines
  <2>6. text'[key] = t \o (u \o v \o w \o x)
    BY <2>1, <2>2
  <2> HIDE DEF t, u, v, w, x
  <2>7. IsSeq(u \o v) /\ ToSet(u \o v) = ToSet(u) \cup ToSet(v)
    BY <2>5, Concat
  <2>8. IsSeq(u \o v \o w) /\ ToSet(u \o v \o w) = ToSet(u \o v) \cup ToSet(w)
    BY <2>5, <2>7, Concat
  <2>9. IsSeq(u \o v \o w \o x) /\ ToSet(u \o v \o w \o x) = ToSet(u \o v \o w) \cup ToSet(x)
    BY <2>5, <2>8, Concat
  <2>10. \A l \in ToSet(u \o v \o w \o x) : l.kind \in TailKinds
    BY <2>5, <2>7, <2>8, <2>9
  <2>11. Card(t \o (u \o v \o w \o x), cmb)
    BY <2>2, <2>9, <2>10, AddTail DEF t
  <2>12. \A F \in complete' : Card(text'[F], Select(cb', F))
    <3>1. \A F \in complete : F # key => text'[F] = text[F]
      BY <2>1
    <3>2. \A F \in complete : Card(text'[F], Select(cb', F))
      BY <2>1, <2>2, <3>1 DEF CardsInv
    <3>3. Card(text'[key], Select(cb', key))
      BY <2>1, <2>2, <2>6, <2>11
    <3> QED BY <2>1, <3>2, <3>3
  <2>13. Started'
    BY <2>1 DEF Started
  <2> QED BY <2>12, <2>13 DEF CardsInv
<1>8. CASE \/ \E F \in complete, m \in Masses : ParseDatacard(F, m)
           \/ ReadShapes \/ ReadObservations \/ ReadRates \/ Ignored \/ ReadParam
           \/ ReadNuisance \/ ReadRateParam \/ ReadFreeze \/ ReadAutoMCStats \/ ReadGroup
           \/ EndParse \/ Return
  <2>1. cb' = cb /\ text' = text /\ complete' = complete /\ pc' \in {"parse", "client", "parsed"}
    BY <1>8 DEF ParseDatacard, ReadShapes, ReadObservations, ReadRates, Ignored, ReadParam,
         ReadNuisance, ReadRateParam, ReadFreeze, ReadAutoMCStats, ReadGroup, EndParse, Return,
         Scanning, Reading, Skip, Fail, Rest, disk
  <2> QED BY <2>1 DEF CardsInv, Started
<1>9. CASE UNCHANGED vars
  BY <1>9 DEF vars, disk, writer, CardsInv, Started
<1> QED BY <1>1, <1>2, <1>3, <1>4, <1>5, <1>6, <1>7, <1>8, <1>9 DEF Next

LEMMA InitCards == Init => CardsInv
  BY DEF Init, CardsInv, Started

-----------------------------------------------------------------------------
(* What is read: every systematic has its parameter.                        *)
Fields(r) == r \in [obs : {r.obs}, procs : {r.procs}, systs : {r.systs},
                    params : {r.params}, auto : {r.auto}]
HaveParams(r) == \A s \in ToSet(r.systs) : s.name \in DOMAIN r.params
ReadInv ==
  /\ Fields(read) /\ IsSeq(read.obs) /\ IsSeq(read.procs) /\ IsSeq(read.systs)
  /\ IsSeq(columns) /\ HaveParams(read)
  /\ pc = "parse" => key \in complete /\ i \in Nat \ {0}

LEMMA InitRead == Init => ReadInv
<1> SUFFICES ASSUME Init PROVE ReadInv
  OBVIOUS
<1>1. read = Nothing /\ columns = <<>> /\ pc = "client"
  BY DEF Init
<1>2. IsSeq(<<>>) /\ ToSet(<<>>) = {}
  BY DEF IsSeq, ToSet
<1>3. Fields(read) /\ read.obs = <<>> /\ read.procs = <<>> /\ read.systs = <<>>
  BY <1>1 DEF Nothing, Fields
<1> QED BY <1>1, <1>2, <1>3 DEF ReadInv, HaveParams

\* Where a line can be in a card.
LEMMA LinePlace ==
  ASSUME NEW t, NEW C, Card(t, C), NEW j \in 1..Len(t)
  PROVE  /\ t[j].kind = "shapes" => j = 1
         /\ t[j].kind = "observation" => j = 2 /\ C.obs # <<>> /\ t[j] = ObservationLine(C)
         /\ t[j].kind = "rate" <=> j = RatePos(C)
         /\ t[j].kind \in TailKinds <=> j > RatePos(C)
         /\ t[j].kind \in TailKinds \cup {"shapes", "observation", "rate"}
<1>1. RatePos(C) = (IF C.obs = <<>> THEN 2 ELSE 3) /\ Len(t) \in Nat
  BY SeqDomain DEF RatePos, Card
<1>2. t[1].kind = "shapes"
  BY DEF Card, Heads, ShapesLine
<1>3. C.obs # <<>> => t[2] = ObservationLine(C) /\ t[2].kind = "observation"
  BY DEF Card, Heads, ObservationLine
<1>4. t[RatePos(C)].kind = "rate"
  BY DEF Card, RateFits
<1>5. j > RatePos(C) => t[j].kind \in TailKinds
  BY DEF Card
<1>6. j = 1 \/ (j = 2 /\ C.obs # <<>>) \/ j = RatePos(C) \/ j > RatePos(C)
  BY <1>1
<1> QED BY <1>1, <1>2, <1>3, <1>4, <1>5, <1>6 DEF TailKinds

LEMMA ParsedCard ==
  ASSUME TypesInv, CardsInv, ReadInv, pc = "parse"
  PROVE  /\ Card(text[key], Select(cb, key))
         /\ IsSeq(Select(cb, key).obs) /\ IsSeq(Select(cb, key).procs)
         /\ IsSeq(Select(cb, key).systs)
         /\ IsSeq(text[key]) /\ Len(text[key]) \in Nat
  BY SelectParts, SeqDomain DEF TypesInv, CardsInv, ReadInv, Card

\* What the steps of a loop push.
LEMMA Pushed ==
  ASSUME NEW s, IsSeq(s), NEW n \in Nat, NEW t, t = [k \in 1..n |-> t[k]]
  PROVE  IsSeq(s \o t) /\ ToSet(s \o t) = ToSet(s) \cup {t[k] : k \in 1..n}
<1>1. IsSeq(t) /\ DOMAIN t = 1..n
  BY FunIsSeq
<1>2. IsSeq(s \o t) /\ ToSet(s \o t) = ToSet(s) \cup ToSet(t)
  BY <1>1, Concat
<1>3. ToSet(t) = {t[k] : k \in 1..n}
  BY <1>1 DEF ToSet
<1> QED BY <1>2, <1>3

LEMMA ParamNames ==
  ASSUME NEW n, NEW v, NEW type, NEW err
  PROVE  /\ DOMAIN SetParam(n, v) = DOMAIN read.params \cup {n}
         /\ DOMAIN WithErr(n, err) = DOMAIN read.params \cup {n}
         /\ DOMAIN Created(n, type) = DOMAIN read.params \cup {n}
  BY DEF SetParam, WithErr, Created

\* A step that adds systematics of one name, with their parameter.
LEMMA AddedSysts ==
  ASSUME ReadInv, NEW n, NEW m \in Nat, NEW t, t = [k \in 1..m |-> t[k]],
         \A k \in 1..m : t[k].name = n, NEW params,
         DOMAIN read.params \subseteq DOMAIN params, m # 0 => n \in DOMAIN params,
         read' = [read EXCEPT !.systs = @ \o t, !.params = params]
  PROVE  /\ Fields(read') /\ read'.systs = read.systs \o t /\ read'.params = params
         /\ read'.obs = read.obs /\ read'.procs = read.procs /\ read'.auto = read.auto
         /\ IsSeq(read'.systs) /\ HaveParams(read')
<1>1. /\ Fields(read') /\ read'.systs = read.systs \o t /\ read'.params = params
      /\ read'.obs = read.obs /\ read'.procs = read.procs /\ read'.auto = read.auto
  BY DEF ReadInv, Fields
<1>2. /\ IsSeq(read.systs \o t)
      /\ ToSet(read.systs \o t) = ToSet(read.systs) \cup {t[k] : k \in 1..m}
  BY Pushed DEF ReadInv
<1>3. HaveParams(read')
  BY <1>1, <1>2 DEF ReadInv, HaveParams
<1> QED BY <1>1, <1>2, <1>3

\* What ParseDatacard leaves of an instance when it moves on.
LEMMA ReadOn ==
  ASSUME ReadInv, pc = "parse", pc' \in {"parse", "client"}, Rest, i' \in {i, i + 1},
         Fields(read'), IsSeq(read'.obs), IsSeq(read'.procs), IsSeq(read'.systs),
         IsSeq(columns'), HaveParams(read')
  PROVE  ReadInv'
  BY DEF ReadInv, Rest, writer, disk

LEMMA ReadColumns ==
  ASSUME TypesInv, CardsInv, ReadInv, ReadObservations \/ ReadRates
  PROVE  ReadInv'
<1> DEFINE t == text[key]
           C == Select(cb, key)
<1>1. /\ pc = "parse" /\ pc' \in {"parse", "client"} /\ Rest /\ i' \in {i, i + 1}
      /\ i <= Len(t)
  BY DEF ReadObservations, ReadRates, Reading, Skip, Fail
<1>2. Card(t, C) /\ i \in 1..Len(t) /\ IsSeq(C.obs)
  BY <1>1, ParsedCard DEF ReadInv
<1>3. CASE ReadObservations
  <2> DEFINE b == Line.bins
             loaded == [k \in DOMAIN b |-> LoadShapes(b[k], <<"data_obs">>, <<b[k], <<"data_obs">>, "*">>)]
             n == Good(Len(b), loaded)
             u == [k \in 1..n |-> [bin |-> b[k], hist |-> loaded[k].hist, from |-> loaded[k].from]]
  <2>1. Line = ObservationLine(C)
    BY <1>2, <1>3, LinePlace DEF ReadObservations, Reading, Line
  <2>2. Len(C.obs) \in Nat /\ DOMAIN C.obs = 1..Len(C.obs)
    BY <1>2, SeqDomain
  <2>3. b = [k \in 1..Len(C.obs) |-> b[k]]
    BY <2>1, <2>2 DEF ObservationLine
  <2>4. read' = [read EXCEPT !.obs = @ \o u] /\ columns' = columns
    BY <1>3 DEF ReadObservations
  <2> HIDE DEF b, loaded
  <2>5. Len(b) \in Nat
    BY <2>2, <2>3, FunIsSeq
  <2>6. n \in Nat
    BY <2>5, GoodPart
  <2> HIDE DEF n
  <2>7. u = [k \in 1..n |-> u[k]]
    OBVIOUS
  <2> HIDE DEF u
  <2>8. IsSeq(read.obs \o u)
    BY <2>6, <2>7, Pushed DEF ReadInv
  <2>9. Fields(read') /\ read'.obs = read.obs \o u /\ read'.procs = read.procs
        /\ read'.systs = read.systs /\ read'.params = read.params
    BY <2>4 DEF ReadInv, Fields
  <2> QED BY <1>1, <2>4, <2>8, <2>9, ReadOn DEF ReadInv, HaveParams
<1>4. CASE ReadRates
  <2> DEFINE c == Line.columns
             loaded == [k \in DOMAIN c |-> LoadShapes(c[k].bin, c[k].process, c[k].from)]
             n == Good(Len(c), loaded)
             u == [k \in 1..n |-> [bin |-> c[k].bin, process |-> c[k].process, signal |-> c[k].id <= 0,
                                   mass |-> mass, hist |-> loaded[k].hist, from |-> loaded[k].from]]
  <2>1. i = RatePos(C) /\ Line = t[RatePos(C)]
    <3>1. t[i].kind = "rate"
      BY <1>4 DEF ReadRates, Reading, Line
    <3> HIDE DEF c, loaded, t, C
    <3>2. i = RatePos(C)
      BY <1>2, <3>1, LinePlace
    <3> QED BY <3>2 DEF Line, t
  <2>2. IsSeq(c)
    BY <1>2, <2>1 DEF Card, RateFits
  <2>3. read' = [read EXCEPT !.procs = @ \o u] /\ columns' \in {c, columns}
    BY <1>4 DEF ReadRates
  <2> HIDE DEF c, loaded
  <2>4. Len(c) \in Nat
    BY <2>2, SeqDomain
  <2>5. n \in Nat
    BY <2>4, GoodPart
  <2> HIDE DEF n
  <2>6. u = [k \in 1..n |-> u[k]]
    OBVIOUS
  <2> HIDE DEF u
  <2>7. IsSeq(read.procs \o u)
    BY <2>5, <2>6, Pushed DEF ReadInv
  <2>8. Fields(read') /\ read'.procs = read.procs \o u /\ read'.obs = read.obs
        /\ read'.systs = read.systs /\ read'.params = read.params
    BY <2>3 DEF ReadInv, Fields
  <2>9. IsSeq(columns')
    BY <2>2, <2>3 DEF ReadInv
  <2> QED BY <1>1, <2>7, <2>8, <2>9, ReadOn DEF ReadInv, HaveParams
<1> QED BY <1>3, <1>4

LEMMA ReadSysts ==
  ASSUME ReadInv, ReadParam \/ ReadNuisance \/ ReadRateParam
  PROVE  /\ ReadInv'
         /\ read'.obs = read.obs /\ read'.procs = read.procs
<1>1. /\ pc = "parse" /\ pc' \in {"parse", "client"} /\ Rest /\ i' \in {i, i + 1}
      /\ columns' = columns
  BY DEF ReadParam, ReadNuisance, ReadRateParam, Scanning, Reading, Skip, Fail
<1> DEFINE n == Line.name
<1>2. SUFFICES
        \E m \in Nat : \E t : \E params :
          /\ t = [k \in 1..m |-> t[k]] /\ \A k \in 1..m : t[k].name = n
          /\ DOMAIN read.params \subseteq DOMAIN params /\ (m # 0 => n \in DOMAIN params)
          /\ read' = [read EXCEPT !.systs = @ \o t, !.params = params]
  <2> HIDE DEF n
  <2>1. PICK m, t, params :
          /\ m \in Nat
          /\ t = [k \in 1..m |-> t[k]] /\ \A k \in 1..m : t[k].name = n
          /\ DOMAIN read.params \subseteq DOMAIN params /\ (m # 0 => n \in DOMAIN params)
          /\ read' = [read EXCEPT !.systs = @ \o t, !.params = params]
    BY <1>2
  <2>2. /\ Fields(read') /\ read'.obs = read.obs /\ read'.procs = read.procs
        /\ IsSeq(read'.systs) /\ HaveParams(read')
    BY <2>1, AddedSysts
  <2> QED BY <1>1, <2>2, ReadOn DEF ReadInv
<1>3. CASE ReadParam
  <2> DEFINE e == Entry(NoColumn, n, "param", FALSE, <<>>)
             t == [k \in 1..1 |-> e]
  <2>1. read' = [read EXCEPT !.params = WithErr(n, TRUE), !.systs = Append(@, e)]
    BY <1>3 DEF ReadParam
  <2>2. e.name = n
    BY DEF Entry
  <2>3. DOMAIN WithErr(n, TRUE) = DOMAIN read.params \cup {n}
    BY ParamNames
  <2> HIDE DEF e, n
  <2>4. Append(read.systs, e) = read.systs \o t
    <3>1. t = <<e>>
      OBVIOUS
    <3>2. Append(read.systs, e) = read.systs \o <<e>>
      BY DEF ReadInv, IsSeq
    <3> QED BY <3>1, <3>2
  <2>5. read' = [read EXCEPT !.systs = @ \o t, !.params = WithErr(n, TRUE)]
    BY <2>1, <2>4 DEF ReadInv, Fields
  <2>6. t = [k \in 1..1 |-> t[k]] /\ \A k \in 1..1 : t[k].name = n
    BY <2>2
  <2> HIDE DEF t
  <2> QED BY <2>3, <2>5, <2>6
<1>4. CASE ReadNuisance
  <2> DEFINE at == [k \in DOMAIN columns |-> k]
             M == {k \in DOMAIN columns : Line.entries[k] # <<>>}
             K == Kept(at, M)
             loaded == [j \in DOMAIN K |-> LoadEntry(K[j])]
             m == Good(Len(K), loaded)
             t == [j \in 1..m |-> Entry(columns[K[j]], n, TypeRead(loaded[j].hist),
                                        loaded[j].hist, loaded[j].from)]
             params == IF m = 0 THEN read.params ELSE Created(n, Line.type)
  <2>1. read' = [read EXCEPT !.systs = @ \o t, !.params = IF m = 0 THEN @ ELSE Created(n, Line.type)]
    BY <1>4 DEF ReadNuisance
  <2>2. read' = [read EXCEPT !.systs = @ \o t, !.params = params]
    BY <2>1
  <2>3. Len(K) \in Nat
    <3>1. Len(columns) \in Nat /\ DOMAIN columns = 1..Len(columns)
      BY SeqDomain DEF ReadInv
    <3>2. at = [k \in 1..Len(columns) |-> at[k]] /\ DOMAIN at = DOMAIN columns
      BY <3>1
    <3>3. IsSeq(at) /\ M \in SUBSET DOMAIN at
      BY <3>1, <3>2, FunIsSeq
    <3> HIDE DEF at, M
    <3>4. IsSeq(K)
      BY <3>3, KeptSet
    <3> QED BY <3>4, SeqDomain
  <2> HIDE DEF K, loaded, n
  <2>4. m \in Nat
    BY <2>3, GoodPart
  <2> HIDE DEF m
  <2>5. t = [k \in 1..m |-> t[k]] /\ \A k \in 1..m : t[k].name = n
    BY DEF Entry
  <2>6. DOMAIN read.params \subseteq DOMAIN params /\ (m # 0 => n \in DOMAIN params)
    <3>1. DOMAIN Created(n, Line.type) = DOMAIN read.params \cup {n}
      BY ParamNames
    <3> QED BY <3>1
  <2> HIDE DEF t, params
  <2> QED BY <2>2, <2>4, <2>5, <2>6
<1>5. CASE ReadRateParam
  <2> DEFINE M == {k \in DOMAIN columns : /\ Line.bin \in {"*", columns[k].bin}
                                          /\ Line.process = columns[k].process}
             K == Kept(columns, M)
             m == Len(K)
             t == [j \in DOMAIN K |-> Entry(K[j], n, "rateParam", FALSE, <<>>)]
  <2>1. read' = [read EXCEPT !.params = WithErr(n, FALSE), !.systs = @ \o t]
    BY <1>5 DEF ReadRateParam
  <2>2. IsSeq(K)
    <3>1. M \in SUBSET DOMAIN columns
      OBVIOUS
    <3> HIDE DEF M
    <3> QED BY <3>1, KeptSet DEF ReadInv
  <2> HIDE DEF K, n
  <2>3. m \in Nat /\ DOMAIN K = 1..m
    BY <2>2, SeqDomain
  <2>4. t = [k \in 1..m |-> t[k]] /\ \A k \in 1..m : t[k].name = n
    BY <2>3 DEF Entry
  <2>5. DOMAIN WithErr(n, FALSE) = DOMAIN read.params \cup {n}
    BY ParamNames
  <2> HIDE DEF t, m
  <2>6. read' = [read EXCEPT !.systs = @ \o t, !.params = WithErr(n, FALSE)]
    BY <2>1 DEF ReadInv, Fields
  <2> QED BY <2>3, <2>4, <2>5, <2>6
<1> QED BY <1>3, <1>4, <1>5

LEMMA NextRead ==
  ASSUME TypesInv, CardsInv, ReadInv, [Next]_vars
  PROVE  ReadInv'
<1>1. CASE \/ \E F \in Filters, open \in BOOLEAN : WriteDatacard(F, open)
           \/ FillHistMappings \/ WriteObservations \/ WriteProcesses
           \/ NumberBackground \/ NumberSignal \/ WriteRates
           \/ (\E n \in todo : WriteNuisance(n)) \/ WriteTail \/ Return
  <2>1. read' = read /\ columns' = columns /\ pc' # "parse"
    BY <1>1 DEF WriteDatacard, FillHistMappings, WriteObservations, WriteProcesses,
         NumberBackground, NumberSignal, WriteRates, WriteNuisance, WriteTail, Return,
         Throw, reader
  <2> QED BY <2>1 DEF ReadInv
<1>2. CASE \E F \in complete, m \in Masses : ParseDatacard(F, m)
  <2>1. /\ read' = read /\ columns' = <<>> /\ i' = 1 /\ complete' = complete /\ key' \in complete
    BY <1>2 DEF ParseDatacard, disk
  <2> QED BY <2>1, NothingAdded DEF ReadInv
<1>3. CASE ReadObservations \/ ReadRates
  BY <1>3, ReadColumns
<1>4. CASE ReadParam \/ ReadNuisance \/ ReadRateParam
  BY <1>4, ReadSysts
<1>5. CASE ReadShapes \/ Ignored \/ ReadFreeze \/ ReadGroup
  <2>1. /\ pc = "parse" /\ pc' \in {"parse", "client"} /\ Rest /\ i' \in {i, i + 1}
        /\ read' = read /\ columns' = columns
    BY <1>5 DEF ReadShapes, Ignored, ReadFreeze, ReadGroup, Scanning, Reading, Skip, Fail
  <2> QED BY <2>1, ReadOn DEF ReadInv
<1>6. CASE ReadAutoMCStats
  <2>1. /\ pc = "parse" /\ pc' \in {"parse", "client"} /\ Rest /\ i' \in {i, i + 1}
        /\ read' = [read EXCEPT !.auto = @ \cup {Line.bin}] /\ columns' = columns
    BY <1>6 DEF ReadAutoMCStats, Scanning, Reading, Skip
  <2>2. Fields(read') /\ read'.obs = read.obs /\ read'.procs = read.procs
        /\ read'.systs = read.systs /\ read'.params = read.params
    BY <2>1 DEF ReadInv, Fields
  <2> QED BY <2>1, <2>2, ReadOn DEF ReadInv, HaveParams
<1>7. CASE EndParse
  <2>1. pc' = "parsed" /\ columns' = columns /\ read' = [read EXCEPT !.params = GroupsSet(@)]
    BY <1>7 DEF EndParse, reader
  <2>2. Fields(read') /\ read'.obs = read.obs /\ read'.procs = read.procs
        /\ read'.systs = read.systs /\ read'.params = GroupsSet(read.params)
    BY <2>1 DEF ReadInv, Fields
  <2>3. DOMAIN read'.params = DOMAIN read.params
    BY <2>2 DEF GroupsSet
  <2> QED BY <2>1, <2>2, <2>3 DEF ReadInv, HaveParams
<1>8. CASE UNCHANGED vars
  BY <1>8 DEF vars, reader, writer, disk, ReadInv, HaveParams, Fields
<1> QED BY <1>1, <1>2, <1>3, <1>4, <1>5, <1>6, <1>7, <1>8 DEF Next

ReadingInv == IdsInv /\ TypesInv /\ CardsInv /\ ReadInv

LEMMA ReadingHolds == Spec => []ReadingInv
<1>1. Init => ReadingInv
  BY InitIds, InitTypes, InitCards, InitRead DEF ReadingInv
<1>2. ReadingInv /\ [Next]_vars => ReadingInv'
  BY NextIds, NextTypes, NextCards, NextRead DEF ReadingInv
<1> QED BY <1>1, <1>2, PTL DEF Spec

\* Whatever cards are parsed, and at whatever line parsing throws, no systematic
\* is without its parameter (the loops of ParseDatacard push the systematics of
\* a column before they create the parameter).
THEOREM SystematicsAreParametrised == Spec => []ReadSystsHaveParams
<1>1. ReadingInv => ReadSystsHaveParams
  BY DEF ReadingInv, ReadInv, HaveParams, ReadSystsHaveParams
<1> QED BY <1>1, ReadingHolds, PTL

-----------------------------------------------------------------------------
(* Rules: which mapping is the one of an object, and where it is written.   *)
LEMMA Resolved ==
  ASSUME NEW maps, NEW pr, NEW b
  PROVE  LET own == {m \in maps : m.process = pr /\ m.category = b}
             any == {m \in maps : m.process = <<"*">> /\ m.category = b}
             R == ResolveMapping(maps, pr, b)
         IN  /\ R \subseteq maps
             /\ own # {} => R = own
             /\ own = {} /\ any # {} => R = any
<1> DEFINE At(x, c) == {m \in maps : m.process = x /\ m.category = c}
           attempts == <<At(pr, b), At(<<"*">>, b), At(pr, "*"), At(<<"*">>, "*")>>
           hits == {a \in 1..4 : attempts[a] # {}}
           R == ResolveMapping(maps, pr, b)
<1>1. R = IF hits = {} THEN {} ELSE attempts[Min(hits)]
  BY DEF ResolveMapping
<1>2. attempts[1] = At(pr, b) /\ attempts[2] = At(<<"*">>, b)
      /\ attempts[3] = At(pr, "*") /\ attempts[4] = At(<<"*">>, "*")
  OBVIOUS
<1>3. At(pr, b) \subseteq maps /\ At(<<"*">>, b) \subseteq maps
      /\ At(pr, "*") \subseteq maps /\ At(<<"*">>, "*") \subseteq maps
  OBVIOUS
<1> HIDE DEF At, attempts, R
<1>4. \A a \in 1..4 : attempts[a] \subseteq maps
  <2> SUFFICES ASSUME NEW a \in 1..4 PROVE attempts[a] \subseteq maps
    OBVIOUS
  <2>1. a = 1 \/ a = 2 \/ a = 3 \/ a = 4
    OBVIOUS
  <2> QED BY <1>2, <1>3, <2>1
<1>5. hits # {} => Min(hits) \in hits /\ \A a \in hits : Min(hits) <= a
  <2>1. hits \in SUBSET Nat
    OBVIOUS
  <2> HIDE DEF hits
  <2> QED BY <2>1, MinIn
<1>6. R \subseteq maps
  BY <1>1, <1>4, <1>5
<1>7. At(pr, b) # {} => R = At(pr, b)
  <2> SUFFICES ASSUME At(pr, b) # {} PROVE R = At(pr, b)
    OBVIOUS
  <2>1. 1 \in hits
    BY <1>2
  <2>2. Min(hits) = 1
    BY <1>5, <2>1
  <2> QED BY <1>1, <1>2, <2>1, <2>2
<1>8. At(pr, b) = {} /\ At(<<"*">>, b) # {} => R = At(<<"*">>, b)
  <2> SUFFICES ASSUME At(pr, b) = {}, At(<<"*">>, b) # {} PROVE R = At(<<"*">>, b)
    OBVIOUS
  <2>1. 2 \in hits /\ 1 \notin hits
    BY <1>2
  <2>2. Min(hits) = 2
    BY <1>5, <2>1
  <2> QED BY <1>1, <1>2, <2>1, <2>2
<1> QED BY <1>6, <1>7, <1>8 DEF At, R

\* The mappings are of three kinds.
LEMMA MappingKinds ==
  ASSUME NEW C, NEW m \in Mappings(C)
  PROVE  \/ m.process = <<"*">> /\ m.rule = "$PROCESS" /\ HistBin(C, m.category)
         \/ m.process = <<"*">> /\ m.rule = "FAKE" /\ ~HistBin(C, m.category)
         \/ /\ m.rule = "$PROCESS$MASS"
            /\ \E q \in HistSignals(C) :
                 q.mass \in Masses /\ q.process = m.process /\ q.bin = m.category
  BY DEF Mappings, Mapping

LEMMA MappingsThere ==
  ASSUME NEW C
  PROVE  /\ \A b \in all_bins(C) : HistBin(C, b) => Mapping(<<"*">>, b, "$PROCESS") \in Mappings(C)
         /\ \A b \in all_bins(C) : ~HistBin(C, b) /\ CountingBin(C, b) =>
              Mapping(<<"*">>, b, "FAKE") \in Mappings(C)
         /\ \A q \in HistSignals(C) : q.mass \in Masses =>
              Mapping(q.process, q.bin, "$PROCESS$MASS") \in Mappings(C)
  BY DEF Mappings

LEMMA MappingFields ==
  ASSUME NEW C, NEW m \in Mappings(C)
  PROVE  m = Mapping(m.process, m.category, m.rule)
  BY DEF Mappings, Mapping

\* A histogram is written where OnePath says it may be, or nowhere.
LEMMA WrittenPaths ==
  ASSUME cb \in Inputs, NEW F, NEW z, z.process # <<"*">>, z.signal => z.mass \in F,
         NEW suffix, NEW x \in Paths(Select(cb, F), z, suffix)
  PROVE  x = <<>> \/ x \in PathsOf(cb, z, suffix)
<1> DEFINE C == Select(cb, F)
           own == /\ z.signal /\ z.mass \in Masses
                  /\ \E q \in ToSet(cb.procs) : q.hist /\ MatchingProcess(z, q)
           R == ResolveMapping(Mappings(C), z.process, z.bin)
           mine == {m \in Mappings(C) : m.process = z.process /\ m.category = z.bin}
<1>1. PICK m \in R : x = Path(m, z.bin, z.process, z.mass, suffix)
  BY DEF Paths
<1>2. m \in Mappings(C) /\ (mine # {} => m \in mine)
  <2> HIDE DEF C
  <2> QED BY <1>1, Resolved
<1>3. CASE m.rule = "FAKE"
  BY <1>1, <1>3 DEF Path
<1>4. CASE m.rule = "$PROCESS$MASS"
  BY <1>1, <1>4 DEF Path, PathsOf
<1>5. CASE m.rule = "$PROCESS"
  <2>1. x = <<z.bin>> \o z.process \o <<>> \o suffix
    BY <1>1, <1>5 DEF Path
  <2>2. ~own
    <3> SUFFICES ASSUME own PROVE FALSE
      OBVIOUS
    <3>1. PICK q \in ToSet(cb.procs) : q.hist /\ MatchingProcess(z, q)
      OBVIOUS
    <3>2. q.mass \in F /\ q.mass \in Masses /\ q.signal /\ q.bin = z.bin /\ q.process = z.process
      BY <3>1 DEF MatchingProcess
    <3>3. q \in HistSignals(C)
      BY <3>1, <3>2, SelectParts DEF HistSignals
    <3> HIDE DEF C
    <3>4. Mapping(q.process, q.bin, "$PROCESS$MASS") \in Mappings(C)
      BY <3>2, <3>3, MappingsThere
    <3>5. mine # {}
      BY <3>2, <3>4 DEF Mapping
    <3>6. m.process = z.process
      BY <1>2, <3>5
    <3> QED BY <1>2, <1>5, <3>6, MappingKinds
  <2> QED BY <2>1, <2>2 DEF PathsOf
<1> QED BY <1>2, <1>3, <1>4, <1>5, MappingKinds

\* What a sequence of writes leaves of the root file, and adds to it.
LEMMA Putting ==
  ASSUME NEW objects, DOMAIN objects \subseteq Nat, NEW suffix, Put(objects, suffix)
  PROVE  /\ \A x \in DOMAIN root : x \in DOMAIN root' /\ root'[x] = root[x]
         /\ \A x \in DOMAIN root' : \/ x \in DOMAIN root
              \/ \E k \in DOMAIN objects : /\ x \in Paths(cmb, objects[k], suffix)
                                           /\ root'[x] = Ident(objects[k]) \o suffix
         /\ is_open => \A k \in DOMAIN objects : Paths(cmb, objects[k], suffix) \subseteq DOMAIN root'
<1> DEFINE At(x) == {k \in DOMAIN objects : x \in Paths(cmb, objects[k], suffix)}
           new == UNION {Paths(cmb, objects[k], suffix) : k \in DOMAIN objects}
<1>1. CASE ~is_open
  BY <1>1 DEF Put
<1>2. CASE is_open
  <2>1. root' = [x \in DOMAIN root \cup new |->
                   IF x \in DOMAIN root THEN root[x] ELSE Ident(objects[Min(At(x))]) \o suffix]
    BY <1>2 DEF Put, WriteToTFile
  <2>2. \A x \in new : At(x) # {} /\ At(x) \in SUBSET Nat
    OBVIOUS
  <2>3. \A x \in new : Min(At(x)) \in At(x)
    <3> HIDE DEF At, new
    <3> QED BY <2>2, MinIn
  <2>4. \A x \in new : Min(At(x)) \in DOMAIN objects /\ x \in Paths(cmb, objects[Min(At(x))], suffix)
    BY <2>3
  <2>5. \A k \in DOMAIN objects : Paths(cmb, objects[k], suffix) \subseteq new
    OBVIOUS
  <2> HIDE DEF At, new
  <2> QED BY <2>1, <2>4, <2>5
<1> QED BY <1>1, <1>2

RootInv ==
  \A x \in DOMAIN root : x = <<>> \/ \E h \in Hists(cb) :
    x \in PathsOf(cb, h[1], h[2]) /\ root[x] = Ident(h[1]) \o h[2]

\* Writes of objects of the instance.
LEMMA PutRoot ==
  ASSUME cb \in Inputs, RootInv, cb' = cb, cmb = Select(cb, key),
         NEW objects, DOMAIN objects \subseteq Nat, NEW suffix, Put(objects, suffix),
         \A k \in DOMAIN objects :
           LET z == objects[k] IN
             /\ z.process # <<"*">> /\ (z.signal => z.mass \in key) /\ z.hist
             /\ \/ suffix = <<>> /\ z \in ToSet(cb.procs) \cup ToSet(Data(cb))
                \/ suffix = Suffix(z.name) /\ z \in ToSet(cb.systs)
  PROVE  RootInv'
<1> SUFFICES ASSUME NEW x \in DOMAIN root', x # <<>>
             PROVE  \E h \in Hists(cb) :
                      x \in PathsOf(cb, h[1], h[2]) /\ root'[x] = Ident(h[1]) \o h[2]
  BY DEF RootInv
<1>1. CASE x \in DOMAIN root
  <2>1. root'[x] = root[x]
    BY <1>1, Putting
  <2>2. PICK h \in Hists(cb) : x \in PathsOf(cb, h[1], h[2]) /\ root[x] = Ident(h[1]) \o h[2]
    BY <1>1 DEF RootInv
  <2> QED BY <2>1, <2>2
<1>2. CASE x \notin DOMAIN root
  <2>1. PICK k \in DOMAIN objects : /\ x \in Paths(cmb, objects[k], suffix)
                                    /\ root'[x] = Ident(objects[k]) \o suffix
    BY <1>2, Putting
  <2> DEFINE z == objects[k]
  <2>2. /\ z.process # <<"*">> /\ (z.signal => z.mass \in key) /\ z.hist
        /\ \/ suffix = <<>> /\ z \in ToSet(cb.procs) \cup ToSet(Data(cb))
           \/ suffix = Suffix(z.name) /\ z \in ToSet(cb.systs)
    OBVIOUS
  <2>3. x \in Paths(Select(cb, key), z, suffix) /\ root'[x] = Ident(z) \o suffix
    BY <2>1
  <2> HIDE DEF z
  <2>4. x \in PathsOf(cb, z, suffix)
    BY <2>2, <2>3, WrittenPaths
  <2>5. <<z, suffix>> \in Hists(cb)
    BY <2>2 DEF Hists
  <2> QED BY <2>3, <2>4, <2>5
<1> QED BY <1>1, <1>2

LEMMA DataPart ==
  ASSUME cb \in Inputs, NEW F
  PROVE  /\ Data(Select(cb, F)) = Data(cb)
         /\ IsSeq(Data(cb)) /\ \A z \in ToSet(Data(cb)) :
              z.process = <<"data_obs">> /\ z.signal = FALSE /\ \E o \in ToSet(cb.obs) : z = DataObs(o)
<1>1. Select(cb, F).obs = cb.obs /\ IsSeq(Select(cb, F).obs)
  BY SelectParts
<1>2. Data(Select(cb, F)) = Data(cb)
  BY <1>1 DEF Data
<1>3. Len(cb.obs) \in Nat /\ DOMAIN cb.obs = 1..Len(cb.obs)
  BY <1>1, SeqDomain
<1>4. Data(cb) = [k \in 1..Len(cb.obs) |-> Data(cb)[k]]
      /\ \A k \in DOMAIN cb.obs : Data(cb)[k] = DataObs(cb.obs[k])
  BY <1>3 DEF Data
<1>5. IsSeq(Data(cb)) /\ DOMAIN Data(cb) = DOMAIN cb.obs
  BY <1>3, <1>4, FunIsSeq
<1>6. \A z \in ToSet(Data(cb)) : \E o \in ToSet(cb.obs) : z = DataObs(o)
  BY <1>4, <1>5 DEF ToSet
<1>7. \A z \in ToSet(Data(cb)) : z.process = <<"data_obs">> /\ z.signal = FALSE
  BY <1>6 DEF DataObs
<1> QED BY <1>2, <1>5, <1>6, <1>7

LEMMA HistObjects ==
  ASSUME NEW s, IsSeq(s)
  PROVE  /\ DOMAIN WithHist(s) \subseteq Nat /\ DOMAIN WithHist(s) = {k \in DOMAIN s : s[k].hist}
         /\ \A k \in DOMAIN WithHist(s) : WithHist(s)[k] = s[k] /\ s[k] \in ToSet(s) /\ s[k].hist
<1>1. DOMAIN s = 1..Len(s) /\ Len(s) \in Nat
  BY SeqDomain
<1> QED BY <1>1 DEF WithHist, ToSet

\* The entries that WriteDatacard looks at, and the last of them.
LEMMA SeenEntries ==
  ASSUME NEW C, IsSeq(C.systs), NEW n, NEW k
  PROVE  /\ Seen(C, n, k) \subseteq DOMAIN C.systs
         /\ \A j \in Seen(C, n, k) :
              /\ C.systs[j].name = n /\ C.systs[j].type \in NuisanceTypes
              /\ MatchingProcess(C.systs[j], C.procs[k])
         /\ Seen(C, n, k) # {} => \E j \in Seen(C, n, k) :
              LastSeen(C, n, k) = C.systs[j] /\ \A l \in Seen(C, n, k) : l <= j
<1>1. Len(C.systs) \in Nat /\ DOMAIN C.systs = 1..Len(C.systs)
  BY SeqDomain
<1>2. Seen(C, n, k) \subseteq DOMAIN C.systs
      /\ \A j \in Seen(C, n, k) :
           /\ C.systs[j].name = n /\ C.systs[j].type \in NuisanceTypes
           /\ MatchingProcess(C.systs[j], C.procs[k])
  BY DEF Seen
<1>3. Seen(C, n, k) # {} => /\ Max(Seen(C, n, k)) \in Seen(C, n, k)
                            /\ \A l \in Seen(C, n, k) : l <= Max(Seen(C, n, k))
  BY <1>1, <1>2, MaxIn
<1> QED BY <1>2, <1>3 DEF LastSeen

LEMMA NextRoot ==
  ASSUME TypesInv, RootInv, [Next]_vars
  PROVE  RootInv'
<1>1. cb \in Inputs
  BY DEF TypesInv
<1>2. CASE WriteObservations
  <2>1. Put(WithHist(Data(cmb)), <<>>) /\ cb' = cb /\ pc = "observations"
    BY <1>2 DEF WriteObservations
  <2>2. cmb = Select(cb, key)
    BY <2>1 DEF TypesInv, Writing
  <2>3. Data(cmb) = Data(cb) /\ IsSeq(Data(cb))
        /\ \A z \in ToSet(Data(cb)) : z.process = <<"data_obs">> /\ z.signal = FALSE
    BY <1>1, <2>2, DataPart
  <2> DEFINE objects == WithHist(Data(cmb))
  <2>4. DOMAIN objects \subseteq Nat
        /\ \A k \in DOMAIN objects : objects[k] \in ToSet(Data(cb)) /\ objects[k].hist
    BY <2>3, HistObjects
  <2>5. <<"data_obs">> # <<"*">>
    OBVIOUS
  <2> HIDE DEF objects
  <2>6. \A k \in DOMAIN objects :
           LET z == objects[k] IN
             /\ z.process # <<"*">> /\ (z.signal => z.mass \in key) /\ z.hist
             /\ <<>> = <<>> /\ z \in ToSet(cb.procs) \cup ToSet(Data(cb))
    BY <2>3, <2>4, <2>5
  <2>7. Put(objects, <<>>)
    BY <2>1 DEF objects
  <2> QED BY <1>1, <2>1, <2>2, <2>4, <2>6, <2>7, PutRoot
<1>3. CASE WriteProcesses
  <2>1. Put(WithHist(cmb.procs), <<>>) /\ cb' = cb /\ pc = "processes"
    BY <1>3 DEF WriteProcesses
  <2>2. cmb = Select(cb, key)
    BY <2>1 DEF TypesInv, Writing
  <2>3. IsSeq(cmb.procs) /\ ToSet(cmb.procs) = {q \in ToSet(cb.procs) : q.mass \in key}
    BY <1>1, <2>2, SelectParts
  <2> DEFINE objects == WithHist(cmb.procs)
  <2>4. DOMAIN objects \subseteq Nat
        /\ \A k \in DOMAIN objects : objects[k] \in ToSet(cmb.procs) /\ objects[k].hist
    BY <2>3, HistObjects
  <2> HIDE DEF objects
  <2>5. \A k \in DOMAIN objects :
           LET z == objects[k] IN
             /\ z.process # <<"*">> /\ (z.signal => z.mass \in key) /\ z.hist
             /\ <<>> = <<>> /\ z \in ToSet(cb.procs) \cup ToSet(Data(cb))
    BY <1>1, <2>3, <2>4, NamesAssumption
  <2>6. Put(objects, <<>>)
    BY <2>1 DEF objects
  <2> QED BY <1>1, <2>1, <2>2, <2>4, <2>5, <2>6, PutRoot
<1>4. CASE \E n \in todo : WriteNuisance(n)
  <2>1. PICK n \in todo : WriteNuisance(n)
    BY <1>4
  <2>2. cb' = cb /\ pc = "nuisances"
        /\ (root' = root \/ \E K \in SUBSET DOMAIN cmb.procs : Put(NuisanceShapes(cmb, n, K), Suffix(n)))
    <3>1. cb' = cb /\ pc = "nuisances"
      BY <2>1 DEF WriteNuisance
    <3>2. CASE n \in param_set(cmb)
      BY <2>1, <3>1, <3>2 DEF WriteNuisance
    <3>3. CASE n \notin param_set(cmb)
      <4> DEFINE stop == ~allow_missing /\ Missing(cmb, n) # {}
                 K == IF stop THEN 1..(Min(Missing(cmb, n)) - 1) ELSE DOMAIN cmb.procs
      <4>1. Put(NuisanceShapes(cmb, n, K), Suffix(n))
        BY <2>1, <3>3 DEF WriteNuisance
      <4>2. K \in SUBSET DOMAIN cmb.procs
        <5>1. IsSeq(cmb.procs)
          BY <1>1, <3>1, SelectParts DEF TypesInv, Writing
        <5>2. Len(cmb.procs) \in Nat /\ DOMAIN cmb.procs = 1..Len(cmb.procs)
          BY <5>1, SeqDomain
        <5>3. Missing(cmb, n) \in SUBSET Nat /\ Missing(cmb, n) \subseteq DOMAIN cmb.procs
          BY <5>2 DEF Missing
        <5>4. Missing(cmb, n) # {} => Min(Missing(cmb, n)) \in Missing(cmb, n)
          BY <5>3, MinIn
        <5> QED BY <5>2, <5>3, <5>4
      <4> QED BY <3>1, <4>1, <4>2
    <3> QED BY <3>2, <3>3
  <2>3. cmb = Select(cb, key)
    BY <2>2 DEF TypesInv, Writing
  <2>4. CASE root' = root
    BY <2>2, <2>4 DEF RootInv
  <2>5. ASSUME NEW K \in SUBSET DOMAIN cmb.procs, Put(NuisanceShapes(cmb, n, K), Suffix(n))
        PROVE  RootInv'
    <3> DEFINE objects == NuisanceShapes(cmb, n, K)
    <3>1. /\ IsSeq(cmb.systs) /\ ToSet(cmb.systs) = {s \in ToSet(cb.systs) : s.mass \in key}
          /\ IsSeq(cmb.procs) /\ ToSet(cmb.procs) = {q \in ToSet(cb.procs) : q.mass \in key}
      BY <1>1, <2>3, SelectParts
    <3>2. DOMAIN cmb.procs = 1..Len(cmb.procs) /\ Len(cmb.procs) \in Nat
      BY <3>1, SeqDomain
    <3>3. /\ DOMAIN objects \subseteq K
          /\ \A k \in DOMAIN objects : /\ Seen(cmb, n, k) # {} /\ LastSeen(cmb, n, k).hist
                                       /\ objects[k] = LastSeen(cmb, n, k)
      BY DEF NuisanceShapes
    <3> HIDE DEF objects
    <3>4. ASSUME NEW k \in DOMAIN objects
          PROVE  LET z == objects[k] IN
                   /\ z.process # <<"*">> /\ (z.signal => z.mass \in key) /\ z.hist
                   /\ Suffix(n) = Suffix(z.name) /\ z \in ToSet(cb.systs)
      <4>1. PICK j \in Seen(cmb, n, k) : LastSeen(cmb, n, k) = cmb.systs[j]
        BY <3>1, <3>3, SeenEntries
      <4>2. /\ j \in DOMAIN cmb.systs /\ cmb.systs[j].name = n
            /\ MatchingProcess(cmb.systs[j], cmb.procs[k])
        BY <3>1, <4>1, SeenEntries
      <4>3. cmb.systs[j] \in ToSet(cmb.systs) /\ cmb.procs[k] \in ToSet(cmb.procs)
        BY <3>3, <4>2 DEF ToSet
      <4>4. cmb.systs[j].process = cmb.procs[k].process
        BY <4>2 DEF MatchingProcess
      <4>5. objects[k] = cmb.systs[j] /\ objects[k].hist
        BY <3>3, <4>1
      <4> QED BY <1>1, <3>1, <4>2, <4>3, <4>4, <4>5, NamesAssumption
    <3>5. Put(objects, Suffix(n))
      BY <2>5 DEF objects
    <3>6. DOMAIN objects \subseteq Nat
      BY <3>2, <3>3
    <3> QED BY <1>1, <2>2, <2>3, <3>4, <3>5, <3>6, PutRoot
  <2> QED BY <2>2, <2>4, <2>5
<1>5. CASE \/ \E F \in Filters, open \in BOOLEAN : WriteDatacard(F, open)
           \/ FillHistMappings \/ NumberBackground \/ NumberSignal \/ WriteRates \/ WriteTail
           \/ \E F \in complete, m \in Masses : ParseDatacard(F, m)
           \/ ReadShapes \/ ReadObservations \/ ReadRates \/ Ignored \/ ReadParam
           \/ ReadNuisance \/ ReadRateParam \/ ReadFreeze \/ ReadAutoMCStats \/ ReadGroup
           \/ EndParse \/ Return
  <2>1. cb' = cb /\ root' = root
    BY <1>5 DEF WriteDatacard, FillHistMappings, NumberBackground, NumberSignal, WriteRates,
         WriteTail, ParseDatacard, ReadShapes, ReadObservations, ReadRates, Ignored, ReadParam,
         ReadNuisance, ReadRateParam, ReadFreeze, ReadAutoMCStats, ReadGroup, EndParse, Return,
         Rest, disk
  <2> QED BY <2>1 DEF RootInv
<1>6. CASE UNCHANGED vars
  BY <1>6 DEF vars, disk, RootInv
<1> QED BY <1>2, <1>3, <1>4, <1>5, <1>6 DEF Next

-----------------------------------------------------------------------------
(* Reading back: each column has one rule, and the histogram at its path is *)
(* its own.                                                                 *)
Own_(q) == q.signal /\ q.mass \in Masses
OwnPath(q) == <<q.bin>> \o q.process \o (IF Own_(q) THEN <<q.mass>> ELSE <<>>) \o <<>>

\* The rules of the columns and of the data of a card that can express them.
LEMMA ColumnRule ==
  ASSUME cb \in Inputs, NEW F, Expressible(Select(cb, F)),
         NEW k \in DOMAIN Select(cb, F).procs
  PROVE  LET q == Select(cb, F).procs[k]
             R == ResolveMapping(Mappings(Select(cb, F)), q.process, q.bin)
         IN  R = {IF q.hist /\ Own_(q) THEN Mapping(q.process, q.bin, "$PROCESS$MASS")
                  ELSE Mapping(<<"*">>, q.bin, IF q.hist THEN "$PROCESS" ELSE "FAKE")}
<1> DEFINE C == Select(cb, F)
           q == C.procs[k]
           maps == Mappings(C)
           mine == {m \in maps : m.process = q.process /\ m.category = q.bin}
           any == {m \in maps : m.process = <<"*">> /\ m.category = q.bin}
           R == ResolveMapping(maps, q.process, q.bin)
           own == {x \in HistSignals(C) : x.mass \in Masses}
           others == {x \in (ToSet(C.procs) \ own) \cup ToSet(C.obs) : x.bin = q.bin}
<1>1. q \in ToSet(C.procs) /\ ToSet(C.procs) \subseteq ToSet(cb.procs) /\ IsSeq(C.procs)
  <2>1. IsSeq(C.procs) /\ ToSet(C.procs) = {x \in ToSet(cb.procs) : x.mass \in F}
    BY SelectParts
  <2>2. q \in ToSet(C.procs)
    BY DEF ToSet
  <2> QED BY <2>1, <2>2
<1>2. q.bin \in all_bins(C)
  BY <1>1 DEF all_bins, bin_set
<1>3. UniformBins(C) /\ DistinctColumns(C)
  BY DEF Expressible
<1>4. (\A x \in others : ~x.hist) \/ (HistBin(C, q.bin) /\ \A x \in others : x.hist)
  BY <1>2, <1>3 DEF UniformBins
<1>5. \A x \in ToSet(C.procs) : x.bin = q.bin /\ x.process = q.process => x = q
  BY <1>3 DEF DistinctColumns, ToSet
<1>6. q.process # <<"*">>
  BY <1>1, NamesAssumption
<1>7. HistBin(C, q.bin) => \E x \in others : x.hist
  <2> SUFFICES ASSUME HistBin(C, q.bin) PROVE \E x \in others : x.hist
    OBVIOUS
  <2>1. \/ \E x \in ToSet(C.procs) : x.bin = q.bin /\ x.hist /\ ~x.signal
        \/ \E x \in ToSet(C.obs) : x.bin = q.bin /\ x.hist
    BY DEF HistBin
  <2> QED BY <2>1 DEF HistSignals
<1>8. q.hist /\ Own_(q) <=> q \in own
  BY <1>1 DEF Own_, HistSignals
<1>9. q \notin own => q \in others
  BY <1>1
<1> HIDE DEF others
<1>10. CASE q \in own
  <2>1. Mapping(q.process, q.bin, "$PROCESS$MASS") \in maps
    BY <1>10, MappingsThere
  <2>2. Mapping(q.process, q.bin, "$PROCESS$MASS") \in mine
    BY <2>1 DEF Mapping
  <2>3. R = mine
    BY <2>2, Resolved
  <2>4. \A m \in mine : m.rule = "$PROCESS$MASS"
    <3> HIDE DEF C
    <3> QED BY <1>6, MappingKinds
  <2>5. \A m \in mine : m = Mapping(q.process, q.bin, "$PROCESS$MASS")
    <3> HIDE DEF C
    <3> QED BY <2>4, MappingFields
  <2>6. mine = {Mapping(q.process, q.bin, "$PROCESS$MASS")}
    BY <2>2, <2>5
  <2> QED BY <1>8, <1>10, <2>3, <2>6
<1>11. CASE q \notin own
  <2>1. mine = {}
    <3> SUFFICES ASSUME NEW m \in mine PROVE FALSE
      OBVIOUS
    <3> HIDE DEF C
    <3>1. m.process = q.process /\ m.category = q.bin /\ m \in maps
      OBVIOUS
    <3>2. PICK x \in HistSignals(C) : x.mass \in Masses /\ x.process = q.process /\ x.bin = q.bin
      BY <1>6, <3>1, MappingKinds
    <3>3. x \in ToSet(C.procs)
      BY <3>2 DEF HistSignals
    <3> QED BY <1>5, <1>11, <3>2, <3>3
  <2>2. q.hist <=> HistBin(C, q.bin)
    BY <1>4, <1>7, <1>9, <1>11
  <2>3. ~q.hist => CountingBin(C, q.bin)
    BY <1>1 DEF CountingBin
  <2> DEFINE rule == IF q.hist THEN "$PROCESS" ELSE "FAKE"
  <2>4. Mapping(<<"*">>, q.bin, rule) \in maps
    <3> HIDE DEF C
    <3> QED BY <1>2, <2>2, <2>3, MappingsThere
  <2>5. Mapping(<<"*">>, q.bin, rule) \in any
    BY <2>4 DEF Mapping
  <2>6. R = any
    BY <2>1, <2>5, Resolved
  <2>7. \A m \in any : m.rule = rule
    <3> SUFFICES ASSUME NEW m \in any PROVE m.rule = rule
      OBVIOUS
    <3>1. m \in maps /\ m.process = <<"*">> /\ m.category = q.bin
      OBVIOUS
    <3>2. ASSUME NEW x \in HistSignals(C), x.process = m.process PROVE FALSE
      <4>1. x \in ToSet(C.procs)
        BY <3>2 DEF HistSignals
      <4> QED BY <1>1, <3>1, <3>2, <4>1, NamesAssumption
    <3> HIDE DEF C
    <3> QED BY <2>2, <3>1, <3>2, MappingKinds
  <2>8. \A m \in any : m = Mapping(<<"*">>, q.bin, rule)
    <3> HIDE DEF C
    <3> QED BY <2>7, MappingFields
  <2>9. any = {Mapping(<<"*">>, q.bin, rule)}
    BY <2>5, <2>8
  <2> QED BY <1>8, <1>11, <2>6, <2>9
<1> QED BY <1>10, <1>11

LEMMA DataRule ==
  ASSUME cb \in Inputs, NEW F, Expressible(Select(cb, F)), NEW o \in ToSet(cb.obs)
  PROVE  ResolveMapping(Mappings(Select(cb, F)), <<"data_obs">>, o.bin) =
           {Mapping(<<"*">>, o.bin, IF o.hist THEN "$PROCESS" ELSE "FAKE")}
<1> DEFINE C == Select(cb, F)
           data == <<"data_obs">>
           maps == Mappings(C)
           mine == {m \in maps : m.process = data /\ m.category = o.bin}
           any == {m \in maps : m.process = <<"*">> /\ m.category = o.bin}
           R == ResolveMapping(maps, data, o.bin)
           own == {x \in HistSignals(C) : x.mass \in Masses}
           others == {x \in (ToSet(C.procs) \ own) \cup ToSet(C.obs) : x.bin = o.bin}
           rule == IF o.hist THEN "$PROCESS" ELSE "FAKE"
<1>1. /\ ToSet(C.procs) \subseteq ToSet(cb.procs) /\ C.obs = cb.obs
  BY SelectParts
<1>2. o.bin \in all_bins(C) /\ o \in others
  BY <1>1 DEF all_bins
<1>3. UniformBins(C)
  BY DEF Expressible
<1>4. (\A x \in others : ~x.hist) \/ (HistBin(C, o.bin) /\ \A x \in others : x.hist)
  BY <1>2, <1>3 DEF UniformBins
<1>5. HistBin(C, o.bin) => \E x \in others : x.hist
  <2> SUFFICES ASSUME HistBin(C, o.bin) PROVE \E x \in others : x.hist
    OBVIOUS
  <2>1. \/ \E x \in ToSet(C.procs) : x.bin = o.bin /\ x.hist /\ ~x.signal
        \/ \E x \in ToSet(C.obs) : x.bin = o.bin /\ x.hist
    BY DEF HistBin
  <2> QED BY <2>1 DEF HistSignals
<1>6. o.hist <=> HistBin(C, o.bin)
  BY <1>2, <1>4, <1>5
<1>7. ~o.hist => CountingBin(C, o.bin)
  BY <1>1 DEF CountingBin
<1>8. ASSUME NEW x \in HistSignals(C) PROVE x.process \notin {data, <<"*">>}
  <2>1. x \in ToSet(C.procs)
    BY <1>8 DEF HistSignals
  <2> QED BY <1>1, <2>1, NamesAssumption
<1>9. data # <<"*">>
  OBVIOUS
<1> HIDE DEF C, data, others
<1>10. mine = {}
  <2> SUFFICES ASSUME NEW m \in mine PROVE FALSE
    OBVIOUS
  <2>1. m.process = data /\ m \in maps
    OBVIOUS
  <2> QED BY <1>8, <1>9, <2>1, MappingKinds
<1>11. Mapping(<<"*">>, o.bin, rule) \in maps
  BY <1>2, <1>6, <1>7, MappingsThere
<1>12. Mapping(<<"*">>, o.bin, rule) \in any
  BY <1>11 DEF Mapping
<1>13. R = any
  BY <1>10, <1>12, Resolved
<1>14. \A m \in any : m.rule = rule
  <2> SUFFICES ASSUME NEW m \in any PROVE m.rule = rule
    OBVIOUS
  <2>1. m \in maps /\ m.process = <<"*">> /\ m.category = o.bin
    OBVIOUS
  <2> QED BY <1>6, <1>8, <2>1, MappingKinds
<1>15. \A m \in any : m = Mapping(<<"*">>, o.bin, rule)
  BY <1>14, MappingFields
<1>16. any = {Mapping(<<"*">>, o.bin, rule)}
  BY <1>12, <1>15
<1> QED BY <1>13, <1>16 DEF C, data

\* The histogram at the path of an object of the instance is its own.
LEMMA OwnHist ==
  ASSUME RootInv, OnePath(cb), NEW z, NEW suffix, <<z, suffix>> \in Hists(cb),
         NEW x \in DOMAIN root, x \in PathsOf(cb, z, suffix), x # <<>>
  PROVE  root[x] = Ident(z) \o suffix
<1>1. PICK h \in Hists(cb) : x \in PathsOf(cb, h[1], h[2]) /\ root[x] = Ident(h[1]) \o h[2]
  BY DEF RootInv
<1> DEFINE g == <<z, suffix>>
<1>2. g[1] = z /\ g[2] = suffix /\ g \in Hists(cb)
  OBVIOUS
<1> HIDE DEF g
<1>3. PathsOf(cb, h[1], h[2]) \cap PathsOf(cb, g[1], g[2]) # {}
  BY <1>1, <1>2
<1>4. Ident(h[1]) \o h[2] = Ident(g[1]) \o g[2]
  BY <1>1, <1>2, <1>3 DEF OnePath
<1> QED BY <1>1, <1>2, <1>4

LEMMA IdentAlone ==
  ASSUME NEW q
  PROVE  Ident(q) \o <<>> = Ident(q)
<1> DEFINE t == Ident(q)
<1>1. t \in Seq({q.bin, q.process, q.mass})
  BY DEF Ident
<1> HIDE DEF t
<1>2. t \o <<>> = t
  BY <1>1
<1> QED BY <1>2 DEF t

LEMMA ShortSeqs ==
  ASSUME NEW x
  PROVE  IsSeq(<<>>) /\ IsSeq(<<x>>)
<1>1. <<>> \in Seq({x}) /\ <<x>> \in Seq({x})
  OBVIOUS
<1> QED BY <1>1, SeqIsSeq

\* A path starts with its bin.
LEMMA PathNotEmpty ==
  ASSUME NEW b, NEW s, NEW t, NEW u, IsSeq(s), IsSeq(t), IsSeq(u)
  PROVE  <<b>> \o s \o t \o u # <<>>
<1> DEFINE v == <<b>>
<1>1. Len(v) = 1
  OBVIOUS
<1>2. IsSeq(v)
  BY ShortSeqs
<1> HIDE DEF v
<1>3. IsSeq(v \o s) /\ Len(v \o s) = Len(v) + Len(s)
  BY <1>2, Concat
<1>4. IsSeq(v \o s \o t) /\ Len(v \o s \o t) = Len(v \o s) + Len(t)
  BY <1>3, Concat
<1>5. Len(v \o s \o t \o u) = Len(v \o s \o t) + Len(u)
  BY <1>4, Concat
<1>6. Len(s) \in Nat /\ Len(t) \in Nat /\ Len(u) \in Nat
  BY <1>2, SeqDomain
<1>7. Len(v \o s \o t \o u) # 0
  BY <1>1, <1>3, <1>4, <1>5, <1>6
<1> QED BY <1>7 DEF v

\* What LoadShapes gives for a column, whatever the mass of other columns is.
LEMMA LoadedProcess ==
  ASSUME cb \in Inputs, NEW F, Expressible(Select(cb, F)),
         hist_mapping = Mappings(Select(cb, F)),
         NEW k \in DOMAIN Select(cb, F).procs, Select(cb, F).procs[k].mass \in {mass, "*"}
  PROVE  LET q == Select(cb, F).procs[k]
         IN  LoadShapes(q.bin, q.process, Ident(q)) =
               IF q.hist THEN AtPath(OwnPath(q), Ident(q)) ELSE Loaded(TRUE, FALSE, Ident(q))
<1> DEFINE q == Select(cb, F).procs[k]
           M == ResolveMapping(hist_mapping, q.process, q.bin)
           m == IF q.hist /\ Own_(q) THEN Mapping(q.process, q.bin, "$PROCESS$MASS")
                ELSE Mapping(<<"*">>, q.bin, IF q.hist THEN "$PROCESS" ELSE "FAKE")
<1>1. M = {m}
  BY ColumnRule
<1>2. hist_mapping # {}
  BY <1>1, Resolved
<1>3. (CHOOSE x \in M : TRUE) = m
  BY <1>1
<1>4. Own_(q) => q.mass = mass
  BY NamesAssumption DEF Own_
<1> HIDE DEF M, q
<1>5. LoadShapes(q.bin, q.process, Ident(q)) =
        IF m.rule = "FAKE" THEN Loaded(TRUE, FALSE, Ident(q))
        ELSE AtPath(Path(m, q.bin, q.process, mass, <<>>), Ident(q))
  BY <1>1, <1>2, <1>3 DEF LoadShapes, M
<1>6. m.rule = IF q.hist THEN IF Own_(q) THEN "$PROCESS$MASS" ELSE "$PROCESS" ELSE "FAKE"
  BY DEF Mapping
<1> HIDE DEF m
<1>7. q.hist => Path(m, q.bin, q.process, mass, <<>>) = OwnPath(q)
  BY <1>4, <1>6 DEF Path, OwnPath
<1>8. LoadShapes(q.bin, q.process, Ident(q)) =
        IF q.hist THEN AtPath(OwnPath(q), Ident(q)) ELSE Loaded(TRUE, FALSE, Ident(q))
  BY <1>5, <1>6, <1>7
<1> QED BY <1>8 DEF q

\* What is read of a column is its own histogram, if it is there.
LEMMA ReadColumn ==
  ASSUME cb \in Inputs, RootInv, OnePath(cb), NEW F, Expressible(Select(cb, F)),
         hist_mapping = Mappings(Select(cb, F)),
         NEW k \in DOMAIN Select(cb, F).procs, Select(cb, F).procs[k].mass \in {mass, "*"}
  PROVE  LET q == Select(cb, F).procs[k]
             l == LoadShapes(q.bin, q.process, Ident(q))
         IN  /\ l.ok <=> (q.hist => OwnPath(q) \in DOMAIN root)
             /\ l.ok => l.hist = q.hist /\ l.from = Ident(q)
<1> DEFINE q == Select(cb, F).procs[k]
           l == LoadShapes(q.bin, q.process, Ident(q))
<1>1. l = IF q.hist THEN AtPath(OwnPath(q), Ident(q)) ELSE Loaded(TRUE, FALSE, Ident(q))
  BY LoadedProcess
<1>2. q \in ToSet(cb.procs)
  <2>1. q \in ToSet(Select(cb, F).procs)
    BY DEF ToSet
  <2> QED BY <2>1, SelectParts
<1>3. q \in Process
  <2>1. cb.procs \in Seq(Process)
    BY InputsAssumption
  <2> QED BY <1>2, <2>1, SeqIsSeq
<1> HIDE DEF q
<1>4. CASE ~q.hist
  <2>1. q.hist = FALSE
    BY <1>3, <1>4 DEF Process
  <2>2. l = Loaded(TRUE, FALSE, Ident(q))
    BY <1>1, <1>4
  <2>3. l.ok = TRUE /\ l.hist = FALSE /\ l.from = Ident(q)
    BY <2>2 DEF Loaded
  <2> QED BY <1>4, <2>1, <2>3 DEF q
<1>5. CASE q.hist /\ OwnPath(q) \notin DOMAIN root
  <2>1. l = Loaded(FALSE, FALSE, Ident(q))
    BY <1>1, <1>5 DEF AtPath
  <2>2. l.ok = FALSE
    BY <2>1 DEF Loaded
  <2> QED BY <1>5, <2>2 DEF q
<1>6. CASE q.hist /\ OwnPath(q) \in DOMAIN root
  <2>1. OwnPath(q) \in PathsOf(cb, q, <<>>)
    BY <1>2, <1>6 DEF OwnPath, PathsOf, Own_, MatchingProcess
  <2>2. <<q, <<>>>> \in Hists(cb)
    BY <1>2, <1>6 DEF Hists
  <2>3. OwnPath(q) # <<>>
    <3>1. q.process \in Seq(STRING)
      BY <1>3 DEF Process
    <3>2. IsSeq(q.process) /\ IsSeq(IF Own_(q) THEN <<q.mass>> ELSE <<>>) /\ IsSeq(<<>>)
      BY <3>1, SeqIsSeq, ShortSeqs
    <3> QED BY <3>2, PathNotEmpty DEF OwnPath
  <2>4. root[OwnPath(q)] = Ident(q) \o <<>>
    BY <1>6, <2>1, <2>2, <2>3, OwnHist
  <2>5. root[OwnPath(q)] = Ident(q)
    BY <2>4, IdentAlone
  <2>6. l = Loaded(TRUE, TRUE, Ident(q))
    BY <1>1, <1>6, <2>5 DEF AtPath
  <2>7. q.hist = TRUE
    BY <1>3, <1>6 DEF Process
  <2>8. l.ok = TRUE /\ l.hist = TRUE /\ l.from = Ident(q)
    BY <2>6 DEF Loaded
  <2> QED BY <1>6, <2>7, <2>8 DEF q
<1> QED BY <1>4, <1>5, <1>6

LEMMA ReadData ==
  ASSUME cb \in Inputs, RootInv, OnePath(cb), NEW F, Expressible(Select(cb, F)),
         hist_mapping = Mappings(Select(cb, F)), NEW o \in ToSet(cb.obs)
  PROVE  LET l == LoadShapes(o.bin, <<"data_obs">>, Ident(DataObs(o)))
         IN  /\ l.ok <=> (o.hist => OwnPath(DataObs(o)) \in DOMAIN root)
             /\ l.ok => l.hist = o.hist /\ l.from = Ident(DataObs(o))
<1> DEFINE q == DataObs(o)
           l == LoadShapes(o.bin, <<"data_obs">>, Ident(q))
           M == ResolveMapping(hist_mapping, <<"data_obs">>, o.bin)
           m == Mapping(<<"*">>, o.bin, IF o.hist THEN "$PROCESS" ELSE "FAKE")
<1>1. M = {m}
  BY DataRule
<1>2. hist_mapping # {} /\ (CHOOSE x \in M : TRUE) = m
  BY <1>1, Resolved
<1>3. q.bin = o.bin /\ q.process = <<"data_obs">> /\ q.signal = FALSE /\ q.hist = o.hist
  BY DEF DataObs
<1>4. m.rule = IF o.hist THEN "$PROCESS" ELSE "FAKE"
  BY DEF Mapping
<1>5. o \in Observation
  BY InputsAssumption, SeqIsSeq
<1>6. q \in ToSet(Data(cb))
  BY DataPart DEF Data, ToSet
<1> HIDE DEF m, q
<1>7. l = IF m.rule = "FAKE" THEN Loaded(TRUE, FALSE, Ident(q))
          ELSE AtPath(Path(m, o.bin, <<"data_obs">>, mass, <<>>), Ident(q))
  BY <1>1, <1>2 DEF LoadShapes
<1>8. ~Own_(q)
  BY <1>3 DEF Own_
<1>9. o.hist => Path(m, o.bin, <<"data_obs">>, mass, <<>>) = OwnPath(q)
  BY <1>3, <1>4, <1>8 DEF Path, OwnPath
<1>10. l = IF o.hist THEN AtPath(OwnPath(q), Ident(q)) ELSE Loaded(TRUE, FALSE, Ident(q))
  BY <1>4, <1>7, <1>9
<1> HIDE DEF l, M
<1>11. CASE ~o.hist
  <2>1. o.hist = FALSE
    BY <1>5, <1>11 DEF Observation
  <2>2. l = Loaded(TRUE, FALSE, Ident(q))
    BY <1>10, <1>11
  <2>3. l.ok = TRUE /\ l.hist = FALSE /\ l.from = Ident(q)
    BY <2>2 DEF Loaded
  <2> QED BY <1>11, <2>1, <2>3 DEF q, l
<1>12. CASE o.hist /\ OwnPath(q) \notin DOMAIN root
  <2>1. l = Loaded(FALSE, FALSE, Ident(q))
    BY <1>10, <1>12 DEF AtPath
  <2>2. l.ok = FALSE
    BY <2>1 DEF Loaded
  <2> QED BY <1>12, <2>2 DEF q, l
<1>13. CASE o.hist /\ OwnPath(q) \in DOMAIN root
  <2>1. OwnPath(q) \in PathsOf(cb, q, <<>>)
    BY <1>3, <1>8 DEF OwnPath, PathsOf
  <2>2. <<q, <<>>>> \in Hists(cb)
    BY <1>3, <1>6, <1>13 DEF Hists
  <2>3. OwnPath(q) # <<>>
    <3>1. IsSeq(<<"data_obs">>) /\ IsSeq(<<>>)
      BY ShortSeqs
    <3>2. OwnPath(q) = <<q.bin>> \o <<"data_obs">> \o <<>> \o <<>>
      BY <1>3, <1>8 DEF OwnPath
    <3> QED BY <3>1, <3>2, PathNotEmpty
  <2>4. root[OwnPath(q)] = Ident(q) \o <<>>
    BY <1>13, <2>1, <2>2, <2>3, OwnHist
  <2>5. root[OwnPath(q)] = Ident(q)
    BY <2>4, IdentAlone
  <2>6. l = Loaded(TRUE, TRUE, Ident(q))
    BY <1>10, <1>13, <2>5 DEF AtPath
  <2>7. o.hist = TRUE
    BY <1>5, <1>13 DEF Observation
  <2>8. l.ok = TRUE /\ l.hist = TRUE /\ l.from = Ident(q)
    BY <2>6 DEF Loaded
  <2> QED BY <1>13, <2>7, <2>8 DEF q, l
<1> QED BY <1>11, <1>12, <1>13

-----------------------------------------------------------------------------
(* Columns: while a card is parsed, what was read of it so far.             *)
ProcsBack ==
  [k \in DOMAIN Source.procs |->
     LET q == Source.procs[k]
     IN  [bin |-> q.bin, process |-> q.process, signal |-> q.signal, mass |-> mass,
          hist |-> q.hist, from |-> Ident(q)]]
ObsBack ==
  [k \in DOMAIN Source.obs |->
     LET o == Source.obs[k]
     IN  [bin |-> o.bin, hist |-> o.hist, from |-> Ident(DataObs(o))]]

ProcsRead == pc = "parsed" \/ i > RatePos(Source)
ObsRead == pc = "parsed" \/ i > 2 \/ Source.obs = <<>>
ColumnsInv ==
  pc \in {"parse", "parsed"} =>
    /\ key \in parsed /\ key \in complete /\ hist_mapping = Mappings(Source)
    /\ IsSeq(base.obs) /\ IsSeq(base.procs)
    /\ \A q \in ToSet(Source.procs) : q.mass \in {mass, "*"}
    /\ Faithful => /\ read.procs = IF ProcsRead THEN base.procs \o ProcsBack ELSE base.procs
                   /\ read.obs = IF ObsRead THEN base.obs \o ObsBack ELSE base.obs

LEMMA BackAreSeqs ==
  ASSUME cb \in Inputs
  PROVE  IsSeq(ProcsBack) /\ IsSeq(ObsBack)
<1>1. IsSeq(Source.procs) /\ IsSeq(Source.obs)
  BY SelectParts DEF Source
<1>2. /\ Len(Source.procs) \in Nat /\ DOMAIN Source.procs = 1..Len(Source.procs)
      /\ Len(Source.obs) \in Nat /\ DOMAIN Source.obs = 1..Len(Source.obs)
  BY <1>1, SeqDomain
<1>3. ProcsBack = [k \in 1..Len(Source.procs) |-> ProcsBack[k]]
  BY <1>2 DEF ProcsBack
<1>4. ObsBack = [k \in 1..Len(Source.obs) |-> ObsBack[k]]
  BY <1>2 DEF ObsBack
<1> QED BY <1>2, <1>3, <1>4, FunIsSeq

\* The data of a card, when its line has been read and nothing was thrown.
LEMMA DataReadBack ==
  ASSUME TypesInv, CardsInv, ReadInv, RootInv, ColumnsInv, Faithful,
         ReadObservations, pc' = "parse"
  PROVE  /\ read'.obs = read.obs \o ObsBack /\ read'.procs = read.procs
         /\ i = 2 /\ i' = 3 /\ Source.obs # <<>>
<1> DEFINE t == text[key]
           C == Select(cb, key)
           b == Line.bins
           loaded == [k \in DOMAIN b |-> LoadShapes(b[k], <<"data_obs">>, <<b[k], <<"data_obs">>, "*">>)]
           n == Good(Len(b), loaded)
           u == [k \in 1..n |-> [bin |-> b[k], hist |-> loaded[k].hist, from |-> loaded[k].from]]
<1>1. /\ pc = "parse" /\ i <= Len(t) /\ t[i].kind = "observation"
      /\ read' = [read EXCEPT !.obs = @ \o u] /\ n = Len(b) /\ i' = i + 1
  BY DEF ReadObservations, Reading, Skip, Fail, Line
<1>2. Card(t, C) /\ IsSeq(C.obs) /\ i \in 1..Len(t)
  BY <1>1, ParsedCard DEF ReadInv
<1>3. i = 2 /\ C.obs # <<>> /\ t[i] = ObservationLine(C)
  <2> HIDE DEF t, C
  <2> QED BY <1>1, <1>2, LinePlace
<1>4. Len(C.obs) \in Nat /\ DOMAIN C.obs = 1..Len(C.obs)
  BY <1>2, SeqDomain
<1>5. b = [k \in DOMAIN C.obs |-> C.obs[k].bin]
  BY <1>3 DEF Line, ObservationLine
<1>6. b = [k \in 1..Len(C.obs) |-> b[k]]
  BY <1>4, <1>5
<1>7. Len(b) = Len(C.obs)
  <2> HIDE DEF b
  <2> QED BY <1>4, <1>6, FunIsSeq
<1>8. cb \in Inputs /\ OnePath(cb) /\ Expressible(C) /\ hist_mapping = Mappings(C)
  BY <1>1 DEF TypesInv, ColumnsInv, Faithful, Source
<1>9. \A k \in 1..n : loaded[k].ok
  <2> HIDE DEF loaded, b
  <2> QED BY <1>1, <1>4, <1>7, GoodPart
<1>10. ASSUME NEW k \in DOMAIN C.obs
       PROVE  /\ b[k] = C.obs[k].bin /\ loaded[k].hist = C.obs[k].hist
              /\ loaded[k].from = Ident(DataObs(C.obs[k]))
  <2> DEFINE o == C.obs[k]
             l == LoadShapes(o.bin, <<"data_obs">>, Ident(DataObs(o)))
  <2>1. o \in ToSet(cb.obs)
    <3>1. o \in ToSet(C.obs)
      BY DEF ToSet
    <3> QED BY <1>8, <3>1, SelectParts
  <2>2. b[k] = o.bin /\ k \in DOMAIN b /\ k \in 1..n
    BY <1>1, <1>4, <1>5, <1>7
  <2>3. Ident(DataObs(o)) = <<b[k], <<"data_obs">>, "*">>
    BY <2>2 DEF Ident, DataObs
  <2>4. loaded[k] = l
    BY <2>2, <2>3
  <2>5. l.ok
    BY <1>9, <2>2, <2>4
  <2> HIDE DEF o
  <2>6. l.hist = o.hist /\ l.from = Ident(DataObs(o))
    BY <1>8, <2>1, <2>5, ReadData
  <2> QED BY <2>2, <2>4, <2>6 DEF o
<1> HIDE DEF loaded, b
<1>11. u = [k \in DOMAIN C.obs |-> [bin |-> C.obs[k].bin, hist |-> C.obs[k].hist,
                                    from |-> Ident(DataObs(C.obs[k]))]]
  BY <1>1, <1>4, <1>7, <1>10
<1>12. u = ObsBack
  BY <1>11 DEF ObsBack, Source
<1>13. read'.obs = read.obs \o u /\ read'.procs = read.procs
  <2> HIDE DEF u
  <2> QED BY <1>1 DEF ReadInv, Fields
<1>14. Source.obs # <<>>
  BY <1>3 DEF Source
<1> HIDE DEF u, t
<1> QED BY <1>1, <1>3, <1>12, <1>13, <1>14

\* The processes of a card, when the rate line has been read.
LEMMA RatesReadBack ==
  ASSUME TypesInv, CardsInv, ReadInv, RootInv, ColumnsInv, Faithful,
         ReadRates, pc' = "parse"
  PROVE  /\ read'.procs = read.procs \o ProcsBack /\ read'.obs = read.obs
         /\ i = RatePos(Source) /\ i' = i + 1
<1> DEFINE t == text[key]
           C == Select(cb, key)
           c == Line.columns
           loaded == [k \in DOMAIN c |-> LoadShapes(c[k].bin, c[k].process, c[k].from)]
           n == Good(Len(c), loaded)
           u == [k \in 1..n |-> [bin |-> c[k].bin, process |-> c[k].process, signal |-> c[k].id <= 0,
                                 mass |-> mass, hist |-> loaded[k].hist, from |-> loaded[k].from]]
<1>1. /\ pc = "parse" /\ i <= Len(t) /\ t[i].kind = "rate"
      /\ read' = [read EXCEPT !.procs = @ \o u] /\ n = Len(c) /\ i' = i + 1
  BY DEF ReadRates, Reading, Skip, Fail, Line
<1>2. Card(t, C) /\ IsSeq(C.procs) /\ i \in 1..Len(t)
  BY <1>1, ParsedCard DEF ReadInv
<1>3. i = RatePos(C)
  <2> HIDE DEF t, C
  <2> QED BY <1>1, <1>2, LinePlace
<1>4. IsSeq(c) /\ DOMAIN c = DOMAIN C.procs
      /\ \A k \in DOMAIN C.procs :
           /\ c[k].bin = C.procs[k].bin /\ c[k].process = C.procs[k].process
           /\ c[k].from = Ident(C.procs[k]) /\ ((c[k].id <= 0) <=> C.procs[k].signal)
  BY <1>2, <1>3 DEF Line, Card, RateFits
<1>5. cb \in Inputs /\ OnePath(cb) /\ Expressible(C) /\ hist_mapping = Mappings(C)
      /\ \A q \in ToSet(C.procs) : q.mass \in {mass, "*"}
  BY <1>1 DEF TypesInv, ColumnsInv, Faithful, Source
<1> HIDE DEF c
<1>6. Len(c) \in Nat /\ DOMAIN c = 1..Len(c)
  BY <1>4, SeqDomain
<1>7. \A k \in 1..n : loaded[k].ok
  <2> HIDE DEF loaded
  <2> QED BY <1>1, <1>6, GoodPart
<1>8. ASSUME NEW k \in DOMAIN C.procs
      PROVE  u[k] = [bin |-> C.procs[k].bin, process |-> C.procs[k].process,
                     signal |-> C.procs[k].signal, mass |-> mass,
                     hist |-> C.procs[k].hist, from |-> Ident(C.procs[k])]
  <2> DEFINE q == C.procs[k]
             l == LoadShapes(q.bin, q.process, Ident(q))
  <2>1. q \in ToSet(C.procs)
    BY DEF ToSet
  <2>2. q \in Process
    <3>1. q \in ToSet(cb.procs)
      BY <1>5, <2>1, SelectParts
    <3>2. cb.procs \in Seq(Process)
      BY <1>5, InputsAssumption
    <3> QED BY <3>1, <3>2, SeqIsSeq
  <2>3. k \in 1..n /\ k \in DOMAIN c
    BY <1>1, <1>4, <1>6
  <2>4. loaded[k] = l
    BY <1>4, <2>3
  <2>5. l.ok
    BY <1>7, <2>3, <2>4
  <2>6. l.hist = q.hist /\ l.from = Ident(q)
    <3>1. q.mass \in {mass, "*"}
      BY <1>5, <2>1
    <3> QED BY <1>5, <2>5, <3>1, ReadColumn
  <2>7. (c[k].id <= 0) = q.signal
    <3>1. q.signal \in BOOLEAN
      BY <2>2 DEF Process
    <3>2. (c[k].id <= 0) <=> q.signal
      BY <1>4
    <3> QED BY <3>1, <3>2
  <2>8. u[k] = [bin |-> c[k].bin, process |-> c[k].process, signal |-> c[k].id <= 0,
                mass |-> mass, hist |-> loaded[k].hist, from |-> loaded[k].from]
    BY <2>3
  <2>9. c[k].bin = q.bin /\ c[k].process = q.process
    BY <1>4
  <2> HIDE DEF loaded, l, u
  <2> QED BY <2>4, <2>6, <2>7, <2>8, <2>9
<1>9. u = [k \in DOMAIN C.procs |-> u[k]]
  <2> HIDE DEF n, loaded
  <2> QED BY <1>1, <1>4, <1>6
<1> HIDE DEF u
<1>10. u = [k \in DOMAIN C.procs |->
              [bin |-> C.procs[k].bin, process |-> C.procs[k].process,
               signal |-> C.procs[k].signal, mass |-> mass,
               hist |-> C.procs[k].hist, from |-> Ident(C.procs[k])]]
  BY <1>8, <1>9
<1>11. u = ProcsBack
  BY <1>10 DEF ProcsBack, Source
<1>12. read'.procs = read.procs \o u /\ read'.obs = read.obs
  BY <1>1 DEF ReadInv, Fields
<1>13. i = RatePos(Source)
  BY <1>3 DEF Source
<1> QED BY <1>1, <1>11, <1>12, <1>13

\* A step of ParseDatacard to the line of number j, or to the end.
LEMMA ColumnsOn ==
  ASSUME ColumnsInv, pc = "parse", pc' \in {"parse", "parsed"},
         UNCHANGED <<cb, key, complete, parsed, mass, hist_mapping, base>>,
         Faithful =>
           /\ read'.procs = IF ProcsRead' THEN base.procs \o ProcsBack ELSE base.procs
           /\ read'.obs = IF ObsRead' THEN base.obs \o ObsBack ELSE base.obs
  PROVE  ColumnsInv'
<1>1. Source' = Source
  BY DEF Source
<1>2. ProcsBack' = ProcsBack /\ ObsBack' = ObsBack
  BY <1>1 DEF ProcsBack, ObsBack
<1>3. Faithful' = Faithful
  BY DEF Faithful
<1> QED BY <1>1, <1>2, <1>3 DEF ColumnsInv

LEMMA NextColumns ==
  ASSUME TypesInv, CardsInv, ReadInv, RootInv, ColumnsInv, [Next]_vars
  PROVE  ColumnsInv'
<1>1. CASE \/ \E F \in Filters, open \in BOOLEAN : WriteDatacard(F, open)
           \/ FillHistMappings \/ WriteObservations \/ WriteProcesses
           \/ NumberBackground \/ NumberSignal \/ WriteRates
           \/ (\E n \in todo : WriteNuisance(n)) \/ WriteTail \/ Return
  <2>1. pc' \notin {"parse", "parsed"}
    BY <1>1 DEF WriteDatacard, FillHistMappings, WriteObservations, WriteProcesses,
         NumberBackground, NumberSignal, WriteRates, WriteNuisance, WriteTail, Return, Throw
  <2> QED BY <2>1 DEF ColumnsInv
<1>2. CASE \E F \in complete, m \in Masses : ParseDatacard(F, m)
  <2>1. PICK F \in complete, m \in Masses : ParseDatacard(F, m)
    BY <1>2
  <2>2. /\ cb' = cb /\ complete' = complete /\ key' = F /\ mass' = m /\ i' = 1 /\ pc' = "parse"
        /\ hist_mapping' = text[F][1].mappings /\ base' = read /\ read' = read
        /\ parsed' = parsed \cup {F}
        /\ \A q \in ToSet(Select(cb, F).procs) : q.mass \in {m, "*"}
    BY <2>1 DEF ParseDatacard, disk
  <2>3. Source' = Select(cb, F)
    BY <2>2 DEF Source
  <2>4. text[F][1].mappings = Mappings(Select(cb, F))
    <3>1. text[F][1] = ShapesLine(Select(cb, F))
      BY DEF CardsInv, Card, Heads
    <3> QED BY <3>1 DEF ShapesLine
  <2>5. ~ProcsRead'
    BY <2>2 DEF ProcsRead, RatePos
  <2>6. ObsRead' => read.obs \o ObsBack' = read.obs
    <3> SUFFICES ASSUME ObsRead' PROVE read.obs \o ObsBack' = read.obs
      OBVIOUS
    <3>1. Source'.obs = <<>>
      BY <2>2 DEF ObsRead
    <3>2. ObsBack' = <<>>
      BY <3>1 DEF ObsBack
    <3>3. read.obs \o <<>> = read.obs
      BY NothingAdded DEF ReadInv
    <3> QED BY <3>2, <3>3
  <2> QED BY <2>2, <2>3, <2>4, <2>5, <2>6 DEF ColumnsInv, ReadInv
<1>3. CASE ReadShapes \/ ReadObservations \/ ReadRates \/ Ignored \/ ReadParam
           \/ ReadNuisance \/ ReadRateParam \/ ReadFreeze \/ ReadAutoMCStats \/ ReadGroup
  <2>1. /\ pc = "parse" /\ pc' \in {"parse", "client"} /\ (pc' = "parse" => i' = i + 1)
        /\ UNCHANGED <<cb, key, complete, parsed, mass, hist_mapping, base>>
        /\ i <= Len(text[key])
    BY <1>3 DEF ReadShapes, ReadObservations, ReadRates, Ignored, ReadParam,
         ReadNuisance, ReadRateParam, ReadFreeze, ReadAutoMCStats, ReadGroup,
         Scanning, Reading, Skip, Fail, Rest, writer, disk
  <2>2. CASE pc' = "client"
    BY <2>2 DEF ColumnsInv
  <2>3. CASE pc' = "parse"
    <3> DEFINE t == text[key]
               k == t[i].kind
    <3>1. Card(t, Source) /\ i \in 1..Len(t) /\ Source' = Source
      BY <2>1, ParsedCard DEF ReadInv, Source
    <3>2. RatePos(Source) = IF Source.obs = <<>> THEN 2 ELSE 3
      BY DEF RatePos
    <3>3. /\ ProcsRead <=> i > RatePos(Source)
          /\ ProcsRead' <=> i + 1 > RatePos(Source)
          /\ ObsRead <=> i > 2 \/ Source.obs = <<>>
          /\ ObsRead' <=> i + 1 > 2 \/ Source.obs = <<>>
      BY <2>1, <2>3, <3>1 DEF ProcsRead, ObsRead
    <3>4. /\ k = "shapes" => i = 1
          /\ k = "observation" => i = 2
          /\ k = "rate" <=> i = RatePos(Source)
          /\ k \in TailKinds <=> i > RatePos(Source)
          /\ k \in TailKinds \cup {"shapes", "observation", "rate"}
      <4>1. \A j \in 1..Len(t) :
              /\ t[j].kind = "shapes" => j = 1
              /\ t[j].kind = "observation" => j = 2
              /\ t[j].kind = "rate" <=> j = RatePos(Source)
              /\ t[j].kind \in TailKinds <=> j > RatePos(Source)
              /\ t[j].kind \in TailKinds \cup {"shapes", "observation", "rate"}
        BY <3>1, LinePlace
      <4> QED BY <3>1, <4>1
    <3>5. Faithful =>
            /\ read.procs = IF ProcsRead THEN base.procs \o ProcsBack ELSE base.procs
            /\ read.obs = IF ObsRead THEN base.obs \o ObsBack ELSE base.obs
      BY <2>1 DEF ColumnsInv
    <3>6. i \in Nat
      BY <2>1 DEF ReadInv
    <3>7. SUFFICES ASSUME Faithful
          PROVE  /\ read'.procs = IF ProcsRead' THEN base.procs \o ProcsBack ELSE base.procs
                 /\ read'.obs = IF ObsRead' THEN base.obs \o ObsBack ELSE base.obs
      BY <2>1, <2>3, ColumnsOn
    <3>8. CASE ReadObservations
      <4>1. /\ read'.obs = read.obs \o ObsBack /\ read'.procs = read.procs
            /\ i = 2 /\ Source.obs # <<>>
        BY <2>3, <3>7, <3>8, DataReadBack
      <4>2. ~ProcsRead /\ ~ProcsRead' /\ ~ObsRead /\ ObsRead'
        BY <3>2, <3>3, <4>1
      <4> QED BY <3>5, <3>7, <4>1, <4>2
    <3>9. CASE ReadRates
      <4>1. /\ read'.procs = read.procs \o ProcsBack /\ read'.obs = read.obs
            /\ i = RatePos(Source)
        BY <2>3, <3>7, <3>9, RatesReadBack
      <4>2. ~ProcsRead /\ ProcsRead' /\ ObsRead /\ ObsRead'
        BY <3>2, <3>3, <4>1
      <4> QED BY <3>5, <3>7, <4>1, <4>2
    <3>10. CASE ReadShapes
      <4>1. read' = read /\ k = "shapes"
        BY <3>10 DEF ReadShapes, Reading, Line
      <4> QED BY <3>2, <3>3, <3>4, <3>5, <3>7, <4>1
    <3>11. CASE \/ Ignored \/ ReadParam \/ ReadNuisance \/ ReadRateParam
                \/ ReadFreeze \/ ReadAutoMCStats \/ ReadGroup
      <4>1. k \notin {"shapes", "observation", "rate"}
        BY <3>11 DEF Ignored, ReadParam, ReadNuisance, ReadRateParam, ReadFreeze,
             ReadAutoMCStats, ReadGroup, Scanning, Reading, Line
      <4>2. i > RatePos(Source)
        BY <3>4, <4>1
      <4>3. read'.procs = read.procs /\ read'.obs = read.obs
        <5>1. CASE Ignored \/ ReadFreeze \/ ReadGroup
          BY <5>1 DEF Ignored, ReadFreeze, ReadGroup
        <5>2. CASE ReadParam \/ ReadNuisance \/ ReadRateParam
          BY <5>2, ReadSysts
        <5>3. CASE ReadAutoMCStats
          BY <5>3 DEF ReadAutoMCStats, ReadInv, Fields
        <5> QED BY <3>11, <5>1, <5>2, <5>3
      <4> QED BY <3>2, <3>3, <3>5, <3>6, <3>7, <4>2, <4>3
    <3> QED BY <1>3, <3>8, <3>9, <3>10, <3>11
  <2> QED BY <2>1, <2>2, <2>3
<1>4. CASE EndParse
  <2>1. /\ pc = "parse" /\ pc' = "parsed" /\ i > Len(text[key])
        /\ read' = [read EXCEPT !.params = GroupsSet(@)]
        /\ UNCHANGED <<cb, key, complete, parsed, mass, hist_mapping, base>>
    BY <1>4 DEF EndParse, disk, writer, reader
  <2>2. read'.procs = read.procs /\ read'.obs = read.obs
    BY <2>1 DEF ReadInv, Fields
  <2>3. Card(text[key], Source) /\ Len(text[key]) \in Nat /\ i \in Nat
    BY <2>1, ParsedCard DEF Source, ReadInv
  <2>4. ProcsRead /\ ObsRead /\ ProcsRead' /\ ObsRead'
    BY <2>1, <2>3 DEF ProcsRead, ObsRead, Card, RatePos
  <2> QED BY <2>1, <2>2, <2>4, ColumnsOn DEF ColumnsInv
<1>5. CASE UNCHANGED vars
  <2>1. /\ UNCHANGED <<cb, key, complete, parsed, mass, hist_mapping, base, pc, i, read>>
    BY <1>5 DEF vars, disk, writer, reader
  <2>2. Source' = Source
    BY <2>1 DEF Source
  <2>3. /\ ProcsBack' = ProcsBack /\ ObsBack' = ObsBack /\ Faithful' = Faithful
        /\ ProcsRead' = ProcsRead /\ ObsRead' = ObsRead
    BY <2>1, <2>2 DEF ProcsBack, ObsBack, Faithful, ProcsRead, ObsRead
  <2> QED BY <2>1, <2>2, <2>3 DEF ColumnsInv
<1> QED BY <1>1, <1>2, <1>3, <1>4, <1>5 DEF Next

LEMMA InitRoot == Init => RootInv /\ ColumnsInv
<1> SUFFICES ASSUME Init PROVE RootInv /\ ColumnsInv
  OBVIOUS
<1>1. root = <<>> /\ pc = "client"
  BY DEF Init
<1>2. DOMAIN root = {}
  BY <1>1
<1> QED BY <1>1, <1>2 DEF RootInv, ColumnsInv

BackInv == ReadingInv /\ RootInv /\ ColumnsInv

LEMMA BackHolds == Spec => []BackInv
<1>1. Init => BackInv
  BY InitIds, InitTypes, InitCards, InitRead, InitRoot DEF BackInv, ReadingInv
<1>2. BackInv /\ [Next]_vars => BackInv'
  BY NextIds, NextTypes, NextCards, NextRead, NextRoot, NextColumns DEF BackInv, ReadingInv
<1> QED BY <1>1, <1>2, PTL DEF Spec

\* The processes and the data of a card read back are those of the instance,
\* for every instance whose histograms have paths of their own and every card
\* that can express what was written, whichever cards were written into the
\* same root file (WriteDatacard, ResolveMapping, LoadShapes, ParseDatacard).
THEOREM ProcessesAreReadBack == Spec => []ProcessesReadBack
<1>1. BackInv => ProcessesReadBack
  <2> SUFFICES ASSUME BackInv, pc = "parsed", Faithful
               PROVE  New("procs") = ProcsBack /\ New("obs") = ObsBack
    BY DEF ProcessesReadBack, ReadBack, ProcsBack, ObsBack
  <2>1. /\ read.procs = base.procs \o ProcsBack /\ read.obs = base.obs \o ObsBack
        /\ IsSeq(base.procs) /\ IsSeq(base.obs)
    BY DEF BackInv, ColumnsInv, ProcsRead, ObsRead
  <2>2. IsSeq(ProcsBack) /\ IsSeq(ObsBack)
    BY BackAreSeqs DEF BackInv, ReadingInv, TypesInv
  <2>3. /\ SubSeq(base.procs \o ProcsBack, Len(base.procs) + 1, Len(base.procs \o ProcsBack)) = ProcsBack
        /\ SubSeq(base.obs \o ObsBack, Len(base.obs) + 1, Len(base.obs \o ObsBack)) = ObsBack
    BY <2>1, <2>2, AddedPart, Zenon
  <2> QED BY <2>1, <2>3 DEF New
<1> QED BY <1>1, BackHolds, PTL

-----------------------------------------------------------------------------
(* Histograms of the cards: those that WriteDatacard is done with are in    *)
(* the root file, at every path that they have.                             *)
DataStored(D, C) ==
  \A z \in ToSet(Data(C)) : z.hist => Paths(C, z, <<>>) \subseteq D
ColumnsStored(D, C) ==
  \A q \in ToSet(C.procs) : q.hist => Paths(C, q, <<>>) \subseteq D
NuisanceStored(D, C, n) ==
  \A k \in DOMAIN C.procs :
    (/\ C.procs[k].hist /\ Seen(C, n, k) # {}
     /\ LastSeen(C, n, k).type \in ShapeTypes /\ LastSeen(C, n, k).hist)
      => Paths(C, LastSeen(C, n, k), Suffix(n)) \subseteq D
Lined(C) == sys_set(C) \ param_set(C)
CardStored(D, C) ==
  DataStored(D, C) /\ ColumnsStored(D, C) /\ \A n \in Lined(C) : NuisanceStored(D, C, n)
NoHists(C) == \A q \in ToSet(C.procs) \cup ToSet(C.obs) : ~q.hist

BeforeNuisances == {"mappings", "observations", "processes", "background", "signal"}
HistsInv ==
  /\ pc \in Writing => is_open \/ NoHists(cmb)
  /\ pc \in BeforeNuisances => todo = sys_set(cmb)
  /\ pc \in {"processes", "background", "signal", "nuisances"} => DataStored(DOMAIN root, cmb)
  /\ pc \in {"background", "signal", "nuisances"} => ColumnsStored(DOMAIN root, cmb)
  /\ pc = "nuisances" => \A n \in Lined(cmb) \ todo : NuisanceStored(DOMAIN root, cmb, n)
  /\ \A F \in complete : CardStored(DOMAIN root, Select(cb, F))

LEMMA InitHists == Init => HistsInv
  BY DEF Init, HistsInv, Writing, BeforeNuisances

\* Nothing is taken out of the root file.
LEMMA RootGrows ==
  ASSUME TypesInv, [Next]_vars
  PROVE  DOMAIN root \subseteq DOMAIN root' /\ cb' = cb
<1>1. cb' = cb
  BY DEF Next, vars, WriteDatacard, FillHistMappings, WriteObservations, WriteProcesses,
     NumberBackground, NumberSignal, WriteRates, WriteNuisance, WriteTail, ParseDatacard,
     ReadShapes, ReadObservations, ReadRates, Ignored, ReadParam, ReadNuisance,
     ReadRateParam, ReadFreeze, ReadAutoMCStats, ReadGroup, EndParse, Return, Rest
<1>2. \/ root' = root
      \/ \E objects, suffix : DOMAIN objects \subseteq Nat /\ Put(objects, suffix)
  <2>1. CASE WriteObservations \/ WriteProcesses
    <3>1. \E s : IsSeq(s) /\ Put(WithHist(s), <<>>)
      <4>1. pc \in Writing /\ \E s \in {Data(cmb), cmb.procs} : Put(WithHist(s), <<>>)
        BY <2>1 DEF WriteObservations, WriteProcesses, Writing
      <4>2. cb \in Inputs /\ cmb = Select(cb, key)
        BY <4>1 DEF TypesInv
      <4>3. IsSeq(Data(cmb)) /\ IsSeq(cmb.procs)
        BY <4>2, SelectParts, DataPart
      <4> QED BY <4>1, <4>3
    <3> QED BY <3>1, HistObjects
  <2>2. CASE \E n \in todo : WriteNuisance(n)
    <3>1. PICK n \in todo : WriteNuisance(n)
      BY <2>2
    <3>2. root' = root \/ \E K : K \subseteq Nat /\ Put(NuisanceShapes(cmb, n, K), Suffix(n))
      <4>1. IsSeq(cmb.procs)
        <5>1. pc = "nuisances"
          BY <3>1 DEF WriteNuisance
        <5> QED BY <5>1, SelectParts DEF TypesInv, Writing
      <4>2. DOMAIN cmb.procs \subseteq Nat
        BY <4>1, SeqDomain
      <4> DEFINE stop == ~allow_missing /\ Missing(cmb, n) # {}
                 K == IF stop THEN 1..(Min(Missing(cmb, n)) - 1) ELSE DOMAIN cmb.procs
      <4>3. K \subseteq Nat
        BY <4>2
      <4>4. root' = root \/ Put(NuisanceShapes(cmb, n, K), Suffix(n))
        BY <3>1 DEF WriteNuisance
      <4> QED BY <4>3, <4>4
    <3>3. \A K : K \subseteq Nat => DOMAIN NuisanceShapes(cmb, n, K) \subseteq Nat
      BY DEF NuisanceShapes
    <3> QED BY <3>2, <3>3
  <2>3. CASE ~(WriteObservations \/ WriteProcesses \/ \E n \in todo : WriteNuisance(n))
    BY <2>3 DEF Next, vars, disk, WriteDatacard, FillHistMappings,
       NumberBackground, NumberSignal, WriteRates, WriteTail, ParseDatacard,
       ReadShapes, ReadObservations, ReadRates, Ignored, ReadParam, ReadNuisance,
       ReadRateParam, ReadFreeze, ReadAutoMCStats, ReadGroup, EndParse, Return, Rest
  <2> QED BY <2>1, <2>2, <2>3
<1> QED BY <1>1, <1>2, Putting

\* What has been stored stays.
LEMMA StaysStored ==
  ASSUME NEW D, NEW E, D \subseteq E, NEW C
  PROVE  /\ DataStored(D, C) => DataStored(E, C)
         /\ ColumnsStored(D, C) => ColumnsStored(E, C)
         /\ \A n : NuisanceStored(D, C, n) => NuisanceStored(E, C, n)
         /\ CardStored(D, C) => CardStored(E, C)
<1>1. /\ DataStored(D, C) => DataStored(E, C)
      /\ ColumnsStored(D, C) => ColumnsStored(E, C)
      /\ \A n : NuisanceStored(D, C, n) => NuisanceStored(E, C, n)
  BY DEF DataStored, ColumnsStored, NuisanceStored
<1> QED BY <1>1 DEF CardStored

\* What a call stores when its root file is open, or nothing has a shape.
LEMMA PutStores ==
  ASSUME is_open \/ NoHists(cmb), NEW s, IsSeq(s), Put(WithHist(s), <<>>),
         NoHists(cmb) => \A z \in ToSet(s) : ~z.hist
  PROVE  \A z \in ToSet(s) : z.hist => Paths(cmb, z, <<>>) \subseteq DOMAIN root'
<1> SUFFICES ASSUME NEW z \in ToSet(s), z.hist PROVE Paths(cmb, z, <<>>) \subseteq DOMAIN root'
  OBVIOUS
<1>1. PICK k \in DOMAIN s : z = s[k]
  BY DEF ToSet
<1>2. k \in DOMAIN WithHist(s) /\ WithHist(s)[k] = z /\ DOMAIN WithHist(s) \subseteq Nat
  BY <1>1, HistObjects
<1>3. is_open
  OBVIOUS
<1> DEFINE objects == WithHist(s)
<1> HIDE DEF objects
<1>4. \A j \in DOMAIN objects : Paths(cmb, objects[j], <<>>) \subseteq DOMAIN root'
  BY <1>2, <1>3, Putting DEF objects
<1> QED BY <1>2, <1>4 DEF objects

LEMMA NuisanceStores ==
  ASSUME TypesInv, HistsInv, NEW n \in todo, WriteNuisance(n), pc' = "nuisances",
         n \notin param_set(cmb)
  PROVE  NuisanceStored(DOMAIN root', cmb, n)
<1>1. pc = "nuisances"
  BY DEF WriteNuisance
<1>2. IsSeq(cmb.procs) /\ DOMAIN cmb.procs = 1..Len(cmb.procs)
  <2>1. IsSeq(cmb.procs)
    BY <1>1, SelectParts DEF TypesInv, Writing
  <2> QED BY <2>1, SeqDomain
<1> DEFINE objects == NuisanceShapes(cmb, n, DOMAIN cmb.procs)
<1>3. Put(objects, Suffix(n))
  BY DEF WriteNuisance, Throw
<1>4. /\ DOMAIN objects = {k \in DOMAIN cmb.procs : /\ Seen(cmb, n, k) # {}
                                                   /\ LastSeen(cmb, n, k).type \in ShapeTypes
                                                   /\ LastSeen(cmb, n, k).hist}
      /\ \A k \in DOMAIN objects : objects[k] = LastSeen(cmb, n, k)
  BY DEF NuisanceShapes
<1> HIDE DEF objects
<1>5. DOMAIN objects \subseteq Nat
  BY <1>2, <1>4
<1>6. is_open => \A k \in DOMAIN objects : Paths(cmb, objects[k], Suffix(n)) \subseteq DOMAIN root'
  BY <1>3, <1>5, Putting
<1>7. is_open \/ \A k \in DOMAIN cmb.procs : ~cmb.procs[k].hist
  BY <1>1 DEF HistsInv, Writing, NoHists, ToSet
<1> QED BY <1>4, <1>6, <1>7 DEF NuisanceStored

LEMMA NextHists ==
  ASSUME TypesInv, HistsInv, [Next]_vars
  PROVE  HistsInv'
<1>1. DOMAIN root \subseteq DOMAIN root' /\ cb' = cb
  BY RootGrows
<1>2. \A F \in complete : CardStored(DOMAIN root', Select(cb', F))
  BY <1>1, StaysStored DEF HistsInv
<1>3. /\ DataStored(DOMAIN root, cmb) => DataStored(DOMAIN root', cmb)
      /\ ColumnsStored(DOMAIN root, cmb) => ColumnsStored(DOMAIN root', cmb)
      /\ \A n : NuisanceStored(DOMAIN root, cmb, n) => NuisanceStored(DOMAIN root', cmb, n)
  BY <1>1, StaysStored
<1> USE DEF Writing, BeforeNuisances
<1>4. CASE \E F \in Filters, open \in BOOLEAN : WriteDatacard(F, open)
  <2>1. PICK F \in Filters, open \in BOOLEAN : WriteDatacard(F, open)
    BY <1>4
  <2>2. /\ cmb' = Select(cb, F) /\ is_open' = open /\ pc' = "mappings" /\ complete' = complete
        /\ todo' = sys_set(Select(cb, F))
        /\ open \/ \A q \in ToSet(Select(cb, F).procs) \cup ToSet(Select(cb, F).obs) : ~q.hist
    BY <2>1 DEF WriteDatacard
  <2>3. is_open' \/ NoHists(cmb')
    BY <2>2 DEF NoHists
  <2>4. todo' = sys_set(cmb')
    BY <2>2
  <2> QED BY <1>2, <2>2, <2>3, <2>4 DEF HistsInv
<1>5. CASE FillHistMappings
  <2>1. /\ pc = "mappings" /\ pc' \in {"client", "observations"} /\ cmb' = cmb /\ is_open' = is_open
        /\ complete' = complete /\ todo' = todo
    BY <1>5 DEF FillHistMappings, Throw, writer
  <2> QED BY <1>2, <2>1 DEF HistsInv
<1>6. CASE WriteObservations
  <2>1. /\ pc = "observations" /\ pc' = "processes" /\ cmb' = cmb /\ is_open' = is_open
        /\ complete' = complete /\ todo' = todo /\ Put(WithHist(Data(cmb)), <<>>)
    BY <1>6 DEF WriteObservations, writer
  <2>2. IsSeq(Data(cmb)) /\ IsSeq(cmb.obs)
        /\ \A z \in ToSet(Data(cmb)) : \E o \in ToSet(cmb.obs) : z.hist = o.hist
    <3>1. cb \in Inputs /\ cmb = Select(cb, key)
      BY <2>1 DEF TypesInv
    <3>2. /\ IsSeq(Data(cmb)) /\ IsSeq(cmb.obs) /\ cmb.obs = cb.obs
          /\ \A z \in ToSet(Data(cmb)) : \E o \in ToSet(cb.obs) : z = DataObs(o)
      BY <3>1, DataPart, SelectParts
    <3> QED BY <3>2 DEF DataObs
  <2>3. NoHists(cmb) => \A z \in ToSet(Data(cmb)) : ~z.hist
    BY <2>2 DEF NoHists
  <2>4. DataStored(DOMAIN root', cmb)
    BY <2>1, <2>2, <2>3, PutStores DEF HistsInv, DataStored
  <2> QED BY <1>2, <2>1, <2>4 DEF HistsInv
<1>7. CASE WriteProcesses
  <2>1. /\ pc = "processes" /\ pc' = "background" /\ cmb' = cmb /\ is_open' = is_open
        /\ complete' = complete /\ todo' = todo /\ Put(WithHist(cmb.procs), <<>>)
    BY <1>7 DEF WriteProcesses, writer
  <2>2. IsSeq(cmb.procs)
    BY <2>1, SelectParts DEF TypesInv
  <2>3. NoHists(cmb) => \A z \in ToSet(cmb.procs) : ~z.hist
    BY DEF NoHists
  <2>4. ColumnsStored(DOMAIN root', cmb)
    BY <2>1, <2>2, <2>3, PutStores DEF HistsInv, ColumnsStored
  <2> QED BY <1>2, <1>3, <2>1, <2>4 DEF HistsInv
<1>8. CASE NumberBackground \/ NumberSignal
  <2>1. /\ pc \in {"background", "signal"} /\ pc' \in {"background", "signal", "client"}
        /\ cmb' = cmb /\ is_open' = is_open /\ complete' = complete /\ todo' = todo
    BY <1>8 DEF NumberBackground, NumberSignal, Throw, writer, disk
  <2> QED BY <1>2, <1>3, <2>1 DEF HistsInv
<1>9. CASE WriteRates
  <2>1. /\ pc = "background" /\ pc' = "nuisances"
        /\ cmb' = cmb /\ is_open' = is_open /\ complete' = complete /\ todo' = todo
    BY <1>9 DEF WriteRates, writer
  <2>2. Lined(cmb) \ todo = {}
    BY <2>1 DEF HistsInv, Lined
  <2>3. \A n \in Lined(cmb') \ todo' : NuisanceStored(DOMAIN root', cmb', n)
    BY <2>1, <2>2
  <2> QED BY <1>2, <1>3, <2>1, <2>3 DEF HistsInv
<1>10. CASE \E n \in todo : WriteNuisance(n)
  <2>1. PICK n \in todo : WriteNuisance(n)
    BY <1>10
  <2>2. /\ pc = "nuisances" /\ pc' \in {"nuisances", "client"} /\ todo' = todo \ {n}
        /\ cmb' = cmb /\ is_open' = is_open /\ complete' = complete
    BY <2>1 DEF WriteNuisance, Throw, writer
  <2>3. CASE pc' = "client"
    BY <1>2, <2>2, <2>3 DEF HistsInv
  <2>4. CASE pc' = "nuisances"
    <3>1. n \in Lined(cmb) => NuisanceStored(DOMAIN root', cmb, n)
      BY <2>1, <2>4, NuisanceStores DEF Lined
    <3>2. \A l \in Lined(cmb) \ todo' : NuisanceStored(DOMAIN root', cmb, l)
      BY <1>3, <2>2, <3>1 DEF HistsInv
    <3>3. \A l \in Lined(cmb') \ todo' : NuisanceStored(DOMAIN root', cmb', l)
      BY <2>2, <3>2
    <3> QED BY <1>2, <1>3, <2>2, <2>4, <3>3 DEF HistsInv
  <2> QED BY <2>2, <2>3, <2>4
<1>11. CASE WriteTail
  <2>1. /\ pc = "nuisances" /\ todo = {} /\ pc' = "client" /\ complete' = complete \cup {key}
        /\ root' = root
    BY <1>11 DEF WriteTail
  <2>2. cmb = Select(cb, key)
    BY <2>1 DEF TypesInv
  <2>3. CardStored(DOMAIN root', Select(cb', key))
    BY <1>1, <2>1, <2>2 DEF HistsInv, CardStored
  <2> QED BY <1>2, <2>1, <2>3 DEF HistsInv
<1>12. CASE \/ \E F \in complete, m \in Masses : ParseDatacard(F, m)
            \/ ReadShapes \/ ReadObservations \/ ReadRates \/ Ignored \/ ReadParam
            \/ ReadNuisance \/ ReadRateParam \/ ReadFreeze \/ ReadAutoMCStats \/ ReadGroup
            \/ EndParse \/ Return
  <2>1. complete' = complete /\ pc' \in {"parse", "client", "parsed"}
    BY <1>12 DEF ParseDatacard, ReadShapes, ReadObservations, ReadRates, Ignored, ReadParam,
         ReadNuisance, ReadRateParam, ReadFreeze, ReadAutoMCStats, ReadGroup, EndParse, Return,
         Scanning, Reading, Skip, Fail, Rest, disk
  <2> QED BY <1>2, <2>1 DEF HistsInv
<1>13. CASE UNCHANGED vars
  BY <1>13 DEF vars, disk, writer, HistsInv
<1> QED BY <1>4, <1>5, <1>6, <1>7, <1>8, <1>9, <1>10, <1>11, <1>12, <1>13 DEF Next

-----------------------------------------------------------------------------
(* Lines of the cards: those of a finished card, by kind, and their order.  *)
Of(t, kind) == {l \in ToSet(t) : l.kind = kind}
Early == {"shapes", "observation", "rate", "param", "nuisance"}
UpToRates == Early \cup {"rateParam"}
\* Lines of the kinds K come before all others.
First(t, K) == \A j, l \in 1..Len(t) : j < l /\ t[l].kind \in K => t[j].kind \in K
Tells(t, C, names) ==
  /\ Of(t, "param") = ToSet(ParamLines(C))
  /\ Of(t, "nuisance") = {NuisanceLine(C, n) : n \in names}
Finished(t, C) ==
  /\ Tells(t, C, Lined(C)) /\ Of(t, "rateParam") = RateParamLines(C)
  /\ Of(t, "freeze") = FreezeLines(C) /\ Of(t, "group") = GroupLines(C)
  /\ First(t, Early) /\ First(t, UpToRates)
LinesInv ==
  /\ pc = "nuisances" => /\ Tells(text[key], cmb, Lined(cmb) \ todo)
                         /\ \A l \in ToSet(text[key]) : l.kind \in Early
  /\ \A F \in complete : Finished(text[F], Select(cb, F))

LEMMA InitLines == Init => LinesInv
  BY DEF Init, LinesInv

LEMMA CardsStay ==
  ASSUME TypesInv, [Next]_vars
  PROVE  cb' = cb /\ \A F \in complete : F \in complete' /\ text'[F] = text[F]
<1>1. CASE \E F \in Filters, open \in BOOLEAN : WriteDatacard(F, open)
  BY <1>1 DEF WriteDatacard, TypesInv, TypeOK
<1>2. CASE FillHistMappings \/ WriteObservations \/ WriteRates \/ (\E n \in todo : WriteNuisance(n))
           \/ WriteTail
  <2>1. /\ cb' = cb /\ pc \in Writing /\ complete \subseteq complete'
        /\ text' = text \/ \E t : text' = [text EXCEPT ![key] = t]
    BY <1>2 DEF FillHistMappings, WriteObservations, WriteRates, WriteNuisance, WriteTail,
       Append1, AppendAll, Throw, Writing
  <2>2. \A F \in complete : F # key
    BY <2>1 DEF TypesInv
  <2>3. \A F \in complete : F \in DOMAIN text
    BY DEF TypesInv, TypeOK
  <2>4. ASSUME NEW F \in complete PROVE text'[F] = text[F]
    BY <2>1, <2>2, <2>3
  <2> QED BY <2>1, <2>4
<1>3. CASE \/ WriteProcesses \/ NumberBackground \/ NumberSignal
           \/ \E F \in complete, m \in Masses : ParseDatacard(F, m)
           \/ ReadShapes \/ ReadObservations \/ ReadRates \/ Ignored \/ ReadParam
           \/ ReadNuisance \/ ReadRateParam \/ ReadFreeze \/ ReadAutoMCStats \/ ReadGroup
           \/ EndParse \/ Return
  BY <1>3 DEF WriteProcesses, NumberBackground, NumberSignal, ParseDatacard, ReadShapes,
     ReadObservations, ReadRates, Ignored, ReadParam, ReadNuisance, ReadRateParam, ReadFreeze,
     ReadAutoMCStats, ReadGroup, EndParse, Return, Rest, disk
<1>4. CASE UNCHANGED vars
  BY <1>4 DEF vars, disk
<1> QED BY <1>1, <1>2, <1>3, <1>4 DEF Next

LEMMA FirstConcat ==
  ASSUME NEW s, NEW t, IsSeq(s), IsSeq(t), NEW K,
         \/ (\A l \in ToSet(s) : l.kind \in K) /\ First(t, K)
         \/ First(s, K) /\ \A l \in ToSet(t) : l.kind \notin K
  PROVE  First(s \o t, K)
<1> DEFINE u == s \o t
<1>1. /\ Len(s) \in Nat /\ DOMAIN s = 1..Len(s) /\ Len(t) \in Nat /\ DOMAIN t = 1..Len(t)
      /\ Len(u) = Len(s) + Len(t)
      /\ \A k \in 1..Len(s) : u[k] = s[k] /\ s[k] \in ToSet(s)
      /\ \A k \in 1..Len(t) : u[Len(s) + k] = t[k] /\ t[k] \in ToSet(t)
  BY Concat, SeqDomain DEF ToSet
<1> HIDE DEF u
<1> SUFFICES ASSUME NEW j \in 1..Len(u), NEW l \in 1..Len(u), j < l, u[l].kind \in K
             PROVE  u[j].kind \in K
  BY DEF First, u
<1>2. CASE l <= Len(s)
  BY <1>1, <1>2 DEF First
<1>3. CASE l > Len(s)
  <2>1. l - Len(s) \in 1..Len(t) /\ u[l] = t[l - Len(s)] /\ t[l - Len(s)] \in ToSet(t)
    <3>1. l - Len(s) \in 1..Len(t) /\ l = Len(s) + (l - Len(s))
      BY <1>1, <1>3
    <3> QED BY <1>1, <3>1
  <2>2. (\A x \in ToSet(s) : x.kind \in K) /\ First(t, K)
    BY <2>1
  <2>3. CASE j <= Len(s)
    BY <1>1, <2>2, <2>3
  <2>4. CASE j > Len(s)
    <3>1. j - Len(s) \in 1..Len(t) /\ j = Len(s) + (j - Len(s)) /\ j - Len(s) < l - Len(s)
      BY <1>1, <1>3, <2>4
    <3>2. u[j] = t[j - Len(s)]
      BY <1>1, <3>1
    <3> QED BY <2>1, <2>2, <3>1, <3>2 DEF First
  <2> QED BY <1>1, <2>3, <2>4
<1> QED BY <1>1, <1>2, <1>3

LEMMA AllFirst ==
  ASSUME NEW s, IsSeq(s), NEW K, \A l \in ToSet(s) : l.kind \in K
  PROVE  First(s, K)
  BY SeqDomain DEF First, ToSet

LEMMA HeadKinds ==
  ASSUME NEW t, NEW C, Headed(t, C), NEW l \in ToSet(t)
  PROVE  l.kind \in {"shapes", "observation"}
<1>1. RatePos(C) = (IF C.obs = <<>> THEN 2 ELSE 3) /\ Len(t) = RatePos(C) - 1
      /\ DOMAIN t = 1..Len(t) /\ t[1] = ShapesLine(C) /\ (C.obs # <<>> => t[2] = ObservationLine(C))
  BY SeqDomain DEF Headed, Heads, RatePos
<1>2. PICK k \in 1..Len(t) : l = t[k]
  BY <1>1 DEF ToSet
<1>3. k = 1 \/ (k = 2 /\ C.obs # <<>>)
  BY <1>1, <1>2
<1> QED BY <1>1, <1>2, <1>3 DEF ShapesLine, ObservationLine

\* When the rate and "param" lines are written.
LEMMA RatesLines ==
  ASSUME TypesInv, HistsInv, CardsInv, WriteRates
  PROVE  /\ Tells(text'[key], cmb, Lined(cmb) \ todo)
         /\ \A l \in ToSet(text'[key]) : l.kind \in Early
<1> DEFINE t == text[key]
           r == RateLine(cmb)
           u == <<r>>
           w == ParamLines(cmb)
           all == t \o (u \o w)
<1>1. pc = "background" /\ text' = [text EXCEPT ![key] = @ \o (<<RateLine(cmb)>> \o ParamLines(cmb))]
  BY DEF WriteRates, AppendAll
<1>2. /\ key \in DOMAIN text /\ Headed(t, cmb) /\ IsSeq(t) /\ IsSeq(cmb.systs)
      /\ todo = sys_set(cmb)
  BY <1>1, SelectParts DEF TypesInv, Writing, CardsInv, Started, Headed, HistsInv, BeforeNuisances
<1>3. text'[key] = all
  BY <1>1, <1>2
<1>4. IsSeq(w) /\ \A l \in ToSet(w) : l.kind = "param"
  BY <1>2, ParamTail
<1>5. r.kind = "rate"
  BY DEF RateLine
<1>6. \A l \in ToSet(t) : l.kind \in {"shapes", "observation"}
  BY <1>2, HeadKinds
<1> HIDE DEF t, r, w
<1>7. IsSeq(u) /\ ToSet(u) = {r}
  <2>1. DOMAIN u = {1} /\ u[1] = r
    OBVIOUS
  <2> QED BY <2>1, ShortSeqs DEF ToSet
<1> HIDE DEF u
<1>8. IsSeq(u \o w) /\ ToSet(u \o w) = ToSet(u) \cup ToSet(w)
  BY <1>4, <1>7, Concat
<1>9. ToSet(all) = ToSet(t) \cup ToSet(u \o w)
  BY <1>2, <1>8, Concat
<1>10. ToSet(all) = ToSet(t) \cup ({r} \cup ToSet(w))
  BY <1>7, <1>8, <1>9
<1> HIDE DEF all
<1>11. Of(all, "param") = ToSet(w)
  BY <1>4, <1>5, <1>6, <1>10 DEF Of
<1>12. Of(all, "nuisance") = {}
  BY <1>4, <1>5, <1>6, <1>10 DEF Of
<1>13. Lined(cmb) \ todo = {}
  BY <1>2 DEF Lined
<1>14. {NuisanceLine(cmb, n) : n \in Lined(cmb) \ todo} = {}
  BY <1>13
<1>15. \A l \in ToSet(all) : l.kind \in Early
  BY <1>4, <1>5, <1>6, <1>10 DEF Early
<1> QED BY <1>3, <1>11, <1>12, <1>14, <1>15 DEF Tells, w

LEMMA NuisanceLines ==
  ASSUME TypesInv, CardsInv, LinesInv, NEW n \in todo, WriteNuisance(n), pc' = "nuisances"
  PROVE  /\ Tells(text'[key], cmb, Lined(cmb) \ todo')
         /\ \A l \in ToSet(text'[key]) : l.kind \in Early
<1> DEFINE t == text[key]
           x == NuisanceLine(cmb, n)
<1>1. pc = "nuisances" /\ todo' = todo \ {n}
  BY DEF WriteNuisance
<1>2. /\ key \in DOMAIN text /\ IsSeq(t) /\ todo \subseteq sys_set(cmb)
      /\ Tells(t, cmb, Lined(cmb) \ todo) /\ \A l \in ToSet(t) : l.kind \in Early
  BY <1>1 DEF TypesInv, TypeOK, Writing, CardsInv, Started, Card, LinesInv
<1>3. CASE n \in param_set(cmb)
  <2>1. text' = text
    BY <1>3 DEF WriteNuisance
  <2>2. Lined(cmb) \ todo' = Lined(cmb) \ todo
    BY <1>1, <1>3 DEF Lined
  <2> QED BY <1>2, <2>1, <2>2
<1>4. CASE n \notin param_set(cmb)
  <2>1. text' = [text EXCEPT ![key] = Append(@, NuisanceLine(cmb, n))]
    BY <1>4 DEF WriteNuisance, Append1, Throw
  <2>2. text'[key] = Append(t, x)
    BY <1>2, <2>1
  <2>3. x.kind = "nuisance"
    BY DEF NuisanceLine
  <2>4. Lined(cmb) \ todo' = (Lined(cmb) \ todo) \cup {n}
    BY <1>1, <1>2, <1>4 DEF Lined
  <2>5. {NuisanceLine(cmb, l) : l \in Lined(cmb) \ todo'} =
        {NuisanceLine(cmb, l) : l \in Lined(cmb) \ todo} \cup {x}
    <3> DEFINE A == Lined(cmb) \ todo
    <3>1. Lined(cmb) \ todo' = A \cup {n}
      BY <2>4
    <3>2. {NuisanceLine(cmb, l) : l \in A \cup {n}} = {NuisanceLine(cmb, l) : l \in A} \cup {x}
      <4> HIDE DEF A
      <4> QED OBVIOUS
    <3> QED BY <3>1, <3>2
  <2> HIDE DEF t, x
  <2>6. ToSet(Append(t, x)) = ToSet(t) \cup {x}
    <3> DEFINE u == Append(t, x)
    <3>1. /\ IsSeq(u) /\ Len(u) = Len(t) + 1 /\ u[Len(t) + 1] = x
          /\ \A k \in 1..Len(t) : u[k] = t[k]
      BY <1>2, Appended, Zenon
    <3>2. Len(t) \in Nat /\ DOMAIN t = 1..Len(t)
      BY <1>2, SeqDomain
    <3> HIDE DEF u
    <3>3. DOMAIN u = 1..(Len(t) + 1)
      BY <3>1, SeqDomain
    <3> QED BY <3>1, <3>2, <3>3 DEF ToSet, u
  <2> DEFINE u == Append(t, x)
  <2> HIDE DEF u
  <2>7. Of(u, "param") = Of(t, "param") /\ Of(u, "nuisance") = Of(t, "nuisance") \cup {x}
    BY <2>3, <2>6 DEF Of, u
  <2>8. Tells(u, cmb, Lined(cmb) \ todo')
    BY <1>2, <2>5, <2>7 DEF Tells
  <2>9. \A l \in ToSet(u) : l.kind \in Early
    BY <1>2, <2>3, <2>6 DEF Early, u
  <2> QED BY <2>2, <2>8, <2>9 DEF u
<1> QED BY <1>3, <1>4

LEMMA TailLines ==
  ASSUME TypesInv, CardsInv, LinesInv, WriteTail
  PROVE  Finished(text'[key], cmb)
<1> DEFINE t == text[key]
           u == SetToSeq(RateParamLines(cmb))
           v == SetToSeq(FreezeLines(cmb))
           w == SetToSeq(AutoLines(cmb))
           x == SetToSeq(GroupLines(cmb))
           all == t \o (u \o v \o w \o x)
<1>1. pc = "nuisances" /\ todo = {} /\ text' = [text EXCEPT ![key] = @ \o (u \o v \o w \o x)]
  BY DEF WriteTail, AppendAll
<1>2. /\ key \in DOMAIN text /\ IsSeq(t) /\ cmb = Select(cb, key) /\ cb \in Inputs
      /\ Tells(t, cmb, Lined(cmb)) /\ \A l \in ToSet(t) : l.kind \in Early
  <2>1. Lined(cmb) \ todo = Lined(cmb)
    BY <1>1
  <2> QED BY <1>1, <2>1 DEF TypesInv, Writing, CardsInv, Started, Card, LinesInv
<1>3. text'[key] = all
  BY <1>1, <1>2
<1>4. \A s \in ToSet(cmb.systs) : IsFiniteSet(cmb.params[s.name].groups)
  BY <1>2, SelectParts, InputsAssumption
<1>5. /\ Lines(RateParamLines(cmb), "rateParam") /\ Lines(FreezeLines(cmb), "freeze")
      /\ Lines(AutoLines(cmb), "autoMCStats") /\ Lines(GroupLines(cmb), "group")
  BY <1>2, <1>4, SelectParts, OtherTails
<1>6. /\ IsSeq(u) /\ ToSet(u) = RateParamLines(cmb) /\ \A l \in ToSet(u) : l.kind = "rateParam"
      /\ IsSeq(v) /\ ToSet(v) = FreezeLines(cmb) /\ \A l \in ToSet(v) : l.kind = "freeze"
      /\ IsSeq(w) /\ \A l \in ToSet(w) : l.kind = "autoMCStats"
      /\ IsSeq(x) /\ ToSet(x) = GroupLines(cmb) /\ \A l \in ToSet(x) : l.kind = "group"
  BY <1>5 DEF Lines
<1> HIDE DEF t, u, v, w, x
<1>7. IsSeq(u \o v) /\ ToSet(u \o v) = ToSet(u) \cup ToSet(v)
  BY <1>6, Concat
<1>8. IsSeq(u \o v \o w) /\ ToSet(u \o v \o w) = ToSet(u \o v) \cup ToSet(w)
  BY <1>6, <1>7, Concat
<1>9. IsSeq(u \o v \o w \o x) /\ ToSet(u \o v \o w \o x) = ToSet(u \o v \o w) \cup ToSet(x)
  BY <1>6, <1>8, Concat
<1>10. ToSet(all) = ToSet(t) \cup ToSet(u \o v \o w \o x)
  BY <1>2, <1>9, Concat DEF t
<1>11. ToSet(all) = ToSet(t) \cup (ToSet(u) \cup ToSet(v) \cup ToSet(w) \cup ToSet(x))
  BY <1>7, <1>8, <1>9, <1>10
<1>12. /\ First(u, UpToRates) /\ \A l \in ToSet(v) \cup ToSet(w) \cup ToSet(x) : l.kind \notin UpToRates
  BY <1>6, AllFirst DEF UpToRates, Early
<1>13. First(u \o v, UpToRates)
  BY <1>6, <1>12, FirstConcat
<1>14. First(u \o v \o w, UpToRates)
  BY <1>6, <1>7, <1>12, <1>13, FirstConcat
<1>15. First(u \o v \o w \o x, UpToRates)
  BY <1>6, <1>8, <1>12, <1>14, FirstConcat
<1>16. \A l \in ToSet(t) : l.kind \in UpToRates /\ l.kind \in Early
  BY <1>2 DEF UpToRates, t
<1>17. First(all, UpToRates)
  BY <1>2, <1>9, <1>15, <1>16, FirstConcat DEF t
<1>18. \A l \in ToSet(u \o v \o w \o x) : l.kind \notin Early
  BY <1>6, <1>7, <1>8, <1>9 DEF Early
<1>19. First(t, Early)
  BY <1>2, <1>16, AllFirst DEF t
<1>20. First(all, Early)
  BY <1>2, <1>9, <1>18, <1>19, FirstConcat DEF t
<1> HIDE DEF all
<1>21. /\ Of(all, "param") = Of(t, "param") /\ Of(all, "nuisance") = Of(t, "nuisance")
       /\ Of(all, "rateParam") = ToSet(u) /\ Of(all, "freeze") = ToSet(v)
       /\ Of(all, "group") = ToSet(x)
  BY <1>6, <1>11, <1>16 DEF Of, Early
<1> QED BY <1>2, <1>3, <1>6, <1>17, <1>20, <1>21 DEF Finished, Tells, t

LEMMA NextLines ==
  ASSUME TypesInv, CardsInv, HistsInv, LinesInv, [Next]_vars
  PROVE  LinesInv'
<1>1. \A F \in complete : Finished(text'[F], Select(cb', F))
  BY CardsStay DEF LinesInv
<1>2. CASE WriteRates
  <2>1. complete' = complete /\ cmb' = cmb /\ todo' = todo /\ key' = key
    BY <1>2 DEF WriteRates, writer
  <2> QED BY <1>1, <1>2, <2>1, RatesLines DEF LinesInv
<1>3. CASE \E n \in todo : WriteNuisance(n)
  <2>1. PICK n \in todo : WriteNuisance(n)
    BY <1>3
  <2>2. complete' = complete /\ cmb' = cmb /\ key' = key
    BY <2>1 DEF WriteNuisance, writer
  <2> QED BY <1>1, <2>1, <2>2, NuisanceLines DEF LinesInv
<1>4. CASE WriteTail
  <2>1. complete' = complete \cup {key} /\ cmb = Select(cb, key) /\ cb' = cb /\ pc' = "client"
    BY <1>4 DEF WriteTail, TypesInv, Writing
  <2>2. Finished(text'[key], Select(cb', key))
    BY <1>4, <2>1, TailLines
  <2> QED BY <1>1, <2>1, <2>2 DEF LinesInv
<1>5. CASE \/ \E F \in Filters, open \in BOOLEAN : WriteDatacard(F, open)
           \/ FillHistMappings \/ WriteObservations \/ WriteProcesses
           \/ NumberBackground \/ NumberSignal
           \/ \E F \in complete, m \in Masses : ParseDatacard(F, m)
           \/ ReadShapes \/ ReadObservations \/ ReadRates \/ Ignored \/ ReadParam
           \/ ReadNuisance \/ ReadRateParam \/ ReadFreeze \/ ReadAutoMCStats \/ ReadGroup
           \/ EndParse \/ Return
  <2>1. complete' = complete /\ pc' # "nuisances"
    BY <1>5 DEF WriteDatacard, FillHistMappings, WriteObservations, WriteProcesses,
       NumberBackground, NumberSignal, ParseDatacard, ReadShapes, ReadObservations, ReadRates,
       Ignored, ReadParam, ReadNuisance, ReadRateParam, ReadFreeze, ReadAutoMCStats, ReadGroup,
       EndParse, Return, Scanning, Reading, Skip, Fail, Throw, Rest, disk
  <2> QED BY <1>1, <2>1 DEF LinesInv
<1>6. CASE UNCHANGED vars
  BY <1>6 DEF vars, disk, writer, LinesInv
<1> QED BY <1>2, <1>3, <1>4, <1>5, <1>6 DEF Next

-----------------------------------------------------------------------------
(* Nuisances: what is read of a column of a nuisance line.                  *)
SystPath(q, n) ==
  <<q.bin>> \o q.process \o (IF Own_(q) THEN <<q.mass>> ELSE <<>>) \o Suffix(n)

\* Where the histograms of a column and of its systematics are written.
LEMMA ColumnPaths ==
  ASSUME cb \in Inputs, NEW F, Expressible(Select(cb, F)),
         NEW k \in DOMAIN Select(cb, F).procs, Select(cb, F).procs[k].hist
  PROVE  LET q == Select(cb, F).procs[k]
         IN  /\ Paths(Select(cb, F), q, <<>>) = {OwnPath(q)}
             /\ \A x, y : MatchingProcess(x, q) => Paths(Select(cb, F), x, Suffix(y)) = {SystPath(q, y)}
<1> DEFINE C == Select(cb, F)
           q == C.procs[k]
           m == IF q.hist /\ Own_(q) THEN Mapping(q.process, q.bin, "$PROCESS$MASS")
                ELSE Mapping(<<"*">>, q.bin, IF q.hist THEN "$PROCESS" ELSE "FAKE")
           R == ResolveMapping(Mappings(C), q.process, q.bin)
<1>1. R = {m} /\ q.hist
  BY ColumnRule
<1>2. m.rule = IF Own_(q) THEN "$PROCESS$MASS" ELSE "$PROCESS"
  BY <1>1 DEF Mapping
<1> HIDE DEF m, q, C
<1>3. \A suffix : Path(m, q.bin, q.process, q.mass, suffix) =
        <<q.bin>> \o q.process \o (IF Own_(q) THEN <<q.mass>> ELSE <<>>) \o suffix
  BY <1>2 DEF Path
<1>4. \A s, suffix : s.bin = q.bin /\ s.process = q.process /\ s.mass = q.mass =>
        Paths(C, s, suffix) =
          {<<q.bin>> \o q.process \o (IF Own_(q) THEN <<q.mass>> ELSE <<>>) \o suffix}
  <2> SUFFICES ASSUME NEW s, NEW suffix, s.bin = q.bin, s.process = q.process, s.mass = q.mass
               PROVE  Paths(C, s, suffix) =
                 {<<q.bin>> \o q.process \o (IF Own_(q) THEN <<q.mass>> ELSE <<>>) \o suffix}
    OBVIOUS
  <2>1. Paths(C, s, suffix) = {Path(x, s.bin, s.process, s.mass, suffix) : x \in R}
    BY Zenon DEF Paths
  <2>2. Paths(C, s, suffix) = {Path(m, q.bin, q.process, q.mass, suffix)}
    BY <1>1, <2>1
  <2> QED BY <1>3, <2>2
<1>5. Paths(C, q, <<>>) = {OwnPath(q)}
  BY <1>4 DEF OwnPath
<1>6. \A x, y : MatchingProcess(x, q) => Paths(C, x, Suffix(y)) = {SystPath(q, y)}
  BY <1>4 DEF SystPath, MatchingProcess
<1> QED BY <1>5, <1>6 DEF q, C

\* What LoadShapes gives for a systematic of a column.
LEMMA LoadedSyst ==
  ASSUME cb \in Inputs, NEW F, Expressible(Select(cb, F)),
         hist_mapping = Mappings(Select(cb, F)),
         NEW k \in DOMAIN Select(cb, F).procs, Select(cb, F).procs[k].mass \in {mass, "*"},
         NEW n, NEW from
  PROVE  LET q == Select(cb, F).procs[k]
         IN  LoadSystShapes(q.bin, q.process, n, from) =
               IF q.hist /\ OwnPath(q) \in DOMAIN root THEN AtPath(SystPath(q, n), from)
               ELSE Loaded(FALSE, FALSE, from)
<1> DEFINE q == Select(cb, F).procs[k]
           M == ResolveMapping(hist_mapping, q.process, q.bin)
           m == IF q.hist /\ Own_(q) THEN Mapping(q.process, q.bin, "$PROCESS$MASS")
                ELSE Mapping(<<"*">>, q.bin, IF q.hist THEN "$PROCESS" ELSE "FAKE")
<1>1. M = {m}
  BY ColumnRule
<1>2. (CHOOSE x \in M : TRUE) = m /\ M # {}
  BY <1>1
<1>3. Own_(q) => q.mass = mass
  BY NamesAssumption DEF Own_
<1>4. m.rule = IF q.hist THEN IF Own_(q) THEN "$PROCESS$MASS" ELSE "$PROCESS" ELSE "FAKE"
  BY DEF Mapping
<1> HIDE DEF M, q
<1>5. LoadSystShapes(q.bin, q.process, n, from) =
        IF m.rule = "FAKE" \/ Path(m, q.bin, q.process, mass, <<>>) \notin DOMAIN root
        THEN Loaded(FALSE, FALSE, from)
        ELSE AtPath(Path(m, q.bin, q.process, mass, Suffix(n)), from)
  BY <1>2 DEF LoadSystShapes, M
<1> HIDE DEF m
<1>6. q.hist => /\ Path(m, q.bin, q.process, mass, <<>>) = OwnPath(q)
                /\ Path(m, q.bin, q.process, mass, Suffix(n)) = SystPath(q, n)
  BY <1>3, <1>4 DEF Path, OwnPath, SystPath
<1>7. LoadSystShapes(q.bin, q.process, n, from) =
        IF q.hist /\ OwnPath(q) \in DOMAIN root THEN AtPath(SystPath(q, n), from)
        ELSE Loaded(FALSE, FALSE, from)
  BY <1>4, <1>5, <1>6
<1> QED BY <1>7 DEF q

\* Of an entry once per process, one is looked at, and it is of the line's kind.
LEMMA SeenOnce ==
  ASSUME NEW C, IsSeq(C.systs), OncePerProcess(C), NEW n, NEW k, NEW j \in Seen(C, n, k)
  PROVE  /\ LastSeen(C, n, k) = C.systs[j] /\ C.systs[j] \in ToSet(C.systs)
         /\ C.systs[j].name = n /\ C.systs[j].type \in NuisanceTypes
         /\ MatchingProcess(C.systs[j], C.procs[k])
<1>1. /\ Seen(C, n, k) \subseteq DOMAIN C.systs
      /\ \A l \in Seen(C, n, k) :
           /\ C.systs[l].name = n /\ C.systs[l].type \in NuisanceTypes
           /\ MatchingProcess(C.systs[l], C.procs[k])
      /\ \E l \in Seen(C, n, k) : LastSeen(C, n, k) = C.systs[l]
  BY SeenEntries
<1>2. PICK l \in Seen(C, n, k) : LastSeen(C, n, k) = C.systs[l]
  BY <1>1
<1>3. l = j
  BY <1>1 DEF OncePerProcess, MatchingProcess
<1>4. C.systs[j] \in ToSet(C.systs)
  BY <1>1 DEF ToSet
<1> QED BY <1>1, <1>2, <1>3, <1>4

\* The type of a line is that of its entries, or "shape?".
LEMMA LineType ==
  ASSUME NEW C, IsSeq(C.systs), OncePerProcess(C), OneKind(C), NEW n \in sys_set(C),
         NEW k \in DOMAIN C.procs, Seen(C, n, k) # {}
  PROVE  LET type == Deduced(SeenTypes(C, n))
             s == LastSeen(C, n, k)
         IN  /\ s \in ToSet(C.systs) /\ s.name = n /\ s.type \in NuisanceTypes
             /\ MatchingProcess(s, C.procs[k])
             /\ type = s.type \/ (type = "shape?" /\ s.type \in {"lnN", "shape"})
<1> DEFINE T == SeenTypes(C, n)
           s == LastSeen(C, n, k)
           named == {x \in ToSet(C.systs) : x.name = n}
           U == {x.type : x \in named}
<1>1. PICK j \in Seen(C, n, k) : TRUE
  OBVIOUS
<1>2. /\ s = C.systs[j] /\ s \in ToSet(C.systs) /\ s.name = n /\ s.type \in NuisanceTypes
      /\ MatchingProcess(s, C.procs[k])
  BY <1>1, SeenOnce
<1>3. s.type \in T
  BY <1>1, <1>2 DEF SeenTypes
<1>4. T \subseteq U
  <2> SUFFICES ASSUME NEW x \in T PROVE x \in U
    OBVIOUS
  <2>1. PICK l \in DOMAIN C.procs : x \in {C.systs[h].type : h \in Seen(C, n, l)}
    BY DEF SeenTypes
  <2>2. PICK h \in Seen(C, n, l) : x = C.systs[h].type
    BY <2>1
  <2>3. C.systs[h] \in ToSet(C.systs) /\ C.systs[h].name = n
    BY SeenOnce
  <2> QED BY <2>2, <2>3
<1>5. U \subseteq {"lnN", "shape"} \/ U = {s.type}
  <2>1. U \subseteq {"lnN", "shape"} \/ Cardinality(U) = 1
    BY DEF OneKind
  <2>2. s.type \in U
    BY <1>3, <1>4
  <2>3. IsFiniteSet(U)
    <3> DEFINE f == [x \in named |-> x.type]
    <3>1. IsFiniteSet(named)
      BY FiniteElements, FS_Subset
    <3>2. f = [x \in named |-> f[x]] /\ U = {f[x] : x \in named}
      OBVIOUS
    <3> HIDE DEF f, named
    <3> QED BY <3>1, <3>2, FiniteImage
  <2> HIDE DEF U
  <2> QED BY <2>1, <2>2, <2>3, FS_Singleton
<1> HIDE DEF T, U, s
<1>6. CASE T = {s.type}
  BY <1>2, <1>6 DEF Deduced, NuisanceTypes, ShapeTypes, T, s
<1>7. CASE T # {s.type}
  <2>1. T \subseteq {"lnN", "shape"}
    BY <1>3, <1>4, <1>5, <1>7
  <2>2. Deduced(T) = "shape?" /\ s.type \in {"lnN", "shape"}
    BY <1>3, <1>7, <2>1 DEF Deduced
  <2> QED BY <1>2, <2>2 DEF T, s
<1> QED BY <1>6, <1>7

\* The path of a systematic is one that OnePath tells from others.
LEMMA SystPathOf ==
  ASSUME cb \in Inputs, NEW q \in ToSet(cb.procs), q.hist, NEW s, MatchingProcess(s, q), NEW n
  PROVE  SystPath(q, n) \in PathsOf(cb, s, Suffix(n)) /\ SystPath(q, n) # <<>>
<1>1. /\ s.bin = q.bin /\ s.process = q.process /\ s.mass = q.mass /\ s.signal = q.signal
  BY DEF MatchingProcess
<1>2. SystPath(q, n) \in PathsOf(cb, s, Suffix(n))
  BY <1>1 DEF SystPath, PathsOf, Own_
<1>3. IsSeq(q.process)
  <2>1. q \in Process
    BY InputsAssumption, SeqIsSeq
  <2>2. q.process \in Seq(STRING)
    BY <2>1 DEF Process
  <2> QED BY <2>2, SeqIsSeq
<1>4. IsSeq(Suffix(n))
  <2>1. Suffix(n) = [k \in 1..2 |-> Suffix(n)[k]]
    BY DEF Suffix
  <2> QED BY <2>1, FunIsSeq
<1>5. IsSeq(IF Own_(q) THEN <<q.mass>> ELSE <<>>)
  BY ShortSeqs
<1>6. SystPath(q, n) # <<>>
  BY <1>3, <1>4, <1>5, PathNotEmpty DEF SystPath
<1> QED BY <1>2, <1>6

\* What an entry of a card reads back as.
NuisanceBack(s) ==
  [bin |-> s.bin, process |-> s.process, signal |-> s.signal, mass |-> mass,
   name |-> s.name, type |-> s.type, hist |-> s.hist,
   from |-> Ident(s) \o IF s.hist THEN Suffix(s.name) ELSE <<>>]

\* What LoadShapes gives for an entry: its own histogram, or none.
LEMMA ShapesOfEntry ==
  ASSUME cb \in Inputs, RootInv, OnePath(cb), NEW F, Expressible(Select(cb, F)),
         hist_mapping = Mappings(Select(cb, F)), CardStored(DOMAIN root, Select(cb, F)),
         NEW k \in DOMAIN Select(cb, F).procs, Select(cb, F).procs[k].mass \in {mass, "*"},
         NEW n \in Lined(Select(cb, F)), Seen(Select(cb, F), n, k) # {}
  PROVE  LET q == Select(cb, F).procs[k]
             s == LastSeen(Select(cb, F), n, k)
             l == LoadSystShapes(q.bin, q.process, n, Ident(s))
         IN  /\ s.hist <=> s.type \in ShapeTypes
             /\ l.hist = s.hist /\ (s.hist => l.ok)
             /\ l.from = Ident(s) \o IF s.hist THEN Suffix(s.name) ELSE <<>>
<1> DEFINE C == Select(cb, F)
           q == C.procs[k]
           s == LastSeen(C, n, k)
           l == LoadSystShapes(q.bin, q.process, n, Ident(s))
<1>1. /\ IsSeq(C.systs) /\ ToSet(C.systs) \subseteq ToSet(cb.systs)
      /\ ToSet(C.procs) \subseteq ToSet(cb.procs) /\ q \in ToSet(C.procs)
  <2>1. /\ IsSeq(C.systs) /\ ToSet(C.systs) = {x \in ToSet(cb.systs) : x.mass \in F}
        /\ ToSet(C.procs) = {x \in ToSet(cb.procs) : x.mass \in F}
    BY SelectParts
  <2>2. q \in ToSet(C.procs)
    BY DEF ToSet
  <2> QED BY <2>1, <2>2
<1>2. OncePerProcess(C) /\ OneKind(C) /\ ShapesThere(C)
  BY DEF Expressible
<1>3. n \in sys_set(C)
  BY DEF Lined
<1>4. /\ s \in ToSet(C.systs) /\ s.name = n /\ s.type \in NuisanceTypes /\ MatchingProcess(s, q)
  <2>1. k \in DOMAIN C.procs /\ Seen(C, n, k) # {}
    OBVIOUS
  <2> HIDE DEF C
  <2> QED BY <1>1, <1>2, <1>3, <2>1, LineType
<1>5. s.hist <=> s.type \in ShapeTypes
  BY <1>2, <1>4 DEF ShapesThere
<1>6. s.hist => q.hist
  BY <1>1, <1>2, <1>4 DEF ShapesThere
<1>7. s.hist \in BOOLEAN /\ s \in ToSet(cb.systs) /\ q \in ToSet(cb.procs)
  <2>1. s \in ToSet(cb.systs) /\ q \in ToSet(cb.procs)
    BY <1>1, <1>4
  <2>2. s \in Systematic
    BY <2>1, InputsAssumption, SeqIsSeq
  <2> QED BY <2>1, <2>2 DEF Systematic
<1>8. l = IF q.hist /\ OwnPath(q) \in DOMAIN root THEN AtPath(SystPath(q, n), Ident(s))
          ELSE Loaded(FALSE, FALSE, Ident(s))
  <2> HIDE DEF s
  <2> QED BY LoadedSyst
<1>9. q.hist => Paths(C, q, <<>>) = {OwnPath(q)} /\ Paths(C, s, Suffix(n)) = {SystPath(q, n)}
  <2>1. ASSUME q.hist PROVE Paths(C, q, <<>>) = {OwnPath(q)}
    BY <2>1, ColumnPaths
  <2>2. ASSUME q.hist, NEW x, NEW y, MatchingProcess(x, q)
        PROVE  Paths(C, x, Suffix(y)) = {SystPath(q, y)}
    BY <2>2, ColumnPaths
  <2> HIDE DEF s, q, C
  <2> QED BY <1>4, <2>1, <2>2
<1>10. q.hist => OwnPath(q) \in DOMAIN root
  <2>1. q.hist => Paths(C, q, <<>>) \subseteq DOMAIN root
    BY <1>1 DEF CardStored, ColumnsStored
  <2> HIDE DEF q, s, C
  <2> QED BY <1>9, <2>1
<1>11. s.hist => SystPath(q, n) \in DOMAIN root
  <2>1. s.hist => Paths(C, s, Suffix(n)) \subseteq DOMAIN root
    BY <1>5, <1>6 DEF CardStored, NuisanceStored
  <2> HIDE DEF q, s, C
  <2> QED BY <1>6, <1>9, <2>1
<1>12. q.hist => SystPath(q, n) \in PathsOf(cb, s, Suffix(n)) /\ SystPath(q, n) # <<>>
  <2> HIDE DEF q, s, C
  <2> QED BY <1>4, <1>7, SystPathOf
<1> HIDE DEF l, q, s, C
<1>13. CASE s.hist
  <2>1. <<s, Suffix(n)>> \in Hists(cb)
    BY <1>4, <1>7, <1>13 DEF Hists
  <2>2. root[SystPath(q, n)] = Ident(s) \o Suffix(n)
    BY <1>6, <1>11, <1>12, <1>13, <2>1, OwnHist
  <2>3. l = Loaded(TRUE, TRUE, Ident(s) \o Suffix(n))
    BY <1>6, <1>8, <1>10, <1>11, <1>13, <2>2 DEF AtPath
  <2>4. l.ok = TRUE /\ l.hist = TRUE /\ l.from = Ident(s) \o Suffix(n)
    BY <2>3 DEF Loaded
  <2>5. s.hist = TRUE
    BY <1>7, <1>13
  <2> QED BY <1>4, <1>5, <2>4, <2>5 DEF l, q, s, C
<1>14. CASE ~s.hist
  <2>1. q.hist => SystPath(q, n) \notin DOMAIN root
    <3> SUFFICES ASSUME q.hist, SystPath(q, n) \in DOMAIN root PROVE FALSE
      OBVIOUS
    <3>1. PICK h \in Hists(cb) : SystPath(q, n) \in PathsOf(cb, h[1], h[2])
      BY <1>12 DEF RootInv
    <3>2. PathsOf(cb, h[1], h[2]) \cap PathsOf(cb, s, Suffix(s.name)) = {}
      BY <1>4, <1>7, <1>14 DEF OnePath
    <3>3. SystPath(q, n) \in PathsOf(cb, s, Suffix(s.name))
      BY <1>4, <1>12
    <3> QED BY <3>1, <3>2, <3>3
  <2>2. l = Loaded(FALSE, FALSE, Ident(s))
    BY <1>8, <2>1 DEF AtPath
  <2>3. l.hist = FALSE /\ l.from = Ident(s)
    BY <2>2 DEF Loaded
  <2>4. s.hist = FALSE /\ Ident(s) \o <<>> = Ident(s)
    BY <1>7, <1>14, IdentAlone
  <2> QED BY <1>5, <1>14, <2>3, <2>4 DEF l, q, s, C
<1> QED BY <1>13, <1>14

\* An entry of a line is read, and reads back as the one that was written.
LEMMA EntryRead ==
  ASSUME cb \in Inputs, RootInv, OnePath(cb), NEW F, Expressible(Select(cb, F)),
         hist_mapping = Mappings(Select(cb, F)), CardStored(DOMAIN root, Select(cb, F)),
         NEW k \in DOMAIN Select(cb, F).procs, Select(cb, F).procs[k].mass \in {mass, "*"},
         NEW n \in Lined(Select(cb, F)), Seen(Select(cb, F), n, k) # {},
         Line = NuisanceLine(Select(cb, F), n),
         columns[k].bin = Select(cb, F).procs[k].bin,
         columns[k].process = Select(cb, F).procs[k].process,
         (columns[k].id <= 0) <=> Select(cb, F).procs[k].signal
  PROVE  LET l == LoadEntry(k)
         IN  /\ l.ok
             /\ Entry(columns[k], Line.name, TypeRead(l.hist), l.hist, l.from) =
                  NuisanceBack(LastSeen(Select(cb, F), n, k))
<1> DEFINE C == Select(cb, F)
           q == C.procs[k]
           s == LastSeen(C, n, k)
           l == LoadEntry(k)
           u == LoadSystShapes(q.bin, q.process, n, Ident(s))
           type == Deduced(SeenTypes(C, n))
<1>1. /\ IsSeq(C.systs) /\ ToSet(C.systs) \subseteq ToSet(cb.systs)
  BY SelectParts
<1>2. OncePerProcess(C) /\ OneKind(C) /\ n \in sys_set(C)
  BY DEF Expressible, Lined
<1>3. /\ s \in ToSet(C.systs) /\ s.name = n /\ s.type \in NuisanceTypes /\ MatchingProcess(s, q)
      /\ type = s.type \/ (type = "shape?" /\ s.type \in {"lnN", "shape"})
  <2>1. k \in DOMAIN C.procs /\ Seen(C, n, k) # {}
    OBVIOUS
  <2> HIDE DEF C
  <2> QED BY <1>1, <1>2, <2>1, LineType
<1>4. /\ s.hist <=> s.type \in ShapeTypes
      /\ u.hist = s.hist /\ (s.hist => u.ok)
      /\ u.from = Ident(s) \o IF s.hist THEN Suffix(s.name) ELSE <<>>
  BY ShapesOfEntry
<1>5. s.hist \in BOOLEAN /\ s.signal \in BOOLEAN
  <2>1. s \in Systematic
    BY <1>1, <1>3, InputsAssumption, SeqIsSeq
  <2> QED BY <2>1 DEF Systematic
<1>6. /\ Line.name = n /\ Line.type = type /\ Line.entries[k] = Ident(s)
  <2>1. Line.name = n /\ Line.type = type
    BY DEF NuisanceLine
  <2>2. Line.entries[k] = Ident(s)
    BY DEF NuisanceLine
  <2> QED BY <2>1, <2>2
<1> HIDE DEF s, C, type
<1>7. l = IF type \in {"lnN", "lnU"} THEN Loaded(TRUE, FALSE, Ident(s))
          ELSE IF type = "shape?" THEN [u EXCEPT !.ok = TRUE] ELSE u
  <2>1. LoadSystShapes(columns[k].bin, columns[k].process, Line.name, Line.entries[k]) = u
    BY <1>6 DEF C
  <2> HIDE DEF u, q
  <2> QED BY <1>6, <2>1 DEF LoadEntry
<1>8. u = Loaded(u.ok, u.hist, u.from)
  BY DEF LoadSystShapes, AtPath, Loaded
<1> HIDE DEF l, u, q
<1>9. l.ok /\ l.hist = s.hist /\ l.from = Ident(s) \o IF s.hist THEN Suffix(s.name) ELSE <<>>
  <2>1. CASE type \in {"lnN", "lnU"}
    <3>1. l.ok = TRUE /\ l.hist = FALSE /\ l.from = Ident(s)
      BY <1>7, <2>1 DEF Loaded
    <3>2. s.hist = FALSE
      BY <1>3, <1>4, <1>5, <2>1 DEF ShapeTypes
    <3> QED BY <3>1, <3>2, IdentAlone
  <2>2. CASE type = "shape?"
    <3>1. l = [u EXCEPT !.ok = TRUE]
      BY <1>7, <2>2
    <3>2. l.ok = TRUE /\ l.hist = u.hist /\ l.from = u.from
      BY <1>8, <3>1 DEF Loaded
    <3> QED BY <1>4, <3>2
  <2>3. CASE type \notin {"lnN", "lnU", "shape?"}
    <3>1. l = u /\ s.hist
      BY <1>3, <1>4, <1>7, <2>3 DEF NuisanceTypes
    <3> QED BY <1>4, <3>1
  <2> QED BY <2>1, <2>2, <2>3
<1>10. TypeRead(l.hist) = s.type
  <2>1. TypeRead(l.hist) = IF type # "shape?" THEN type ELSE IF s.hist THEN "shape" ELSE "lnN"
    BY <1>6, <1>9 DEF TypeRead
  <2>2. CASE type # "shape?"
    BY <1>3, <2>1, <2>2
  <2>3. CASE type = "shape?" /\ s.type = "lnN"
    <3>1. ~s.hist
      BY <1>4, <2>3 DEF ShapeTypes
    <3> QED BY <2>1, <2>3, <3>1
  <2>4. CASE type = "shape?" /\ s.type = "shape"
    <3>1. s.hist
      BY <1>4, <2>4 DEF ShapeTypes
    <3> QED BY <2>1, <2>4, <3>1
  <2>5. type = "shape?" => s.type \in {"lnN", "shape"}
    BY <1>3 DEF NuisanceTypes, ShapeTypes
  <2> QED BY <2>2, <2>3, <2>4, <2>5
<1>11. (columns[k].id <= 0) = s.signal /\ columns[k].bin = s.bin /\ columns[k].process = s.process
  BY <1>3, <1>5 DEF MatchingProcess, q, C
<1>12. Entry(columns[k], Line.name, TypeRead(l.hist), l.hist, l.from) = NuisanceBack(s)
  BY <1>3, <1>6, <1>9, <1>10, <1>11 DEF Entry, NuisanceBack
<1> QED BY <1>9, <1>12 DEF l, s, C

-----------------------------------------------------------------------------
(* Parsing: a finished card that can express what was written is read to    *)
(* its end.                                                                 *)

\* The columns are those of the rate line, once it has been read.
PassedInv ==
  pc = "parse" =>
    columns = IF i > RatePos(Source) THEN text[key][RatePos(Source)].columns ELSE <<>>

LEMMA NextPassed ==
  ASSUME TypesInv, CardsInv, ReadInv, PassedInv, [Next]_vars
  PROVE  PassedInv'
<1>1. CASE \/ \E F \in Filters, open \in BOOLEAN : WriteDatacard(F, open)
           \/ FillHistMappings \/ WriteObservations \/ WriteProcesses
           \/ NumberBackground \/ NumberSignal \/ WriteRates
           \/ (\E n \in todo : WriteNuisance(n)) \/ WriteTail \/ EndParse \/ Return
  <2>1. pc' # "parse"
    BY <1>1 DEF WriteDatacard, FillHistMappings, WriteObservations, WriteProcesses,
         NumberBackground, NumberSignal, WriteRates, WriteNuisance, WriteTail, EndParse, Return,
         Throw
  <2> QED BY <2>1 DEF PassedInv
<1>2. CASE \E F \in complete, m \in Masses : ParseDatacard(F, m)
  <2>1. columns' = <<>> /\ i' = 1
    BY <1>2 DEF ParseDatacard
  <2> QED BY <2>1 DEF PassedInv, RatePos
<1>3. CASE ReadShapes \/ ReadObservations \/ ReadRates \/ Ignored \/ ReadParam
           \/ ReadNuisance \/ ReadRateParam \/ ReadFreeze \/ ReadAutoMCStats \/ ReadGroup
  <2>1. /\ pc = "parse" /\ (pc' = "parse" => i' = i + 1)
        /\ UNCHANGED <<cb, key, text>>
        /\ i <= Len(text[key])
    BY <1>3 DEF ReadShapes, ReadObservations, ReadRates, Ignored, ReadParam,
         ReadNuisance, ReadRateParam, ReadFreeze, ReadAutoMCStats, ReadGroup,
         Scanning, Reading, Skip, Fail, Rest, writer, disk
  <2> DEFINE t == text[key]
             k == t[i].kind
  <2>2. Card(t, Source) /\ i \in 1..Len(t) /\ Source' = Source
    BY <2>1, ParsedCard DEF ReadInv, Source
  <2>3. k = "rate" <=> i = RatePos(Source)
    BY <2>2, LinePlace
  <2>4. RatePos(Source) \in Nat /\ i \in Nat
    BY <2>2 DEF RatePos
  <2>5. columns = IF i > RatePos(Source) THEN t[RatePos(Source)].columns ELSE <<>>
    BY <2>1 DEF PassedInv
  <2>6. SUFFICES ASSUME pc' = "parse"
        PROVE  columns' = IF i + 1 > RatePos(Source) THEN t[RatePos(Source)].columns ELSE <<>>
    BY <2>1, <2>2 DEF PassedInv
  <2>7. CASE ReadRates
    <3>1. k = "rate" /\ columns' = t[i].columns
      BY <2>6, <2>7 DEF ReadRates, Reading, Line, Fail
    <3> HIDE DEF t, k
    <3> QED BY <2>3, <2>4, <3>1
  <2>8. CASE ~ReadRates
    <3>1. k # "rate" /\ columns' = columns
      BY <1>3, <2>8 DEF ReadShapes, ReadObservations, Ignored, ReadParam,
         ReadNuisance, ReadRateParam, ReadFreeze, ReadAutoMCStats, ReadGroup,
         Scanning, Reading, Line
    <3> HIDE DEF t, k
    <3> QED BY <2>3, <2>4, <2>5, <3>1
  <2> QED BY <2>7, <2>8
<1>4. CASE UNCHANGED vars
  BY <1>4 DEF vars, disk, writer, reader, PassedInv, Source
<1> QED BY <1>1, <1>2, <1>3, <1>4 DEF Next

ParsingInv == BackInv /\ HistsInv /\ LinesInv /\ PassedInv

LEMMA ParsingHolds == Spec => []ParsingInv
<1>1. Init => ParsingInv
  <2>1. Init => PassedInv
    BY DEF Init, PassedInv
  <2> QED BY InitIds, InitTypes, InitCards, InitRead, InitRoot, InitHists, InitLines, <2>1
          DEF ParsingInv, BackInv, ReadingInv
<1>2. ParsingInv /\ [Next]_vars => ParsingInv'
  BY NextIds, NextTypes, NextCards, NextRead, NextRoot, NextColumns, NextHists, NextLines,
     NextPassed DEF ParsingInv, BackInv, ReadingInv
<1> QED BY <1>1, <1>2, PTL DEF Spec

\* What is known of the card that is parsed.
LEMMA SourceKnown ==
  ASSUME ParsingInv, pc = "parse", Faithful
  PROVE  /\ cb \in Inputs /\ RootInv /\ OnePath(cb) /\ Expressible(Source)
         /\ hist_mapping = Mappings(Source) /\ CardStored(DOMAIN root, Source)
         /\ \A q \in ToSet(Source.procs) : q.mass \in {mass, "*"}
         /\ Finished(text[key], Source) /\ Card(text[key], Source)
         /\ IsSeq(Source.obs) /\ IsSeq(Source.procs) /\ IsSeq(Source.systs)
         /\ Source = Select(cb, key) /\ i \in Nat \ {0}
  BY ParsedCard DEF ParsingInv, BackInv, ReadingInv, TypesInv, ColumnsInv, HistsInv, LinesInv, ReadInv,
     Faithful, Source

\* The columns when a line of the tail is read.
LEMMA ColumnsKnown ==
  ASSUME ParsingInv, pc = "parse", i <= Len(text[key]), Line.kind \in TailKinds
  PROVE  RateFits(text[key][RatePos(Source)], Source)
         /\ columns = text[key][RatePos(Source)].columns /\ i > RatePos(Source)
<1>1. Card(text[key], Source) /\ i \in 1..Len(text[key])
  BY ParsedCard DEF ParsingInv, BackInv, ReadingInv, ReadInv, Source
<1>2. i > RatePos(Source)
  BY <1>1, LinePlace DEF Line
<1> QED BY <1>1, <1>2 DEF Card, ParsingInv, PassedInv

LEMMA DataAreRead ==
  ASSUME ParsingInv, Faithful, ReadObservations
  PROVE  pc' = "parse"
<1> DEFINE t == text[key]
           C == Source
           b == Line.bins
           loaded == [k \in DOMAIN b |-> LoadShapes(b[k], <<"data_obs">>, <<b[k], <<"data_obs">>, "*">>)]
           n == Good(Len(b), loaded)
<1>1. /\ pc = "parse" /\ i <= Len(t) /\ t[i].kind = "observation"
      /\ n = Len(b) => pc' = "parse"
  BY DEF ReadObservations, Reading, Skip, Line
<1>2. /\ cb \in Inputs /\ RootInv /\ OnePath(cb) /\ Expressible(C)
      /\ hist_mapping = Mappings(C) /\ CardStored(DOMAIN root, C)
      /\ Card(t, C) /\ IsSeq(C.obs) /\ C = Select(cb, key) /\ i \in 1..Len(t)
  BY <1>1, SourceKnown
<1>3. t[i] = ObservationLine(C)
  <2> HIDE DEF t, C
  <2> QED BY <1>1, <1>2, LinePlace
<1>4. Len(C.obs) \in Nat /\ DOMAIN C.obs = 1..Len(C.obs)
  BY <1>2, SeqDomain
<1>5. b = [k \in DOMAIN C.obs |-> C.obs[k].bin]
  BY <1>3 DEF Line, ObservationLine
<1>6. Len(b) = Len(C.obs) /\ DOMAIN b = 1..Len(b)
  <2>1. b = [k \in 1..Len(C.obs) |-> b[k]]
    BY <1>4, <1>5
  <2> HIDE DEF b
  <2> QED BY <1>4, <2>1, FunIsSeq
<1>7. ASSUME NEW k \in 1..Len(b) PROVE loaded[k].ok
  <2> DEFINE o == C.obs[k]
             q == DataObs(o)
             l == LoadShapes(o.bin, <<"data_obs">>, Ident(q))
             R == ResolveMapping(Mappings(C), q.process, q.bin)
             m == Mapping(<<"*">>, o.bin, IF o.hist THEN "$PROCESS" ELSE "FAKE")
  <2>1. k \in DOMAIN C.obs /\ k \in DOMAIN b /\ b[k] = o.bin
    BY <1>4, <1>5, <1>6
  <2>2. o \in ToSet(cb.obs) /\ q \in ToSet(Data(C))
    <3>1. o \in ToSet(C.obs) /\ C.obs = cb.obs
      BY <1>2, <2>1, SelectParts DEF ToSet
    <3>2. q \in ToSet(Data(C))
      BY <2>1 DEF Data, ToSet
    <3> QED BY <3>1, <3>2
  <2>3. Ident(q) = <<b[k], <<"data_obs">>, "*">>
    BY <2>1 DEF Ident, DataObs
  <2>4. loaded[k] = l
    BY <2>1, <2>3
  <2>5. q.process = <<"data_obs">> /\ q.bin = o.bin /\ q.hist = o.hist /\ q.signal = FALSE
    BY DEF DataObs
  <2>6. ASSUME o.hist PROVE Paths(C, q, <<>>) = {OwnPath(q)}
    <3>1. ResolveMapping(Mappings(C), <<"data_obs">>, o.bin) = {m}
      <4> HIDE DEF o
      <4> QED BY <1>2, <2>2, DataRule
    <3>2. R = {m}
      BY <2>5, <3>1
    <3>3. m.rule = "$PROCESS"
      BY <2>6 DEF Mapping
    <3> HIDE DEF m, q, C, R
    <3>4. Path(m, q.bin, q.process, q.mass, <<>>) = OwnPath(q)
      BY <2>5, <3>3 DEF Path, OwnPath, Own_
    <3>5. Paths(C, q, <<>>) = {Path(x, q.bin, q.process, q.mass, <<>>) : x \in R}
      BY Zenon DEF Paths, R
    <3> QED BY <3>2, <3>4, <3>5
  <2>7. o.hist => OwnPath(q) \in DOMAIN root
    <3>1. o.hist => Paths(C, q, <<>>) \subseteq DOMAIN root
      BY <1>2, <2>2, <2>5 DEF CardStored, DataStored
    <3> HIDE DEF q, o, C
    <3> QED BY <2>6, <3>1
  <2>8. l.ok <=> (o.hist => OwnPath(q) \in DOMAIN root)
    <3> HIDE DEF o
    <3> QED BY <1>2, <2>2, ReadData
  <2> HIDE DEF l, loaded, o
  <2> QED BY <2>4, <2>7, <2>8
<1> HIDE DEF loaded, b
<1>8. n = Len(b)
  BY <1>4, <1>6, <1>7, GoodPart
<1> QED BY <1>1, <1>8

LEMMA RatesAreRead ==
  ASSUME ParsingInv, Faithful, ReadRates
  PROVE  pc' = "parse"
<1> DEFINE t == text[key]
           C == Source
           c == Line.columns
           loaded == [k \in DOMAIN c |-> LoadShapes(c[k].bin, c[k].process, c[k].from)]
           n == Good(Len(c), loaded)
<1>1. /\ pc = "parse" /\ i <= Len(t) /\ t[i].kind = "rate"
      /\ n = Len(c) => pc' = "parse"
  BY DEF ReadRates, Reading, Skip, Line
<1>2. /\ cb \in Inputs /\ RootInv /\ OnePath(cb) /\ Expressible(C)
      /\ hist_mapping = Mappings(C) /\ CardStored(DOMAIN root, C)
      /\ \A q \in ToSet(C.procs) : q.mass \in {mass, "*"}
      /\ Card(t, C) /\ IsSeq(C.procs) /\ C = Select(cb, key) /\ i \in 1..Len(t)
  BY <1>1, SourceKnown
<1>3. i = RatePos(C)
  <2> HIDE DEF t, C
  <2> QED BY <1>1, <1>2, LinePlace
<1>4. IsSeq(c) /\ DOMAIN c = DOMAIN C.procs
      /\ \A k \in DOMAIN C.procs :
           /\ c[k].bin = C.procs[k].bin /\ c[k].process = C.procs[k].process
           /\ c[k].from = Ident(C.procs[k])
  BY <1>2, <1>3 DEF Line, Card, RateFits
<1> HIDE DEF c
<1>5. Len(c) \in Nat /\ DOMAIN c = 1..Len(c)
  BY <1>4, SeqDomain
<1>6. ASSUME NEW k \in 1..Len(c) PROVE loaded[k].ok
  <2> DEFINE q == C.procs[k]
             l == LoadShapes(q.bin, q.process, Ident(q))
  <2>1. k \in DOMAIN c /\ k \in DOMAIN C.procs
    BY <1>4, <1>5
  <2>2. loaded[k] = l
    BY <1>4, <2>1
  <2>3. q \in ToSet(C.procs)
    BY <2>1 DEF ToSet
  <2>4. q.mass \in {mass, "*"}
    BY <1>2, <2>3
  <2>5. l.ok <=> (q.hist => OwnPath(q) \in DOMAIN root)
    BY <1>2, <2>1, <2>4, ReadColumn
  <2>6. ASSUME q.hist PROVE Paths(C, q, <<>>) = {OwnPath(q)}
    BY <1>2, <2>1, <2>6, ColumnPaths
  <2>7. q.hist => Paths(C, q, <<>>) \subseteq DOMAIN root
    BY <1>2, <2>3 DEF CardStored, ColumnsStored
  <2> HIDE DEF q, l, C, loaded
  <2> QED BY <2>2, <2>5, <2>6, <2>7
<1> HIDE DEF loaded
<1>7. n = Len(c)
  BY <1>5, <1>6, GoodPart
<1> QED BY <1>1, <1>7

\* A line of a nuisance is read to its end: its entries read back as those that
\* were written, and its parameter is created if it has any.
LEMMA NuisanceIsRead ==
  ASSUME ParsingInv, Faithful, ReadNuisance
  PROVE  /\ pc' = "parse" /\ i' = i + 1
         /\ \E n \in Lined(Source) : \E t :
              /\ Line = NuisanceLine(Source, n) /\ IsSeq(t)
              /\ ToSet(t) = {NuisanceBack(LastSeen(Source, n, k)) :
                               k \in {l \in DOMAIN Source.procs : Seen(Source, n, l) # {}}}
              /\ read'.systs = read.systs \o t
              /\ read'.params = IF ToSet(t) = {} THEN read.params ELSE Created(n, Line.type)
<1> DEFINE C == Source
           at == [k \in DOMAIN columns |-> k]
           M == {k \in DOMAIN columns : Line.entries[k] # <<>>}
           K == Kept(at, M)
           loaded == [j \in DOMAIN K |-> LoadEntry(K[j])]
           m == Good(Len(K), loaded)
           t == [j \in 1..m |-> Entry(columns[K[j]], Line.name, TypeRead(loaded[j].hist),
                                      loaded[j].hist, loaded[j].from)]
           seen(n) == {l \in DOMAIN C.procs : Seen(C, n, l) # {}}
<1>1. /\ pc = "parse" /\ i <= Len(text[key]) /\ Line.kind = "nuisance"
      /\ read' = [read EXCEPT !.systs = @ \o t,
                              !.params = IF m = 0 THEN @ ELSE Created(Line.name, Line.type)]
      /\ m = Len(K) => pc' = "parse" /\ i' = i + 1
  BY DEF ReadNuisance, Scanning, Reading, Skip
<1>2. /\ cb \in Inputs /\ RootInv /\ OnePath(cb) /\ Expressible(C)
      /\ hist_mapping = Mappings(C) /\ CardStored(DOMAIN root, C)
      /\ \A q \in ToSet(C.procs) : q.mass \in {mass, "*"}
      /\ Finished(text[key], C) /\ Card(text[key], C)
      /\ C = Select(cb, key) /\ IsSeq(C.procs) /\ i \in Nat \ {0}
  BY <1>1, SourceKnown
<1>3. RateFits(text[key][RatePos(C)], C) /\ columns = text[key][RatePos(C)].columns
  BY <1>1, ColumnsKnown DEF TailKinds
<1>4. /\ IsSeq(columns) /\ DOMAIN columns = DOMAIN C.procs
      /\ \A k \in DOMAIN C.procs :
           /\ columns[k].bin = C.procs[k].bin /\ columns[k].process = C.procs[k].process
           /\ (columns[k].id <= 0) <=> C.procs[k].signal
  BY <1>3 DEF RateFits
<1>5. PICK n \in Lined(C) : Line = NuisanceLine(C, n)
  <2>1. Line \in ToSet(text[key])
    <3>1. i \in DOMAIN text[key]
      BY <1>1, <1>2, SeqDomain DEF Card
    <3> QED BY <3>1 DEF Line, ToSet
  <2>2. Line \in Of(text[key], "nuisance")
    BY <1>1, <2>1 DEF Of
  <2> QED BY <1>2, <2>2 DEF Finished, Tells
<1>6. Line.name = n
  BY <1>5 DEF NuisanceLine
<1>7. M = seen(n)
  <2>1. \A k \in DOMAIN C.procs :
          Line.entries[k] = IF Seen(C, n, k) = {} THEN <<>> ELSE Ident(LastSeen(C, n, k))
    BY <1>5 DEF NuisanceLine
  <2>2. \A x : Ident(x) # <<>>
    BY DEF Ident
  <2> QED BY <1>4, <2>1, <2>2
<1>8. IsSeq(K) /\ ToSet(K) = M
  <2>1. Len(columns) \in Nat /\ DOMAIN columns = 1..Len(columns)
    BY <1>4, SeqDomain
  <2>2. at = [k \in 1..Len(columns) |-> at[k]] /\ DOMAIN at = DOMAIN columns
    BY <2>1
  <2>3. IsSeq(at) /\ M \in SUBSET DOMAIN at
    BY <2>1, <2>2, FunIsSeq
  <2>4. {at[k] : k \in M} = M
    OBVIOUS
  <2> HIDE DEF at, M
  <2> QED BY <2>3, <2>4, KeptSet
<1>9. Len(K) \in Nat /\ DOMAIN K = 1..Len(K)
  BY <1>8, SeqDomain
<1> HIDE DEF K, M
<1>10. ASSUME NEW j \in 1..Len(K)
       PROVE  /\ loaded[j].ok
              /\ Entry(columns[K[j]], Line.name, TypeRead(loaded[j].hist), loaded[j].hist,
                       loaded[j].from) = NuisanceBack(LastSeen(C, n, K[j]))
  <2> DEFINE k == K[j]
             l == LoadEntry(k)
  <2>1. k \in DOMAIN C.procs /\ Seen(C, n, k) # {}
    <3>1. k \in M
      BY <1>8, <1>9 DEF ToSet
    <3> QED BY <1>7, <3>1
  <2>2. C.procs[k].mass \in {mass, "*"}
    BY <1>2, <2>1 DEF ToSet
  <2>3. loaded[j] = l
    BY <1>9
  <2> HIDE DEF k
  <2>4. /\ l.ok
        /\ Entry(columns[k], Line.name, TypeRead(l.hist), l.hist, l.from) =
             NuisanceBack(LastSeen(C, n, k))
    <3>1. /\ columns[k].bin = C.procs[k].bin /\ columns[k].process = C.procs[k].process
          /\ (columns[k].id <= 0) <=> C.procs[k].signal
      BY <1>4, <2>1
    <3> QED BY <1>2, <1>5, <2>1, <2>2, <3>1, EntryRead
  <2> HIDE DEF l, loaded
  <2> QED BY <2>3, <2>4 DEF k
<1> HIDE DEF loaded, C
<1>11. m = Len(K)
  BY <1>9, <1>10, GoodPart
<1>12. \A j \in 1..m : t[j] = NuisanceBack(LastSeen(C, n, K[j]))
  BY <1>10, <1>11
<1>13. t = [j \in 1..m |-> t[j]]
  OBVIOUS
<1> HIDE DEF t, m
<1>14. IsSeq(t) /\ DOMAIN t = 1..m
  BY <1>9, <1>11, <1>13, FunIsSeq
<1>15. ToSet(t) = {NuisanceBack(LastSeen(C, n, k)) : k \in M}
  <2>1. ToSet(t) = {t[j] : j \in 1..m}
    BY <1>14 DEF ToSet
  <2>2. M = {K[j] : j \in 1..m}
    BY <1>8, <1>9, <1>11 DEF ToSet
  <2> QED BY <1>12, <2>1, <2>2
<1>16. ToSet(t) = {} <=> m = 0
  <2>1. ToSet(t) = {t[j] : j \in 1..m}
    BY <1>14 DEF ToSet
  <2>2. m \in Nat
    BY <1>9, <1>11
  <2>3. m # 0 => 1 \in 1..m
    BY <2>2
  <2> QED BY <2>1, <2>3
<1>17. /\ read'.systs = read.systs \o t
       /\ read'.params = IF m = 0 THEN read.params ELSE Created(n, Line.type)
  <2>1. Fields(read)
    BY DEF ParsingInv, BackInv, ReadingInv, ReadInv
  <2> QED BY <1>1, <1>6, <2>1 DEF Fields
<1>18. ToSet(t) = {NuisanceBack(LastSeen(Source, n, k)) :
                     k \in {l \in DOMAIN Source.procs : Seen(Source, n, l) # {}}}
  BY <1>7, <1>15, Zenon DEF C
<1>19. n \in Lined(Source) /\ Line = NuisanceLine(Source, n)
  BY <1>5 DEF C
<1>20. read'.params = IF ToSet(t) = {} THEN read.params ELSE Created(n, Line.type)
  BY <1>16, <1>17
<1>21. pc' = "parse" /\ i' = i + 1
  BY <1>1, <1>11
<1> QED BY <1>14, <1>17, <1>18, <1>19, <1>20, <1>21

\* A line that freezes a parameter is only there where a rateParam is frozen.
LEMMA FreezeKnown ==
  ASSUME ParsingInv, Faithful, ReadFreeze
  PROVE  ~NotFrozen
<1>1. pc = "parse" /\ i <= Len(text[key]) /\ Line.kind = "freeze"
  BY DEF ReadFreeze, Scanning, Reading
<1>2. /\ cb \in Inputs /\ Finished(text[key], Source) /\ Card(text[key], Source)
      /\ Source = Select(cb, key) /\ i \in Nat \ {0}
  BY <1>1, SourceKnown
<1>3. Line \in Of(text[key], "freeze")
  <2>1. i \in DOMAIN text[key]
    BY <1>1, <1>2, SeqDomain DEF Card
  <2> QED BY <1>1, <2>1 DEF Line, ToSet, Of
<1>4. PICK n \in rateparam_set(Source) : Source.params[n].frozen
  BY <1>2, <1>3 DEF Finished, FreezeLines
<1>5. n \in rateparam_set(cb) /\ Source.params = cb.params
  <2>1. Source.params = cb.params /\ ToSet(Source.systs) \subseteq ToSet(cb.systs)
    BY <1>2, SelectParts
  <2> QED BY <1>4, <2>1 DEF rateparam_set, Named
<1> QED BY <1>4, <1>5 DEF NotFrozen

\* A card that WriteDatacard has finished is parsed to its end: no observation,
\* rate or nuisance line throws, for every instance whose histograms have paths of
\* their own and whose cards can express them, whatever other cards are in the
\* root file; a frozen rateParam is the one exception (LoadShapes, ParseDatacard).
THEOREM CardsParse == Spec => WrittenCardsParse
<1>1. ASSUME ParsingInv, [Next]_vars
      PROVE  [pc = "parse" /\ pc' = "client" => ~(Faithful /\ NotFrozen)]_vars
  <2> SUFFICES ASSUME pc = "parse", pc' = "client", Faithful, NotFrozen PROVE FALSE
    OBVIOUS
  <2>1. CASE ReadObservations \/ ReadRates \/ ReadNuisance
    BY <1>1, <2>1, DataAreRead, RatesAreRead, NuisanceIsRead
  <2>2. CASE ReadFreeze
    BY <1>1, <2>2, FreezeKnown
  <2>3. CASE ~(ReadObservations \/ ReadRates \/ ReadNuisance \/ ReadFreeze)
    BY <1>1, <2>3 DEF Next, vars, WriteDatacard, FillHistMappings, WriteObservations, WriteProcesses,
       NumberBackground, NumberSignal, WriteRates, WriteNuisance, WriteTail, ParseDatacard,
       ReadShapes, Ignored, ReadParam, ReadRateParam, ReadAutoMCStats, ReadGroup,
       EndParse, Return, Scanning, Reading, Skip
  <2> QED BY <2>1, <2>2, <2>3
<1> QED BY <1>1, ParsingHolds, PTL DEF Spec, WrittenCardsParse

-----------------------------------------------------------------------------
(* Entries: what has been read of the lines before the current one.         *)
RateParamBack(n, q) ==
  [bin |-> q.bin, process |-> q.process, signal |-> q.signal, mass |-> mass,
   name |-> n, type |-> "rateParam", hist |-> FALSE, from |-> <<>>]
\* The systematics that are read of a line, and the groups.
EntriesOf(l) ==
  IF l.kind = "nuisance"
  THEN {NuisanceBack(LastSeen(Source, l.name, k)) :
          k \in {x \in DOMAIN Source.procs : Seen(Source, l.name, x) # {}}}
  ELSE IF l.kind = "rateParam"
  THEN {RateParamBack(l.name, q) :
          q \in {x \in ToSet(Source.procs) : l.bin \in {"*", x.bin} /\ l.process = x.process}}
  ELSE IF l.kind = "param" /\ Source.procs # <<>>
  THEN {Entry(NoColumn, l.name, "param", FALSE, <<>>)}
  ELSE {}
GroupsOf(l) ==
  IF l.kind = "group" /\ Source.procs # <<>> THEN {[name |-> l.name, members |-> l.members]} ELSE {}

Before == {text[key][j] : j \in {l \in 1..Len(text[key]) : l < i}}
EntriesInv ==
  pc \in {"parse", "parsed"} =>
    /\ IsSeq(base.systs) /\ (pc = "parsed" => i \in Nat /\ i > Len(text[key]))
    /\ groups = UNION {GroupsOf(l) : l \in Before}
    /\ Faithful => \E u : /\ IsSeq(u) /\ read.systs = base.systs \o u
                          /\ ToSet(u) = UNION {EntriesOf(l) : l \in Before}

\* Lines of the tail are read where there are columns, and ignored elsewhere.
LEMMA NoColumns ==
  ASSUME ParsingInv, pc = "parse", i <= Len(text[key]), Line.kind \in TailKinds
  PROVE  columns = <<>> <=> Source.procs = <<>>
<1>1. RateFits(text[key][RatePos(Source)], Source) /\ columns = text[key][RatePos(Source)].columns
  BY ColumnsKnown
<1>2. IsSeq(columns) /\ DOMAIN columns = DOMAIN Source.procs
  BY <1>1 DEF RateFits
<1>3. IsSeq(Source.procs)
  BY ParsedCard DEF ParsingInv, BackInv, ReadingInv, Source
<1>4. \A s : IsSeq(s) => (s = <<>> <=> DOMAIN s = {})
  <2> SUFFICES ASSUME NEW s, IsSeq(s) PROVE s = <<>> <=> DOMAIN s = {}
    OBVIOUS
  <2>1. Len(s) \in Nat /\ DOMAIN s = 1..Len(s) /\ s \in Seq(ToSet(s))
    BY SeqDomain DEF IsSeq
  <2>2. DOMAIN s = {} => Len(s) = 0
    BY <2>1
  <2>3. Len(s) = 0 => s = <<>>
    BY <2>1
  <2> QED BY <2>2, <2>3
<1> QED BY <1>2, <1>3, <1>4

LEMMA RateParamIsRead ==
  ASSUME ParsingInv, ReadRateParam
  PROVE  \E u : /\ IsSeq(u) /\ ToSet(u) = EntriesOf(Line) /\ read'.systs = read.systs \o u
                /\ read'.params = WithErr(Line.name, FALSE)
<1> DEFINE n == Line.name
           M == {k \in DOMAIN columns : /\ Line.bin \in {"*", columns[k].bin}
                                        /\ Line.process = columns[k].process}
           K == Kept(columns, M)
           u == [j \in DOMAIN K |-> Entry(K[j], n, "rateParam", FALSE, <<>>)]
           back == {RateParamBack(n, q) : q \in {x \in ToSet(Source.procs) :
                      Line.bin \in {"*", x.bin} /\ Line.process = x.process}}
<1>1. /\ pc = "parse" /\ i <= Len(text[key]) /\ Line.kind = "rateParam"
      /\ read' = [read EXCEPT !.params = WithErr(n, FALSE), !.systs = @ \o u]
  BY DEF ReadRateParam, Scanning, Reading
<1>2. RateFits(text[key][RatePos(Source)], Source) /\ columns = text[key][RatePos(Source)].columns
  BY <1>1, ColumnsKnown DEF TailKinds
<1>3. /\ IsSeq(columns) /\ DOMAIN columns = DOMAIN Source.procs
      /\ \A k \in DOMAIN Source.procs :
           /\ columns[k].bin = Source.procs[k].bin /\ columns[k].process = Source.procs[k].process
           /\ (columns[k].id <= 0) <=> Source.procs[k].signal
  BY <1>2 DEF RateFits
<1>4. \A k \in DOMAIN Source.procs : Source.procs[k].signal \in BOOLEAN
  <2>1. cb \in Inputs /\ Source = Select(cb, key)
    BY DEF ParsingInv, BackInv, ReadingInv, TypesInv, Source
  <2>2. ToSet(Source.procs) \subseteq ToSet(cb.procs)
    BY <2>1, SelectParts
  <2>3. ToSet(cb.procs) \subseteq Process
    BY <2>1, InputsAssumption, SeqIsSeq
  <2>4. \A k \in DOMAIN Source.procs : Source.procs[k] \in Process
    BY <2>2, <2>3 DEF ToSet
  <2> QED BY <2>4 DEF Process
<1>5. \A k \in DOMAIN columns :
        Entry(columns[k], n, "rateParam", FALSE, <<>>) = RateParamBack(n, Source.procs[k])
  <2> SUFFICES ASSUME NEW k \in DOMAIN columns
               PROVE  Entry(columns[k], n, "rateParam", FALSE, <<>>) = RateParamBack(n, Source.procs[k])
    OBVIOUS
  <2>1. (columns[k].id <= 0) = Source.procs[k].signal
    BY <1>3, <1>4
  <2> QED BY <1>3, <2>1 DEF Entry, RateParamBack
<1>6. IsSeq(K) /\ ToSet(K) = {columns[k] : k \in M}
  <2>1. M \in SUBSET DOMAIN columns
    OBVIOUS
  <2> HIDE DEF M
  <2> QED BY <1>3, <2>1, KeptSet
<1>7. back = {RateParamBack(n, Source.procs[k]) : k \in M}
  <2> HIDE DEF n
  <2> QED BY <1>3 DEF ToSet
<1> HIDE DEF K, M
<1>8. DOMAIN K = 1..Len(K) /\ Len(K) \in Nat
  BY <1>6, SeqDomain
<1>9. u = [j \in 1..Len(K) |-> u[j]]
  BY <1>8
<1>10. IsSeq(u) /\ DOMAIN u = DOMAIN K
  <2> HIDE DEF u
  <2> QED BY <1>8, <1>9, FunIsSeq
<1>11. ToSet(u) = {Entry(c, n, "rateParam", FALSE, <<>>) : c \in ToSet(K)}
  BY <1>10 DEF ToSet
<1>12. ToSet(u) = {Entry(columns[k], n, "rateParam", FALSE, <<>>) : k \in M}
  BY <1>6, <1>11
<1>13. ToSet(u) = back
  <2>1. M \subseteq DOMAIN columns
    BY DEF M
  <2> HIDE DEF u, n, back
  <2> QED BY <1>5, <1>7, <1>12, <2>1
<1>14. back = EntriesOf(Line)
  BY <1>1 DEF EntriesOf
<1>15. read'.systs = read.systs \o u /\ read'.params = WithErr(n, FALSE)
  <2>1. Fields(read)
    BY DEF ParsingInv, BackInv, ReadingInv, ReadInv
  <2> HIDE DEF u
  <2> QED BY <1>1, <2>1 DEF Fields
<1> HIDE DEF u
<1> QED BY <1>10, <1>13, <1>14, <1>15

\* What is read of a line.
LEMMA LineIsRead ==
  ASSUME ParsingInv, pc = "parse", pc' = "parse", Faithful, [Next]_vars, i' = i + 1
  PROVE  \E u : IsSeq(u) /\ ToSet(u) = EntriesOf(Line) /\ read'.systs = read.systs \o u
<1> DEFINE Some == \E u : IsSeq(u) /\ ToSet(u) = EntriesOf(Line) /\ read'.systs = read.systs \o u
<1>1. Fields(read) /\ IsSeq(read.systs) /\ i \in Nat
  BY DEF ParsingInv, BackInv, ReadingInv, ReadInv
<1>2. ASSUME read'.systs = read.systs, EntriesOf(Line) = {} PROVE Some
  <2>1. IsSeq(<<>>) /\ read.systs \o <<>> = read.systs /\ ToSet(<<>>) = {}
    BY <1>1, NothingAdded DEF ToSet
  <2> QED BY <1>2, <2>1
<1>3. CASE ReadNuisance
  <2>1. PICK n, t : /\ Line = NuisanceLine(Source, n) /\ IsSeq(t)
                    /\ ToSet(t) = {NuisanceBack(LastSeen(Source, n, k)) :
                                     k \in {l \in DOMAIN Source.procs : Seen(Source, n, l) # {}}}
                    /\ read'.systs = read.systs \o t
    BY <1>3, NuisanceIsRead
  <2>2. Line.kind = "nuisance" /\ Line.name = n
    BY <2>1 DEF NuisanceLine
  <2>3. EntriesOf(Line) = {NuisanceBack(LastSeen(Source, n, k)) :
                             k \in {l \in DOMAIN Source.procs : Seen(Source, n, l) # {}}}
    BY <2>2, Zenon DEF EntriesOf
  <2> QED BY <2>1, <2>3
<1>4. CASE ReadRateParam
  BY <1>4, RateParamIsRead
<1>5. CASE ReadParam
  <2> DEFINE e == Entry(NoColumn, Line.name, "param", FALSE, <<>>)
  <2>1. /\ pc = "parse" /\ i <= Len(text[key]) /\ Line.kind = "param" /\ columns # <<>>
        /\ read'.systs = Append(read.systs, e)
    BY <1>1, <1>5 DEF ReadParam, Scanning, Reading, Fields
  <2>2. Source.procs # <<>>
    BY <2>1, NoColumns DEF TailKinds
  <2>3. EntriesOf(Line) = {e}
    BY <2>1, <2>2 DEF EntriesOf
  <2> HIDE DEF e
  <2>4. Append(read.systs, e) = read.systs \o <<e>> /\ IsSeq(<<e>>)
    BY <1>1, ShortSeqs DEF IsSeq
  <2>5. ToSet(<<e>>) = {e}
    BY DEF ToSet
  <2> QED BY <2>1, <2>3, <2>4, <2>5
<1>6. CASE Ignored
  <2>1. /\ i <= Len(text[key]) /\ read' = read /\ columns = <<>>
        /\ Line.kind \notin {"shapes", "observation", "rate"}
    BY <1>6 DEF Ignored
  <2>2. Card(text[key], Source) /\ i \in 1..Len(text[key])
    BY <2>1, ParsedCard DEF ParsingInv, BackInv, ReadingInv, ReadInv, Source
  <2>3. Line.kind \in TailKinds
    BY <2>1, <2>2, LinePlace DEF Line
  <2>4. Source.procs = <<>>
    BY <2>1, <2>3, NoColumns
  <2>5. EntriesOf(Line) = {}
    BY <2>4 DEF EntriesOf, ToSet
  <2> QED BY <1>2, <2>1, <2>5
<1>7. CASE ReadShapes \/ ReadObservations \/ ReadRates \/ ReadFreeze \/ ReadAutoMCStats \/ ReadGroup
  <2>1. Line.kind \in {"shapes", "observation", "rate", "freeze", "autoMCStats", "group"}
    BY <1>7 DEF ReadShapes, ReadObservations, ReadRates, ReadFreeze, ReadAutoMCStats, ReadGroup,
       Scanning, Reading
  <2>2. EntriesOf(Line) = {}
    BY <2>1 DEF EntriesOf
  <2>3. read'.systs = read.systs
    BY <1>1, <1>7 DEF ReadShapes, ReadObservations, ReadRates, ReadFreeze, ReadAutoMCStats,
       ReadGroup, Fields
  <2> QED BY <1>2, <2>2, <2>3
<1>8. CASE ~(\/ ReadNuisance \/ ReadRateParam \/ ReadParam \/ Ignored \/ ReadShapes
             \/ ReadObservations \/ ReadRates \/ ReadFreeze \/ ReadAutoMCStats \/ ReadGroup)
  <2>1. pc # "parse" \/ pc' # "parse" \/ UNCHANGED vars
    BY <1>8 DEF Next, WriteDatacard, FillHistMappings, WriteObservations, WriteProcesses,
       NumberBackground, NumberSignal, WriteRates, WriteNuisance, WriteTail, ParseDatacard,
       EndParse, Return
  <2>2. i' = i
    BY <2>1 DEF vars, reader
  <2> QED BY <1>1, <2>2
<1> QED BY <1>3, <1>4, <1>5, <1>6, <1>7, <1>8

\* A step of ParseDatacard to the next line.
LEMMA StepsOn ==
  ASSUME ParsingInv, pc = "parse", pc' = "parse", [Next]_vars
  PROVE  \/ /\ i' = i + 1 /\ i \in 1..Len(text[key])
            /\ UNCHANGED <<cb, key, text, mass, base, parsed>>
            /\ groups' = groups \cup GroupsOf(Line)
         \/ UNCHANGED vars
<1>1. CASE ReadGroup
  <2>1. /\ i <= Len(text[key]) /\ Line.kind = "group" /\ columns # <<>> /\ i' = i + 1
        /\ UNCHANGED <<cb, key, text, mass, base, parsed>>
        /\ groups' = groups \cup {[name |-> Line.name, members |-> Line.members]}
    BY <1>1 DEF ReadGroup, Scanning, Reading, Skip, Rest, disk, writer
  <2>2. Source.procs # <<>>
    BY <2>1, NoColumns DEF TailKinds
  <2>3. GroupsOf(Line) = {[name |-> Line.name, members |-> Line.members]}
    BY <2>1, <2>2 DEF GroupsOf
  <2>4. i \in Nat \ {0} /\ Len(text[key]) \in Nat
    BY ParsedCard DEF ParsingInv, BackInv, ReadingInv, ReadInv
  <2> QED BY <2>1, <2>3, <2>4
<1>2. CASE Ignored
  <2>1. /\ i <= Len(text[key]) /\ columns = <<>> /\ i' = i + 1 /\ groups' = groups
        /\ Line.kind \notin {"shapes", "observation", "rate"}
        /\ UNCHANGED <<cb, key, text, mass, base, parsed>>
    BY <1>2 DEF Ignored, Skip, Rest, disk, writer
  <2>2. Card(text[key], Source) /\ i \in 1..Len(text[key])
    BY <2>1, ParsedCard DEF ParsingInv, BackInv, ReadingInv, ReadInv, Source
  <2>3. Line.kind \in TailKinds
    BY <2>1, <2>2, LinePlace DEF Line
  <2>4. Source.procs = <<>>
    BY <2>1, <2>3, NoColumns
  <2>5. GroupsOf(Line) = {}
    BY <2>4 DEF GroupsOf
  <2> QED BY <2>1, <2>2, <2>5
<1>3. CASE \/ ReadShapes \/ ReadObservations \/ ReadRates \/ ReadParam \/ ReadNuisance
           \/ ReadRateParam \/ ReadFreeze \/ ReadAutoMCStats
  <2>1. /\ i <= Len(text[key]) /\ i' = i + 1 /\ groups' = groups /\ Line.kind # "group"
        /\ UNCHANGED <<cb, key, text, mass, base, parsed>>
    BY <1>3 DEF ReadShapes, ReadObservations, ReadRates, ReadParam, ReadNuisance, ReadRateParam,
       ReadFreeze, ReadAutoMCStats, Scanning, Reading, Skip, Fail, Rest, disk, writer
  <2>2. GroupsOf(Line) = {}
    BY <2>1 DEF GroupsOf
  <2>3. i \in Nat \ {0} /\ Len(text[key]) \in Nat
    BY ParsedCard DEF ParsingInv, BackInv, ReadingInv, ReadInv
  <2> QED BY <2>1, <2>2, <2>3
<1>4. CASE ~(\/ ReadNuisance \/ ReadRateParam \/ ReadParam \/ Ignored \/ ReadShapes
             \/ ReadObservations \/ ReadRates \/ ReadFreeze \/ ReadAutoMCStats \/ ReadGroup)
  BY <1>4 DEF Next, WriteDatacard, FillHistMappings, WriteObservations, WriteProcesses,
       NumberBackground, NumberSignal, WriteRates, WriteNuisance, WriteTail, ParseDatacard,
       EndParse, Return
<1> QED BY <1>1, <1>2, <1>3, <1>4

\* When nothing changes that EntriesInv and ParamsInv look at but the line.
LEMMA SameSource ==
  ASSUME UNCHANGED <<cb, key, mass, parsed>>
  PROVE  /\ Source' = Source /\ Faithful' = Faithful
         /\ \A l : EntriesOf(l)' = EntriesOf(l) /\ GroupsOf(l)' = GroupsOf(l)
<1>1. Source' = Source /\ Faithful' = Faithful
  BY DEF Source, Faithful
<1>2. \A l : EntriesOf(l)' = EntriesOf(l) /\ GroupsOf(l)' = GroupsOf(l)
  BY <1>1 DEF EntriesOf, GroupsOf, NuisanceBack, RateParamBack, Entry
<1> QED BY <1>1, <1>2

LEMMA NextBefore ==
  ASSUME i \in 1..Len(text[key]), i' = i + 1, UNCHANGED <<key, text>>, Len(text[key]) \in Nat
  PROVE  Before' = Before \cup {Line}
<1> DEFINE t == text[key]
           D == {l \in 1..Len(t) : l < i}
<1>1. {l \in 1..Len(t) : l < i + 1} = D \cup {i}
  OBVIOUS
<1>2. Before' = {t[j] : j \in {l \in 1..Len(t) : l < i + 1}} /\ Before = {t[j] : j \in D}
  BY DEF Before
<1> HIDE DEF D
<1> QED BY <1>1, <1>2 DEF Line

LEMMA InitEntries == Init => EntriesInv
  BY DEF Init, EntriesInv

LEMMA NextEntries ==
  ASSUME ParsingInv, EntriesInv, [Next]_vars
  PROVE  EntriesInv'
<1>1. Fields(read) /\ IsSeq(read.systs)
  BY DEF ParsingInv, BackInv, ReadingInv, ReadInv
<1>2. CASE pc' \notin {"parse", "parsed"}
  BY <1>2 DEF EntriesInv
<1>3. CASE pc = "parse" /\ pc' = "parse" /\ ~UNCHANGED vars
  <2>1. /\ i' = i + 1 /\ i \in 1..Len(text[key])
        /\ UNCHANGED <<cb, key, text, mass, base, parsed>>
        /\ groups' = groups \cup GroupsOf(Line)
    BY <1>3, StepsOn
  <2>2. Len(text[key]) \in Nat
    BY <1>3, ParsedCard DEF ParsingInv, BackInv, ReadingInv
  <2>3. Before' = Before \cup {Line}
    BY <2>1, <2>2, NextBefore
  <2>4. /\ Source' = Source /\ Faithful' = Faithful
        /\ \A l : EntriesOf(l)' = EntriesOf(l) /\ GroupsOf(l)' = GroupsOf(l)
    BY <2>1, SameSource
  <2>5. UNION {GroupsOf(l) : l \in Before \cup {Line}} =
          (UNION {GroupsOf(l) : l \in Before}) \cup GroupsOf(Line)
    OBVIOUS
  <2>6. groups' = UNION {GroupsOf(l)' : l \in Before'}
    BY <1>3, <2>1, <2>3, <2>4, <2>5 DEF EntriesInv
  <2>7. ASSUME Faithful
        PROVE  \E u : /\ IsSeq(u) /\ read'.systs = base.systs \o u
                      /\ ToSet(u) = UNION {EntriesOf(l)' : l \in Before'}
    <3>1. PICK u : /\ IsSeq(u) /\ read.systs = base.systs \o u
                   /\ ToSet(u) = UNION {EntriesOf(l) : l \in Before}
      BY <1>3, <2>7 DEF EntriesInv
    <3>2. PICK v : IsSeq(v) /\ ToSet(v) = EntriesOf(Line) /\ read'.systs = read.systs \o v
      BY <1>3, <2>1, <2>7, LineIsRead
    <3>3. IsSeq(base.systs)
      BY <1>3 DEF EntriesInv
    <3>4. IsSeq(u \o v) /\ ToSet(u \o v) = ToSet(u) \cup ToSet(v)
      BY <3>1, <3>2, Concat
    <3>5. read'.systs = base.systs \o (u \o v)
      <4> DEFINE b == base.systs
      <4>1. IsSeq(b) /\ IsSeq(u) /\ IsSeq(v) /\ read'.systs = (b \o u) \o v
        BY <3>1, <3>2, <3>3
      <4> HIDE DEF b
      <4>2. (b \o u) \o v = b \o (u \o v)
        BY <4>1, ConcatAssociative
      <4>3. read'.systs = b \o (u \o v)
        BY <4>1, <4>2
      <4> QED BY <4>3 DEF b
    <3>6. UNION {EntriesOf(l) : l \in Before \cup {Line}} =
            (UNION {EntriesOf(l) : l \in Before}) \cup EntriesOf(Line)
      OBVIOUS
    <3>7. ToSet(u \o v) = UNION {EntriesOf(l)' : l \in Before'}
      BY <2>3, <2>4, <3>1, <3>2, <3>4, <3>6
    <3> QED BY <3>4, <3>5, <3>7
  <2>8. base' = base /\ pc' = "parse" /\ IsSeq(base.systs)
    BY <1>3, <2>1 DEF EntriesInv
  <2> QED BY <2>4, <2>6, <2>7, <2>8 DEF EntriesInv
<1>4. CASE EndParse
  <2>1. /\ pc = "parse" /\ pc' = "parsed" /\ i > Len(text[key])
        /\ read' = [read EXCEPT !.params = GroupsSet(@)]
        /\ UNCHANGED <<cb, key, text, i, mass, base, parsed, groups>>
    BY <1>4 DEF EndParse, disk, writer, reader
  <2>2. read'.systs = read.systs /\ i \in Nat
    BY <1>1, <2>1 DEF Fields, ParsingInv, BackInv, ReadingInv, ReadInv
  <2>3. /\ Source' = Source /\ Faithful' = Faithful
        /\ \A l : EntriesOf(l)' = EntriesOf(l) /\ GroupsOf(l)' = GroupsOf(l)
    BY <2>1, SameSource
  <2>4. Before' = Before
    BY <2>1 DEF Before
  <2> QED BY <2>1, <2>2, <2>3, <2>4 DEF EntriesInv
<1>5. CASE \E F \in complete, m \in Masses : ParseDatacard(F, m)
  <2>1. i' = 1 /\ groups' = {} /\ base' = read /\ read' = read /\ pc' = "parse"
    BY <1>5 DEF ParseDatacard
  <2>2. Before' = {}
    BY <2>1 DEF Before
  <2>3. IsSeq(<<>>) /\ read.systs \o <<>> = read.systs /\ ToSet(<<>>) = {}
    BY <1>1, NothingAdded DEF ToSet
  <2>4. UNION {GroupsOf(l)' : l \in Before'} = {} /\ UNION {EntriesOf(l)' : l \in Before'} = {}
    BY <2>2
  <2>5. \E u : IsSeq(u) /\ read'.systs = base'.systs \o u /\ ToSet(u) = UNION {EntriesOf(l)' : l \in Before'}
    BY <2>1, <2>3, <2>4
  <2> QED BY <1>1, <2>1, <2>4, <2>5 DEF EntriesInv
<1>6. CASE UNCHANGED vars
  <2>1. UNCHANGED <<cb, key, text, i, mass, base, parsed, groups, pc, read>>
    BY <1>6 DEF vars, disk, writer, reader
  <2>2. /\ Source' = Source /\ Faithful' = Faithful
        /\ \A l : EntriesOf(l)' = EntriesOf(l) /\ GroupsOf(l)' = GroupsOf(l)
    BY <2>1, SameSource
  <2>3. Before' = Before
    BY <2>1 DEF Before
  <2> QED BY <2>1, <2>2, <2>3 DEF EntriesInv
<1>7. CASE /\ pc' \in {"parse", "parsed"} /\ ~EndParse /\ ~UNCHANGED vars
           /\ ~(\E F \in complete, m \in Masses : ParseDatacard(F, m))
  <2>1. pc = "parse" /\ pc' = "parse"
    BY <1>7 DEF Next, WriteDatacard, FillHistMappings, WriteObservations, WriteProcesses,
       NumberBackground, NumberSignal, WriteRates, WriteNuisance, WriteTail, Return, Throw,
       ReadShapes, ReadObservations, ReadRates, Ignored, ReadParam, ReadNuisance,
       ReadRateParam, ReadFreeze, ReadAutoMCStats, ReadGroup, Scanning, Reading, Skip, Fail
  <2> QED BY <1>3, <1>7, <2>1
<1> QED BY <1>2, <1>4, <1>5, <1>6, <1>7

-----------------------------------------------------------------------------
(* Parameters: each has the errors of the instance and none but its groups. *)
ParamRecord(v) == v = [err |-> v.err, frozen |-> v.frozen, groups |-> v.groups]
RecordsInv == \A n \in DOMAIN read.params : ParamRecord(read.params[n])
\* Of a parameter with a "param" and a rateParam line the first one gives it errors
\* and the last one takes them away.
Later(n) ==
  /\ pc = "parse" /\ columns # <<>>
  /\ \E j \in 1..Len(text[key]) :
       j >= i /\ text[key][j].kind = "rateParam" /\ text[key][j].name = n
ParamsInv ==
  /\ Faithful => \A n \in DOMAIN read.params :
       /\ read.params[n].groups \subseteq cb.params[n].groups
       /\ read.params[n].err = cb.params[n].err \/ Later(n)
  /\ pc = "parsed" /\ Faithful /\ Source.procs # <<>> =>
       \A n \in sys_set(Source) \cap DOMAIN read.params :
         cb.params[n].err => cb.params[n].groups \subseteq read.params[n].groups

\* What SetupRateParamVar and CreateParameterIfEmpty leave of the parameters.
LEMMA WithErrParam ==
  ASSUME RecordsInv, NEW n, NEW err
  PROVE  /\ \A x \in DOMAIN WithErr(n, err) : ParamRecord(WithErr(n, err)[x])
         /\ DOMAIN WithErr(n, err) = DOMAIN read.params \cup {n}
         /\ WithErr(n, err)[n].err = err
         /\ WithErr(n, err)[n].groups = IF n \in DOMAIN read.params THEN read.params[n].groups ELSE {}
         /\ \A x \in DOMAIN read.params : x # n => WithErr(n, err)[x] = read.params[x]
<1> DEFINE v == IF n \in DOMAIN read.params THEN [read.params[n] EXCEPT !.err = err] ELSE Param(err)
           w == WithErr(n, err)
<1>1. w = [x \in DOMAIN read.params \cup {n} |-> IF x = n THEN v ELSE read.params[x]]
  BY DEF WithErr, SetParam
<1>2. v.err = err /\ v.groups = (IF n \in DOMAIN read.params THEN read.params[n].groups ELSE {})
      /\ ParamRecord(v)
  <2>1. CASE n \in DOMAIN read.params
    <3> DEFINE r == read.params[n]
    <3>1. r = [err |-> r.err, frozen |-> r.frozen, groups |-> r.groups]
      BY <2>1 DEF RecordsInv, ParamRecord
    <3>2. v = [r EXCEPT !.err = err]
      BY <2>1
    <3> HIDE DEF r, v
    <3>3. v = [err |-> err, frozen |-> r.frozen, groups |-> r.groups]
      BY <3>1, <3>2
    <3>4. v.err = err /\ v.groups = r.groups /\ ParamRecord(v)
      BY <3>3 DEF ParamRecord
    <3> QED BY <2>1, <3>4 DEF r
  <2>2. CASE n \notin DOMAIN read.params
    <3>1. v = [err |-> err, frozen |-> FALSE, groups |-> {}]
      BY <2>2 DEF Param
    <3> HIDE DEF v
    <3>2. v.err = err /\ v.groups = {} /\ ParamRecord(v)
      BY <3>1 DEF ParamRecord
    <3> QED BY <2>2, <3>2
  <2> QED BY <2>1, <2>2
<1> HIDE DEF v, w
<1>3. DOMAIN w = DOMAIN read.params \cup {n} /\ w[n] = v
      /\ \A x \in DOMAIN read.params : x # n => w[x] = read.params[x]
  BY <1>1
<1>4. \A x \in DOMAIN w : ParamRecord(w[x])
  <2> SUFFICES ASSUME NEW x \in DOMAIN w PROVE ParamRecord(w[x])
    OBVIOUS
  <2>1. CASE x = n
    BY <1>2, <1>3, <2>1
  <2>2. CASE x # n
    <3>1. w[x] = read.params[x] /\ x \in DOMAIN read.params
      BY <1>3, <2>2
    <3> QED BY <3>1 DEF RecordsInv
  <2> QED BY <2>1, <2>2
<1> QED BY <1>2, <1>3, <1>4 DEF w

LEMMA CreatedParam ==
  ASSUME RecordsInv, NEW n, NEW type
  PROVE  /\ \A x \in DOMAIN Created(n, type) : ParamRecord(Created(n, type)[x])
         /\ DOMAIN Created(n, type) = DOMAIN read.params \cup {n}
         /\ Created(n, type)[n].err = IF type \in {"lnU", "shapeU"} THEN FALSE
                                      ELSE IF n \in DOMAIN read.params THEN read.params[n].err ELSE TRUE
         /\ Created(n, type)[n].groups = IF n \in DOMAIN read.params THEN read.params[n].groups ELSE {}
         /\ \A x \in DOMAIN read.params : x # n => Created(n, type)[x] = read.params[x]
<1> DEFINE w == Created(n, type)
<1>1. CASE type \in {"lnU", "shapeU"}
  <2> DEFINE e == FALSE
             v == WithErr(n, e)
  <2>1. w = v /\ e = FALSE
    BY <1>1 DEF Created
  <2> HIDE DEF e
  <2>2. /\ \A x \in DOMAIN v : ParamRecord(v[x])
        /\ DOMAIN v = DOMAIN read.params \cup {n} /\ v[n].err = e
        /\ v[n].groups = IF n \in DOMAIN read.params THEN read.params[n].groups ELSE {}
        /\ \A x \in DOMAIN read.params : x # n => v[x] = read.params[x]
    <3>1. \A x \in DOMAIN v : ParamRecord(v[x])
      BY WithErrParam
    <3>2. DOMAIN v = DOMAIN read.params \cup {n} /\ v[n].err = e
      BY WithErrParam
    <3>3. v[n].groups = IF n \in DOMAIN read.params THEN read.params[n].groups ELSE {}
      BY WithErrParam
    <3>4. \A x \in DOMAIN read.params : x # n => v[x] = read.params[x]
      BY DEF WithErr, SetParam
    <3> QED BY <3>1, <3>2, <3>3, <3>4
  <2> HIDE DEF v, w
  <2>3. w[n].err = FALSE
    BY <2>1, <2>2
  <2> QED BY <1>1, <2>1, <2>2, <2>3 DEF w
<1>2. CASE type \notin {"lnU", "shapeU"} /\ n \in DOMAIN read.params
  <2>1. Created(n, type) = read.params
    BY <1>2 DEF Created
  <2> QED BY <1>2, <2>1 DEF RecordsInv
<1>3. CASE type \notin {"lnU", "shapeU"} /\ n \notin DOMAIN read.params
  <2> DEFINE e == TRUE
             v == WithErr(n, e)
  <2>1. w = v /\ e = TRUE
    BY <1>3 DEF Created, WithErr
  <2> HIDE DEF e
  <2>2. /\ \A x \in DOMAIN v : ParamRecord(v[x])
        /\ DOMAIN v = DOMAIN read.params \cup {n} /\ v[n].err = e
        /\ v[n].groups = IF n \in DOMAIN read.params THEN read.params[n].groups ELSE {}
        /\ \A x \in DOMAIN read.params : x # n => v[x] = read.params[x]
    <3>1. \A x \in DOMAIN v : ParamRecord(v[x])
      BY WithErrParam
    <3>2. DOMAIN v = DOMAIN read.params \cup {n} /\ v[n].err = e
      BY WithErrParam
    <3>3. v[n].groups = IF n \in DOMAIN read.params THEN read.params[n].groups ELSE {}
      BY WithErrParam
    <3>4. \A x \in DOMAIN read.params : x # n => v[x] = read.params[x]
      BY DEF WithErr, SetParam
    <3> QED BY <3>1, <3>2, <3>3, <3>4
  <2> HIDE DEF v, w
  <2>3. w[n].err = TRUE
    BY <2>1, <2>2
  <2> QED BY <1>3, <2>1, <2>2, <2>3 DEF w
<1> QED BY <1>1, <1>2, <1>3

LEMMA GroupsParam ==
  ASSUME RecordsInv
  PROVE  LET w == GroupsSet(read.params) IN
         /\ DOMAIN w = DOMAIN read.params
         /\ \A n \in DOMAIN w :
              /\ ParamRecord(w[n]) /\ w[n].err = read.params[n].err
              /\ w[n].groups = read.params[n].groups
                               \cup {g.name : g \in {x \in groups : n \in x.members}}
<1> DEFINE w == GroupsSet(read.params)
<1>1. DOMAIN w = DOMAIN read.params
  BY DEF GroupsSet
<1>2. ASSUME NEW n \in DOMAIN w
      PROVE  /\ ParamRecord(w[n]) /\ w[n].err = read.params[n].err
             /\ w[n].groups = read.params[n].groups
                              \cup {g.name : g \in {x \in groups : n \in x.members}}
  <2> DEFINE r == read.params[n]
             v == w[n]
             G == {g.name : g \in {x \in groups : n \in x.members}}
  <2>1. r = [err |-> r.err, frozen |-> r.frozen, groups |-> r.groups]
    BY <1>1, <1>2 DEF RecordsInv, ParamRecord
  <2>2. v = [r EXCEPT !.groups = @ \cup G]
    BY <1>1, <1>2 DEF GroupsSet
  <2> HIDE DEF r, v, G
  <2>3. v = [err |-> r.err, frozen |-> r.frozen, groups |-> r.groups \cup G]
    BY <2>1, <2>2
  <2>4. ParamRecord(v) /\ v.err = r.err /\ v.groups = r.groups \cup G
    BY <2>3 DEF ParamRecord
  <2> QED BY <2>4 DEF r, v, G
<1> QED BY <1>1, <1>2

\* How a step changes the parameters.
LEMMA ParamSteps ==
  ASSUME ParsingInv, [Next]_vars
  PROVE  \/ read'.params = read.params
         \/ \E n, err : read'.params = WithErr(n, err)
         \/ \E n, type : read'.params = Created(n, type)
         \/ read'.params = GroupsSet(read.params)
<1>1. Fields(read)
  BY DEF ParsingInv, BackInv, ReadingInv, ReadInv
<1>2. CASE ReadParam \/ ReadRateParam
  <2>1. \E n, err, s : read' = [read EXCEPT !.params = WithErr(n, err), !.systs = s]
    BY <1>2, Zenon DEF ReadParam, ReadRateParam
  <2>2. PICK n, err, s : read' = [read EXCEPT !.params = WithErr(n, err), !.systs = s]
    BY <2>1
  <2>3. read'.params = WithErr(n, err)
    BY <1>1, <2>2 DEF Fields
  <2> QED BY <2>3
<1>3. CASE ReadNuisance
  <2>1. \E s, n, type : \/ read' = [read EXCEPT !.systs = s, !.params = read.params]
                        \/ read' = [read EXCEPT !.systs = s, !.params = Created(n, type)]
    BY <1>3 DEF ReadNuisance
  <2> QED BY <1>1, <2>1 DEF Fields
<1>4. CASE ReadObservations \/ ReadRates \/ ReadAutoMCStats \/ EndParse
  BY <1>1, <1>4 DEF ReadObservations, ReadRates, ReadAutoMCStats, EndParse, Fields
<1>5. CASE ~(\/ ReadParam \/ ReadRateParam \/ ReadNuisance
             \/ ReadObservations \/ ReadRates \/ ReadAutoMCStats \/ EndParse)
  BY <1>5 DEF Next, vars, WriteDatacard, FillHistMappings, WriteObservations, WriteProcesses,
     NumberBackground, NumberSignal, WriteRates, WriteNuisance, WriteTail, ParseDatacard, Return,
     ReadShapes, Ignored, ReadFreeze, ReadGroup
<1> QED BY <1>2, <1>3, <1>4, <1>5

LEMMA NextRecords ==
  ASSUME ParsingInv, RecordsInv, [Next]_vars
  PROVE  RecordsInv'
<1>1. CASE read'.params = read.params
  BY <1>1 DEF RecordsInv
<1>2. CASE \E n, err : read'.params = WithErr(n, err)
  <2>1. PICK n, err : read'.params = WithErr(n, err)
    BY <1>2
  <2>2. \A x \in DOMAIN WithErr(n, err) : ParamRecord(WithErr(n, err)[x])
    BY WithErrParam
  <2> QED BY <2>1, <2>2 DEF RecordsInv
<1>3. CASE \E n, type : read'.params = Created(n, type)
  <2>1. PICK n, type : read'.params = Created(n, type)
    BY <1>3
  <2>2. \A x \in DOMAIN Created(n, type) : ParamRecord(Created(n, type)[x])
    BY CreatedParam
  <2> QED BY <2>1, <2>2 DEF RecordsInv
<1>4. CASE read'.params = GroupsSet(read.params)
  BY <1>4, GroupsParam DEF RecordsInv
<1> QED BY <1>1, <1>2, <1>3, <1>4, ParamSteps

\* The errors of the parameters of a card, and of which kind a nuisance is.
LEMMA ErrorsKnown ==
  ASSUME cb \in Inputs, NEW F, Expressible(Select(cb, F)), NEW s \in ToSet(Select(cb, F).systs)
  PROVE  /\ s.name \in rateparam_set(Select(cb, F)) => cb.params[s.name].err = FALSE
         /\ s.type \in {"lnU", "shapeU"} => cb.params[s.name].err = FALSE
         /\ s.name \notin rateparam_set(Select(cb, F)) /\ s.type \notin {"lnU", "shapeU"}
              => cb.params[s.name].err = TRUE
         /\ s.type \in NuisanceTypes =>
              s.name \notin rateparam_set(Select(cb, F)) /\ s.name \notin param_set(Select(cb, F))
<1> DEFINE C == Select(cb, F)
           n == s.name
<1>1. C.params = cb.params /\ IsSeq(C.systs) /\ ToSet(C.systs) \subseteq ToSet(cb.systs)
  <2>1. /\ C.params = cb.params /\ IsSeq(C.systs)
        /\ ToSet(C.systs) = {x \in ToSet(cb.systs) : x.mass \in F}
    BY SelectParts
  <2> HIDE DEF C
  <2> QED BY <2>1
<1>2. C.params[n].err \in BOOLEAN
  <2>1. s \in ToSet(cb.systs)
    BY <1>1
  <2> QED BY <1>1, <2>1, InputsAssumption
<1>3. C.params[n].err <=> IF n \in rateparam_set(C) THEN FALSE ELSE s.type \notin {"lnU", "shapeU"}
  BY DEF Expressible, ErrorsAsCreated
<1>4. s.type \in NuisanceTypes => n \notin rateparam_set(C) /\ n \notin param_set(C)
  <2> SUFFICES ASSUME s.type \in NuisanceTypes
               PROVE  n \notin rateparam_set(C) /\ n \notin param_set(C)
    OBVIOUS
  <2> DEFINE named == {x \in ToSet(C.systs) : x.name = n}
             T == {x.type : x \in named}
  <2>1. n \in sys_set(C) /\ s.type \in T
    BY DEF sys_set, Named
  <2>2. T \subseteq {"lnN", "shape"} \/ Cardinality(T) = 1
    BY <2>1 DEF Expressible, OneKind
  <2>3. IsFiniteSet(T)
    <3>1. IsFiniteSet(named)
      BY <1>1, FiniteElements, FS_Subset
    <3> DEFINE f == [x \in named |-> x.type]
    <3>2. T = {f[x] : x \in named}
      OBVIOUS
    <3>3. f = [x \in named |-> f[x]]
      OBVIOUS
    <3> HIDE DEF f, named
    <3> QED BY <3>1, <3>2, <3>3, FiniteImage
  <2>4. T \subseteq {"lnN", "shape"} \/ T = {s.type}
    <3> HIDE DEF T
    <3> QED BY <2>1, <2>2, <2>3, FS_Singleton
  <2>5. "rateParam" \notin T /\ "param" \notin T
    BY <2>4 DEF NuisanceTypes, ShapeTypes
  <2> QED BY <2>5 DEF rateparam_set, param_set, Named
<1> QED BY <1>1, <1>2, <1>3, <1>4

\* The lines of the card that is parsed.
LEMMA LineTells ==
  ASSUME ParsingInv, pc = "parse", Faithful, i <= Len(text[key])
  PROVE  /\ i \in 1..Len(text[key]) /\ Line \in ToSet(text[key])
         /\ Line.kind = "param" => Line \in ToSet(ParamLines(Source))
         /\ Line.kind = "rateParam" => Line \in RateParamLines(Source)
<1>1. Finished(text[key], Source) /\ i \in Nat \ {0} /\ IsSeq(text[key])
  BY SourceKnown DEF Card
<1>2. Len(text[key]) \in Nat /\ DOMAIN text[key] = 1..Len(text[key])
  BY <1>1, SeqDomain
<1>3. i \in 1..Len(text[key]) /\ Line \in ToSet(text[key])
  BY <1>1, <1>2 DEF Line, ToSet
<1> QED BY <1>1, <1>3 DEF Finished, Tells, Of

\* What the names of "param" lines are.
LEMMA ParamNamed ==
  ASSUME NEW C, IsSeq(C.systs), NEW l \in ToSet(ParamLines(C))
  PROVE  /\ l.name \in param_set(C)
         /\ l.name \in rateparam_set(C) \/ C.params[l.name].err
<1>1. ToSet(ParamLines(C)) =
        {[kind |-> "param", name |-> n] : n \in {x \in param_set(C) :
           x \in rateparam_set(C) \/ (x \notin sys_set(C) /\ C.params[x].err)}}
  BY ParamTail
<1> QED BY <1>1

\* What the names of rateParam lines are.
LEMMA RateParamNamed ==
  ASSUME NEW C
  PROVE  /\ \A l \in RateParamLines(C) : l.name \in rateparam_set(C)
         /\ \A n \in rateparam_set(C) :
              \E l \in RateParamLines(C) : l.kind = "rateParam" /\ l.name = n
         /\ \A s \in ToSet(C.systs) : s.type = "rateParam" =>
              \E l \in RateParamLines(C) :
                /\ l.kind = "rateParam" /\ l.name = s.name
                /\ l.process = s.process /\ l.bin \in {"*", s.bin}
<1> DEFINE rp == {s \in ToSet(C.systs) : s.type = "rateParam"}
           bins_rp(n, pr) == {s.bin : s \in {x \in rp : x.name = n /\ x.process = pr}}
           bins_all(pr) == {o.bin : o \in ToSet(C.obs)}
                           \cup {q.bin : q \in {x \in ToSet(C.procs) \cup ToSet(C.systs) : x.process = pr}}
           Star(s) == Cardinality(bins_rp(s.name, s.process)) = Cardinality(bins_all(s.process))
           line(s) == [kind |-> "rateParam", name |-> s.name,
                       bin |-> IF Star(s) THEN "*" ELSE s.bin, process |-> s.process]
<1>1. RateParamLines(C) = {line(s) : s \in rp}
  BY DEF RateParamLines
<1>2. \A s : line(s).kind = "rateParam" /\ line(s).name = s.name
        /\ line(s).process = s.process /\ line(s).bin \in {"*", s.bin}
  OBVIOUS
<1>3. rateparam_set(C) = {s.name : s \in rp}
  BY DEF rateparam_set, Named
<1>4. \A s \in ToSet(C.systs) : s.type = "rateParam" => s \in rp /\ line(s) \in RateParamLines(C)
  BY <1>1
<1> HIDE DEF line, rp
<1>5. \A s \in ToSet(C.systs) : s.type = "rateParam" =>
        \E l \in RateParamLines(C) :
          /\ l.kind = "rateParam" /\ l.name = s.name
          /\ l.process = s.process /\ l.bin \in {"*", s.bin}
  BY <1>2, <1>4
<1>6. /\ \A l \in RateParamLines(C) : l.name \in rateparam_set(C)
      /\ \A n \in rateparam_set(C) :
           \E l \in RateParamLines(C) : l.kind = "rateParam" /\ l.name = n
  BY <1>1, <1>2, <1>3
<1> QED BY <1>5, <1>6

\* A rateParam line that is still to come stays to come, if it is not this one.
LEMMA StillLater ==
  ASSUME ParsingInv, PassedInv', pc = "parse", pc' = "parse", [Next]_vars,
         NEW n, Later(n), Line.kind # "rateParam" \/ Line.name # n
  PROVE  Later(n)'
<1> DEFINE t == text[key]
<1>1. CASE UNCHANGED vars
  BY <1>1 DEF vars, disk, writer, reader, Later
<1>2. CASE i' = i + 1 /\ i \in 1..Len(t) /\ UNCHANGED <<cb, key, text, mass, base, parsed>>
  <2>1. PICK j \in 1..Len(t) : j >= i /\ t[j].kind = "rateParam" /\ t[j].name = n
    BY DEF Later
  <2>2. Len(t) \in Nat
    BY ParsedCard DEF ParsingInv, BackInv, ReadingInv
  <2>3. j >= i + 1
    BY <1>2, <2>1, <2>2 DEF Line
  <2>4. Source' = Source /\ RatePos(Source) \in Nat
    BY <1>2 DEF Source, RatePos
  <2>5. columns # <<>> /\ i > RatePos(Source)
    BY DEF Later, ParsingInv, PassedInv
  <2>6. columns' = columns
    BY <1>2, <2>4, <2>5 DEF ParsingInv, PassedInv, RatePos
  <2> QED BY <1>2, <2>1, <2>3, <2>5, <2>6 DEF Later
<1> QED BY <1>1, <1>2, StepsOn

\* Without a line to come, or after a line of another kind than the nuisances'.
LEMMA NoneLater ==
  ASSUME ParsingInv, Faithful, pc = "parse",
         i > Len(text[key]) \/ (i <= Len(text[key]) /\ Line.kind = "freeze"), NEW n
  PROVE  ~Later(n)
<1> DEFINE t == text[key]
<1>1. Finished(t, Source) /\ IsSeq(t) /\ i \in Nat \ {0}
  BY SourceKnown DEF Card
<1>2. Len(t) \in Nat
  BY <1>1, SeqDomain
<1>3. CASE i > Len(t)
  BY <1>1, <1>2, <1>3 DEF Later
<1>4. CASE i <= Len(t) /\ Line.kind = "freeze"
  <2> SUFFICES ASSUME NEW j \in 1..Len(t), j >= i, t[j].kind = "rateParam" PROVE FALSE
    BY DEF Later
  <2>1. i \in 1..Len(t) /\ t[i].kind = "freeze"
    BY <1>1, <1>2, <1>4 DEF Line
  <2>2. i < j
    BY <1>2, <2>1
  <2>3. t[i].kind \in UpToRates
    BY <1>1, <2>1, <2>2 DEF Finished, First, UpToRates
  <2> QED BY <2>1, <2>3 DEF UpToRates, Early
<1> QED BY <1>3, <1>4

\* A "param" line of a parameter without errors comes before its rateParam line.
LEMMA ParamLineRead ==
  ASSUME ParsingInv, PassedInv', Faithful, ReadParam, [Next]_vars, NEW n, n = Line.name
  PROVE  cb.params[n].err = TRUE \/ Later(n)'
<1> DEFINE t == text[key]
           C == Source
<1>1. /\ pc = "parse" /\ pc' = "parse" /\ i <= Len(t) /\ Line.kind = "param" /\ columns # <<>>
  BY DEF ReadParam, Scanning, Reading, Skip
<1>2. /\ cb \in Inputs /\ Expressible(C) /\ Finished(t, C) /\ IsSeq(t) /\ IsSeq(C.systs)
      /\ C = Select(cb, key) /\ i \in Nat \ {0}
  BY <1>1, SourceKnown DEF Card
<1>3. n \in param_set(C) /\ (n \in rateparam_set(C) \/ C.params[n].err)
  <2>1. Line \in ToSet(ParamLines(C))
    BY <1>1, LineTells
  <2> QED BY <1>2, <2>1, ParamNamed
<1>4. CASE n \notin rateparam_set(C)
  <2>1. PICK s \in ToSet(C.systs) : s.name = n /\ s.type = "param"
    BY <1>3 DEF param_set, Named
  <2>2. cb.params[s.name].err = TRUE
    BY <1>2, <1>4, <2>1, ErrorsKnown
  <2> QED BY <2>1, <2>2
<1>5. CASE n \in rateparam_set(C)
  <2>1. \E l \in RateParamLines(C) : l.kind = "rateParam" /\ l.name = n
    BY <1>5, RateParamNamed
  <2>2. PICK l \in ToSet(t) : l.kind = "rateParam" /\ l.name = n
    BY <1>2, <2>1 DEF Finished, Of
  <2>3. Len(t) \in Nat /\ DOMAIN t = 1..Len(t)
    BY <1>2, SeqDomain
  <2>4. PICK j \in 1..Len(t) : t[j] = l
    BY <2>2, <2>3 DEF ToSet
  <2>5. i \in 1..Len(t) /\ t[i].kind = "param"
    BY <1>1, <1>2, <2>3 DEF Line
  <2>6. ~(j < i)
    <3> SUFFICES ASSUME j < i PROVE FALSE
      OBVIOUS
    <3>1. t[j].kind \in Early
      BY <1>2, <2>5 DEF Finished, First, Early
    <3> QED BY <2>2, <2>4, <3>1 DEF Early
  <2>7. Later(n)
    BY <1>1, <2>2, <2>4, <2>5, <2>6 DEF Later
  <2>8. Later(n)'
    BY <1>1, <2>7, StillLater
  <2> QED BY <2>8
<1> QED BY <1>4, <1>5

\* What a nuisance line with an entry says of its parameter.
LEMMA NuisanceErrors ==
  ASSUME ParsingInv, pc = "parse", Faithful, NEW n \in Lined(Source),
         Line = NuisanceLine(Source, n), NEW k \in DOMAIN Source.procs, Seen(Source, n, k) # {}
  PROVE  cb.params[n].err = (Line.type \notin {"lnU", "shapeU"})
<1> DEFINE C == Source
           s == LastSeen(C, n, k)
           d == Deduced(SeenTypes(C, n))
<1>1. cb \in Inputs /\ Expressible(C) /\ IsSeq(C.systs) /\ C = Select(cb, key)
  BY SourceKnown
<1>2. n \in sys_set(C) /\ OncePerProcess(C) /\ OneKind(C)
  BY <1>1 DEF Lined, Expressible
<1>3. /\ s \in ToSet(C.systs) /\ s.name = n /\ s.type \in NuisanceTypes
      /\ d = s.type \/ (d = "shape?" /\ s.type \in {"lnN", "shape"})
  <2> HIDE DEF s, d, C
  <2>1. Seen(C, n, k) # {} /\ k \in DOMAIN C.procs
    BY DEF C
  <2> QED BY <1>1, <1>2, <2>1, LineType DEF s, d
<1>4. Line.type = d
  BY DEF NuisanceLine
<1> HIDE DEF s, d
<1>5. /\ s.type \in {"lnU", "shapeU"} => cb.params[n].err = FALSE
      /\ s.type \notin {"lnU", "shapeU"} => cb.params[n].err = TRUE
  <2>1. s \in ToSet(Select(cb, key).systs) /\ Expressible(Select(cb, key))
    BY <1>1, <1>3
  <2> QED BY <1>1, <1>3, <2>1, ErrorsKnown
<1>6. d \in {"lnU", "shapeU"} <=> s.type \in {"lnU", "shapeU"}
  BY <1>3
<1> QED BY <1>4, <1>5, <1>6

\* The parameters when a line has been read.
LEMMA ParamsOn ==
  ASSUME ParsingInv, RecordsInv, PassedInv', ParamsInv, Faithful,
         pc = "parse", pc' = "parse", [Next]_vars, ~UNCHANGED vars
  PROVE  \A n \in DOMAIN read'.params :
           /\ read'.params[n].groups \subseteq cb.params[n].groups
           /\ read'.params[n].err = cb.params[n].err \/ Later(n)'
<1> DEFINE Fine(v, n) == v.groups \subseteq cb.params[n].groups
                         /\ (v.err = cb.params[n].err \/ Later(n)')
           All(w) == \A n \in DOMAIN w : Fine(w[n], n)
<1>1. Fields(read)
  BY DEF ParsingInv, BackInv, ReadingInv, ReadInv
<1>2. ASSUME NEW n \in DOMAIN read.params, Line.kind # "rateParam" \/ Line.name # n
      PROVE  Fine(read.params[n], n)
  <2>1. /\ read.params[n].groups \subseteq cb.params[n].groups
        /\ read.params[n].err = cb.params[n].err \/ Later(n)
    BY DEF ParamsInv
  <2>2. Later(n) => Later(n)'
    BY <1>2, StillLater
  <2> QED BY <2>1, <2>2
<1>3. ASSUME read'.params = read.params, Line.kind # "rateParam" PROVE All(read'.params)
  BY <1>2, <1>3
\* One parameter gets a value, the others keep theirs.
<1>4. ASSUME NEW n, n = Line.name, NEW w, DOMAIN w = DOMAIN read.params \cup {n},
             \A x \in DOMAIN read.params : x # n => w[x] = read.params[x],
             w[n].groups = IF n \in DOMAIN read.params THEN read.params[n].groups ELSE {},
             w[n].err = cb.params[n].err \/ Later(n)'
      PROVE  All(w)
  <2>1. ASSUME NEW x \in DOMAIN w PROVE Fine(w[x], x)
    <3>1. CASE x = n
      <4>1. n \in DOMAIN read.params => read.params[n].groups \subseteq cb.params[n].groups
        BY DEF ParamsInv
      <4>2. w[n].groups \subseteq cb.params[n].groups
        BY <1>4, <4>1
      <4> QED BY <1>4, <3>1, <4>2
    <3>2. CASE x # n
      <4>1. x \in DOMAIN read.params /\ w[x] = read.params[x]
        BY <1>4, <3>2
      <4>2. Fine(read.params[x], x)
        BY <1>2, <1>4, <3>2, <4>1
      <4> QED BY <4>1, <4>2
    <3> QED BY <3>1, <3>2
  <2> QED BY <2>1
<1>5. CASE ReadParam
  <2>1. PICK n : n = Line.name
    OBVIOUS
  <2>2. PICK e : e = TRUE
    OBVIOUS
  <2> DEFINE w == WithErr(n, e)
  <2>3. read'.params = w
    BY <1>1, <1>5, <2>1, <2>2 DEF ReadParam, Fields
  <2>4. DOMAIN w = DOMAIN read.params \cup {n} /\ w[n].err = e
    BY WithErrParam
  <2>5. w[n].groups = IF n \in DOMAIN read.params THEN read.params[n].groups ELSE {}
    BY WithErrParam
  <2>6. \A x \in DOMAIN read.params : x # n => w[x] = read.params[x]
    BY DEF WithErr, SetParam
  <2>7. cb.params[n].err = TRUE \/ Later(n)'
    BY <1>5, <2>1, ParamLineRead
  <2> HIDE DEF w
  <2>8. w[n].err = cb.params[n].err \/ Later(n)'
    BY <2>2, <2>4, <2>7
  <2>9. All(w)
    BY <1>4, <2>1, <2>4, <2>5, <2>6, <2>8
  <2> QED BY <2>3, <2>9
<1>6. CASE ReadRateParam
  <2>1. PICK n : n = Line.name
    OBVIOUS
  <2>2. PICK e : e = FALSE
    OBVIOUS
  <2> DEFINE w == WithErr(n, e)
  <2>3. read'.params = w
    BY <1>1, <1>6, <2>1, <2>2 DEF ReadRateParam, Fields
  <2>4. DOMAIN w = DOMAIN read.params \cup {n} /\ w[n].err = e
    BY WithErrParam
  <2>5. w[n].groups = IF n \in DOMAIN read.params THEN read.params[n].groups ELSE {}
    BY WithErrParam
  <2>6. \A x \in DOMAIN read.params : x # n => w[x] = read.params[x]
    BY DEF WithErr, SetParam
  <2>7. cb.params[n].err = FALSE
    <3>1. i <= Len(text[key]) /\ Line.kind = "rateParam"
      BY <1>6 DEF ReadRateParam, Scanning, Reading
    <3>2. n \in rateparam_set(Source)
      BY <2>1, <3>1, LineTells, RateParamNamed
    <3>3. PICK s \in ToSet(Source.systs) : s.name = n
      BY <3>2 DEF rateparam_set, Named
    <3>4. cb \in Inputs /\ Expressible(Source) /\ Source = Select(cb, key)
      BY SourceKnown
    <3>5. s \in ToSet(Select(cb, key).systs) /\ Expressible(Select(cb, key))
          /\ s.name \in rateparam_set(Select(cb, key))
      BY <3>2, <3>3, <3>4
    <3>6. cb.params[s.name].err = FALSE
      BY <3>4, <3>5, ErrorsKnown
    <3> QED BY <3>3, <3>6
  <2> HIDE DEF w
  <2>8. w[n].err = cb.params[n].err \/ Later(n)'
    BY <2>2, <2>4, <2>7
  <2>9. All(w)
    BY <1>4, <2>1, <2>4, <2>5, <2>6, <2>8
  <2> QED BY <2>3, <2>9
<1>7. CASE ReadNuisance
  <2>1. PICK n, t :
          /\ n \in Lined(Source) /\ Line = NuisanceLine(Source, n) /\ IsSeq(t)
          /\ ToSet(t) = {NuisanceBack(LastSeen(Source, n, k)) :
                           k \in {l \in DOMAIN Source.procs : Seen(Source, n, l) # {}}}
          /\ read'.params = IF ToSet(t) = {} THEN read.params ELSE Created(n, Line.type)
    BY <1>7, NuisanceIsRead
  <2>2. Line.kind = "nuisance" /\ Line.name = n
    BY <2>1 DEF NuisanceLine
  <2>3. CASE ToSet(t) = {}
    BY <1>3, <2>1, <2>2, <2>3
  <2>4. CASE ToSet(t) # {}
    <3>1. PICK k \in DOMAIN Source.procs : Seen(Source, n, k) # {}
      BY <2>1, <2>4
    <3>2. cb.params[n].err = (Line.type \notin {"lnU", "shapeU"})
      BY <2>1, <3>1, NuisanceErrors
    <3>3. PICK type : type = Line.type
      OBVIOUS
    <3> DEFINE w == Created(n, type)
    <3>4. read'.params = w
      BY <2>1, <2>4, <3>3
    <3>5. DOMAIN w = DOMAIN read.params \cup {n}
      BY CreatedParam
    <3>6. w[n].groups = IF n \in DOMAIN read.params THEN read.params[n].groups ELSE {}
      BY CreatedParam
    <3>7. \A x \in DOMAIN read.params : x # n => w[x] = read.params[x]
      BY DEF Created, WithErr, SetParam
    <3>8. w[n].err = IF type \in {"lnU", "shapeU"} THEN FALSE
                     ELSE IF n \in DOMAIN read.params THEN read.params[n].err ELSE TRUE
      BY CreatedParam
    <3> HIDE DEF w
    <3>9. n \in DOMAIN read.params => read.params[n].err = cb.params[n].err \/ Later(n)'
      BY <1>2, <2>2
    <3>10. w[n].err = cb.params[n].err \/ Later(n)'
      BY <3>2, <3>3, <3>8, <3>9
    <3>11. All(w)
      BY <1>4, <2>2, <3>5, <3>6, <3>7, <3>10
    <3> QED BY <3>4, <3>11
  <2> QED BY <2>3, <2>4
<1>8. CASE \/ ReadShapes \/ ReadObservations \/ ReadRates \/ Ignored \/ ReadFreeze
           \/ ReadAutoMCStats \/ ReadGroup
  <2>1. read'.params = read.params
    BY <1>1, <1>8 DEF ReadShapes, ReadObservations, ReadRates, Ignored, ReadFreeze,
       ReadAutoMCStats, ReadGroup, Fields
  <2>2. ASSUME NEW n \in DOMAIN read.params PROVE Fine(read.params[n], n)
    <3>1. CASE Ignored
      <4>1. columns = <<>>
        BY <3>1 DEF Ignored
      <4> QED BY <4>1 DEF ParamsInv, Later
    <3>2. CASE ~Ignored
      <4>1. Line.kind # "rateParam"
        BY <1>8, <3>2 DEF ReadShapes, ReadObservations, ReadRates, ReadFreeze,
           ReadAutoMCStats, ReadGroup, Scanning, Reading
      <4> QED BY <1>2, <4>1
    <3> QED BY <3>1, <3>2
  <2> QED BY <2>1, <2>2
<1>9. \/ ReadNuisance \/ ReadRateParam \/ ReadParam \/ Ignored \/ ReadShapes
      \/ ReadObservations \/ ReadRates \/ ReadFreeze \/ ReadAutoMCStats \/ ReadGroup
  BY DEF Next, WriteDatacard, FillHistMappings, WriteObservations, WriteProcesses,
       NumberBackground, NumberSignal, WriteRates, WriteNuisance, WriteTail, ParseDatacard,
       EndParse, Return
<1> QED BY <1>5, <1>6, <1>7, <1>8, <1>9

\* What the group lines of a card say.
LEMMA GroupsKnown ==
  ASSUME NEW C
  PROVE  /\ \A l \in GroupLines(C) : /\ l.kind = "group"
              /\ \A n \in l.members : l.name \in C.params[n].groups
         /\ \A n \in sys_set(C) : C.params[n].err => \A g \in C.params[n].groups :
              \E l \in GroupLines(C) : l.kind = "group" /\ l.name = g /\ n \in l.members
<1> DEFINE np == {n \in sys_set(C) : C.params[n].err}
           names == UNION {C.params[n].groups : n \in np}
           members(g) == {n \in np : g \in C.params[n].groups}
           line(g) == [kind |-> "group", name |-> g, members |-> members(g)]
<1>1. GroupLines(C) = {line(g) : g \in names}
  BY DEF GroupLines
<1>2. \A g : line(g).kind = "group" /\ line(g).name = g /\ line(g).members = members(g)
  OBVIOUS
<1> HIDE DEF line
<1>3. \A l \in GroupLines(C) : l.kind = "group" /\ \A n \in l.members : l.name \in C.params[n].groups
  BY <1>1, <1>2
<1>4. ASSUME NEW n \in sys_set(C), C.params[n].err, NEW g \in C.params[n].groups
      PROVE  \E l \in GroupLines(C) : l.kind = "group" /\ l.name = g /\ n \in l.members
  <2>1. n \in np /\ g \in names /\ n \in members(g)
    BY <1>4
  <2>2. line(g) \in GroupLines(C)
    BY <1>1, <2>1
  <2> QED BY <1>2, <2>1, <2>2
<1> QED BY <1>3, <1>4

\* The groups of the card: those of its parameters, and at its end all of them.
LEMMA GroupsRead ==
  ASSUME ParsingInv, EntriesInv, Faithful, pc = "parse"
  PROVE  /\ \A g \in groups : \A n \in g.members : g.name \in cb.params[n].groups
         /\ i > Len(text[key]) /\ Source.procs # <<>> =>
              \A n \in sys_set(Source) : cb.params[n].err => \A h \in cb.params[n].groups :
                \E g \in groups : g.name = h /\ n \in g.members
<1> DEFINE t == text[key]
           C == Source
<1>1. /\ Finished(t, C) /\ IsSeq(t) /\ C = Select(cb, key) /\ cb \in Inputs
  BY SourceKnown DEF Card
<1>2. C.params = cb.params
  BY <1>1, SelectParts
<1>3. Len(t) \in Nat /\ ToSet(t) = {t[j] : j \in 1..Len(t)}
  BY <1>1, SeqDomain DEF ToSet
<1>4. groups = UNION {GroupsOf(l) : l \in Before} /\ Before \subseteq ToSet(t)
  BY <1>3 DEF EntriesInv, Before
<1>5. ASSUME NEW g \in groups, NEW n \in g.members PROVE g.name \in cb.params[n].groups
  <2>1. PICK l \in Before : g \in GroupsOf(l)
    BY <1>4
  <2>2. l.kind = "group" /\ g = [name |-> l.name, members |-> l.members]
    BY <2>1 DEF GroupsOf
  <2>3. g.name = l.name /\ g.members = l.members
    BY <2>2
  <2>4. l \in GroupLines(C)
    BY <1>1, <1>4, <2>2 DEF Finished, Of
  <2> QED BY <1>2, <1>5, <2>3, <2>4, GroupsKnown
<1>6. ASSUME i > Len(t), C.procs # <<>>, NEW n \in sys_set(C), cb.params[n].err,
             NEW h \in cb.params[n].groups
      PROVE  \E g \in groups : g.name = h /\ n \in g.members
  <2>1. PICK l \in GroupLines(C) : l.kind = "group" /\ l.name = h /\ n \in l.members
    BY <1>2, <1>6, GroupsKnown
  <2>2. l \in ToSet(t)
    BY <1>1, <2>1 DEF Finished, Of
  <2>3. PICK j \in 1..Len(t) : l = t[j]
    BY <1>3, <2>2
  <2>4. i \in Nat
    BY DEF ParsingInv, BackInv, ReadingInv, ReadInv
  <2>5. l \in Before
    BY <1>3, <1>6, <2>3, <2>4 DEF Before
  <2> DEFINE g == [name |-> l.name, members |-> l.members]
  <2>6. g \in GroupsOf(l)
    BY <1>6, <2>1 DEF GroupsOf
  <2>7. g \in groups
    BY <1>4, <2>5, <2>6
  <2>8. g.name = h /\ n \in g.members
    BY <2>1
  <2> QED BY <2>7, <2>8
<1> QED BY <1>5, <1>6

LEMMA InitParams == Init => RecordsInv /\ ParamsInv
<1> SUFFICES ASSUME Init PROVE RecordsInv /\ ParamsInv
  OBVIOUS
<1>1. read.params = <<>> /\ pc = "client"
  BY DEF Init, Nothing
<1>2. DOMAIN read.params = {}
  BY <1>1
<1> QED BY <1>1, <1>2 DEF RecordsInv, ParamsInv

LEMMA NextParams ==
  ASSUME ParsingInv, EntriesInv, RecordsInv, ParamsInv, PassedInv', [Next]_vars
  PROVE  ParamsInv'
<1>1. Fields(read)
  BY DEF ParsingInv, BackInv, ReadingInv, ReadInv
<1>2. CASE UNCHANGED vars
  <2>1. UNCHANGED <<cb, key, text, i, columns, mass, parsed, pc, read>>
    BY <1>2 DEF vars, disk, writer, reader
  <2>2. Source' = Source /\ Faithful' = Faithful /\ \A n : Later(n)' = Later(n)
    BY <2>1 DEF Source, Faithful, Later
  <2> QED BY <2>1, <2>2 DEF ParamsInv
<1>3. CASE pc = "parse" /\ pc' = "parse" /\ ~UNCHANGED vars
  <2>1. UNCHANGED <<cb, key, text, mass, base, parsed>>
    BY <1>3, StepsOn
  <2>2. Faithful' = Faithful /\ cb' = cb
    BY <2>1, SameSource
  <2> QED BY <1>3, <2>2, ParamsOn DEF ParamsInv
<1>4. CASE pc = "parse" /\ pc' = "client"
  <2>1. UNCHANGED <<cb, parsed>>
    BY <1>4 DEF Next, vars, WriteDatacard, FillHistMappings, WriteObservations, WriteProcesses,
       NumberBackground, NumberSignal, WriteRates, WriteNuisance, WriteTail, ParseDatacard,
       ReadShapes, ReadObservations, ReadRates, Ignored, ReadParam, ReadNuisance, ReadRateParam,
       ReadFreeze, ReadAutoMCStats, ReadGroup, EndParse, Return, Rest
  <2>2. Faithful' = Faithful
    BY <2>1 DEF Faithful
  <2>3. ASSUME Faithful PROVE ReadFreeze
    <3>1. ~ReadObservations /\ ~ReadRates /\ ~ReadNuisance
      BY <1>4, <2>3, DataAreRead, RatesAreRead, NuisanceIsRead
    <3> QED BY <1>4, <3>1 DEF Next, vars, WriteDatacard, FillHistMappings, WriteObservations,
         WriteProcesses, NumberBackground, NumberSignal, WriteRates, WriteNuisance, WriteTail,
         ParseDatacard, ReadShapes, Ignored, ReadParam, ReadRateParam, ReadAutoMCStats, ReadGroup,
         Scanning, Reading, Skip, EndParse, Return
  <2>4. ASSUME Faithful PROVE read' = read /\ i <= Len(text[key]) /\ Line.kind = "freeze"
    BY <2>3, <2>4 DEF ReadFreeze, Scanning, Reading
  <2>5. ASSUME Faithful, NEW n PROVE ~Later(n)
    BY <1>4, <2>4, <2>5, NoneLater
  <2> QED BY <1>4, <2>1, <2>2, <2>4, <2>5 DEF ParamsInv
<1>5. CASE EndParse
  <2>1. /\ pc = "parse" /\ pc' = "parsed" /\ i > Len(text[key])
        /\ read' = [read EXCEPT !.params = GroupsSet(@)]
        /\ UNCHANGED <<cb, key, mass, parsed>>
    BY <1>5 DEF EndParse, disk, writer, reader
  <2> DEFINE w == GroupsSet(read.params)
             added(n) == {g.name : g \in {x \in groups : n \in x.members}}
  <2>2. read'.params = w
    BY <1>1, <2>1 DEF Fields
  <2>3. Source' = Source /\ Faithful' = Faithful
    BY <2>1, SameSource
  <2>4. DOMAIN w = DOMAIN read.params
        /\ \A n \in DOMAIN w : /\ w[n].err = read.params[n].err
                               /\ w[n].groups = read.params[n].groups \cup added(n)
    BY GroupsParam
  <2> HIDE DEF w
  <2>5. ASSUME Faithful
        PROVE  \A n \in DOMAIN w : w[n].groups \subseteq cb.params[n].groups
                                   /\ w[n].err = cb.params[n].err
    <3>1. ASSUME NEW n \in DOMAIN w
          PROVE  w[n].groups \subseteq cb.params[n].groups /\ w[n].err = cb.params[n].err
      <4>1. ~Later(n)
        BY <2>1, <2>5, NoneLater
      <4>2. read.params[n].groups \subseteq cb.params[n].groups
            /\ read.params[n].err = cb.params[n].err
        BY <2>4, <2>5, <4>1 DEF ParamsInv
      <4>3. added(n) \subseteq cb.params[n].groups
        BY <2>1, <2>5, GroupsRead
      <4> QED BY <2>4, <4>2, <4>3
    <3> QED BY <3>1
  <2>6. ASSUME Faithful, Source.procs # <<>>, NEW n \in sys_set(Source) \cap DOMAIN w, cb.params[n].err
        PROVE  cb.params[n].groups \subseteq w[n].groups
    <3>1. cb.params[n].groups \subseteq added(n)
      BY <2>1, <2>6, GroupsRead
    <3> QED BY <2>4, <3>1
  <2> QED BY <2>1, <2>2, <2>3, <2>5, <2>6 DEF ParamsInv
<1>6. CASE \E F \in complete, m \in Masses : ParseDatacard(F, m)
  <2>1. PICK F : parsed' = parsed \cup {F}
    BY <1>6 DEF ParseDatacard
  <2>2. pc = "client" /\ pc' = "parse" /\ read' = read /\ cb' = cb
    BY <1>6 DEF ParseDatacard
  <2>3. Faithful' => Faithful
    BY <2>1, <2>2 DEF Faithful
  <2>4. \A n : ~Later(n)
    BY <2>2 DEF Later
  <2> QED BY <2>2, <2>3, <2>4 DEF ParamsInv
<1>7. CASE pc # "parse" /\ ~UNCHANGED vars /\ ~\E F \in complete, m \in Masses : ParseDatacard(F, m)
  <2>1. UNCHANGED <<cb, parsed, read>> /\ pc' \notin {"parse", "parsed"}
    BY <1>7 DEF Next, WriteDatacard, FillHistMappings, WriteObservations, WriteProcesses,
       NumberBackground, NumberSignal, WriteRates, WriteNuisance, WriteTail, Throw,
       ReadShapes, ReadObservations, ReadRates, Ignored, ReadParam, ReadNuisance, ReadRateParam,
       ReadFreeze, ReadAutoMCStats, ReadGroup, Scanning, Reading, EndParse, Return
  <2>2. Faithful' = Faithful
    BY <2>1 DEF Faithful
  <2>3. \A n : ~Later(n)
    BY <1>7 DEF Later
  <2> QED BY <2>1, <2>2, <2>3 DEF ParamsInv
<1>8. CASE pc = "parse" /\ pc' \notin {"parse", "client"} /\ ~EndParse
  BY <1>8 DEF Next, vars, WriteDatacard, FillHistMappings, WriteObservations, WriteProcesses,
       NumberBackground, NumberSignal, WriteRates, WriteNuisance, WriteTail, ParseDatacard,
       ReadShapes, ReadObservations, ReadRates, Ignored, ReadParam, ReadNuisance, ReadRateParam,
       ReadFreeze, ReadAutoMCStats, ReadGroup, Scanning, Reading, Skip, Fail, Return
<1> QED BY <1>2, <1>3, <1>4, <1>5, <1>6, <1>7, <1>8

-----------------------------------------------------------------------------
(* Nuisances: what has been read of a whole card is what it was written of. *)
\* The entries that a finished card holds.
LEMMA EntriesAre ==
  ASSUME NEW t, Finished(t, Source), NEW x
  PROVE  (\E l \in ToSet(t) : x \in EntriesOf(l)) <=>
           \/ \E n \in Lined(Source), k \in DOMAIN Source.procs :
                Seen(Source, n, k) # {} /\ x = NuisanceBack(LastSeen(Source, n, k))
           \/ \E l \in RateParamLines(Source), q \in ToSet(Source.procs) :
                /\ l.bin \in {"*", q.bin} /\ l.process = q.process /\ l.kind = "rateParam"
                /\ x = RateParamBack(l.name, q)
           \/ \E l \in ToSet(ParamLines(Source)) :
                /\ l.kind = "param" /\ Source.procs # <<>>
                /\ x = Entry(NoColumn, l.name, "param", FALSE, <<>>)
<1> DEFINE C == Source
           A == \E n \in Lined(C), k \in DOMAIN C.procs :
                  Seen(C, n, k) # {} /\ x = NuisanceBack(LastSeen(C, n, k))
           B == \E l \in RateParamLines(C), q \in ToSet(C.procs) :
                  /\ l.bin \in {"*", q.bin} /\ l.process = q.process /\ l.kind = "rateParam"
                  /\ x = RateParamBack(l.name, q)
           P == \E l \in ToSet(ParamLines(C)) :
                  /\ l.kind = "param" /\ C.procs # <<>>
                  /\ x = Entry(NoColumn, l.name, "param", FALSE, <<>>)
<1>1. /\ \A l : l \in ToSet(t) /\ l.kind = "param" <=> l \in ToSet(ParamLines(C)) /\ l.kind = "param"
      /\ \A l : l \in ToSet(t) /\ l.kind = "nuisance" <=> \E n \in Lined(C) : l = NuisanceLine(C, n)
      /\ \A l : l \in ToSet(t) /\ l.kind = "rateParam" <=> l \in RateParamLines(C) /\ l.kind = "rateParam"
  <2>1. /\ \A l : l \in Of(t, "param") <=> l \in ToSet(ParamLines(C))
        /\ \A l : l \in Of(t, "nuisance") <=> \E n \in Lined(C) : l = NuisanceLine(C, n)
        /\ \A l : l \in Of(t, "rateParam") <=> l \in RateParamLines(C)
    BY DEF Finished, Tells
  <2> HIDE DEF C
  <2> QED BY <2>1 DEF Of
<1>2. \A n : NuisanceLine(C, n).kind = "nuisance" /\ NuisanceLine(C, n).name = n
  BY DEF NuisanceLine
<1>3. ASSUME NEW l \in ToSet(t), x \in EntriesOf(l) PROVE A \/ B \/ P
  <2>1. CASE l.kind = "nuisance"
    <3>1. PICK n \in Lined(C) : l = NuisanceLine(C, n)
      BY <1>1, <2>1
    <3>2. l.name = n
      BY <1>2, <3>1
    <3>3. x \in {NuisanceBack(LastSeen(C, l.name, k)) : k \in {y \in DOMAIN C.procs : Seen(C, l.name, y) # {}}}
      BY <1>3, <2>1 DEF EntriesOf
    <3> QED BY <3>2, <3>3
  <2>2. CASE l.kind = "rateParam"
    <3>1. l \in RateParamLines(C)
      BY <1>1, <2>2
    <3>2. x \in {RateParamBack(l.name, q) : q \in {y \in ToSet(C.procs) :
                                              l.bin \in {"*", y.bin} /\ l.process = y.process}}
      BY <1>3, <2>2 DEF EntriesOf
    <3> QED BY <2>2, <3>1, <3>2
  <2>3. CASE l.kind = "param"
    <3>1. l \in ToSet(ParamLines(C))
      BY <1>1, <2>3
    <3>2. C.procs # <<>> /\ x = Entry(NoColumn, l.name, "param", FALSE, <<>>)
      BY <1>3, <2>3 DEF EntriesOf
    <3> QED BY <2>3, <3>1, <3>2
  <2>4. CASE l.kind \notin {"nuisance", "rateParam", "param"}
    BY <1>3, <2>4 DEF EntriesOf
  <2> QED BY <2>1, <2>2, <2>3, <2>4
<1>4. ASSUME A PROVE \E l \in ToSet(t) : x \in EntriesOf(l)
  <2>1. PICK n \in Lined(C), k \in DOMAIN C.procs :
          Seen(C, n, k) # {} /\ x = NuisanceBack(LastSeen(C, n, k))
    BY <1>4
  <2> DEFINE l == NuisanceLine(C, n)
  <2>2. l.kind = "nuisance" /\ l.name = n
    BY <1>2
  <2>3. l \in ToSet(t)
    BY <1>1
  <2> HIDE DEF l
  <2>4. x \in EntriesOf(l)
    BY <2>1, <2>2 DEF EntriesOf
  <2> QED BY <2>3, <2>4
<1>5. ASSUME B PROVE \E l \in ToSet(t) : x \in EntriesOf(l)
  <2>1. PICK l \in RateParamLines(C), q \in ToSet(C.procs) :
               /\ l.bin \in {"*", q.bin} /\ l.process = q.process /\ l.kind = "rateParam"
               /\ x = RateParamBack(l.name, q)
    BY <1>5
  <2>2. x \in EntriesOf(l)
    BY <2>1 DEF EntriesOf
  <2> QED BY <1>1, <2>1, <2>2
<1>6. ASSUME P PROVE \E l \in ToSet(t) : x \in EntriesOf(l)
  BY <1>1, <1>6 DEF EntriesOf
<1> QED BY <1>3, <1>4, <1>5, <1>6

\* The kinds of the entries tell them apart.
LEMMA NuisanceKind ==
  ASSUME NEW s PROVE NuisanceBack(s).type = s.type /\ NuisanceBack(s).name = s.name
  BY DEF NuisanceBack
LEMMA RateParamKind ==
  ASSUME NEW n, NEW q
  PROVE  /\ RateParamBack(n, q).type = "rateParam" /\ RateParamBack(n, q).name = n
         /\ RateParamBack(n, q).bin = q.bin /\ RateParamBack(n, q).process = q.process
  BY DEF RateParamBack
LEMMA ParamKind ==
  ASSUME NEW n
  PROVE  /\ Entry(NoColumn, n, "param", FALSE, <<>>).type = "param"
         /\ Entry(NoColumn, n, "param", FALSE, <<>>).name = n
  BY DEF Entry

\* An entry of a nuisance on a process of the card is the one looked at.
LEMMA EntrySeen ==
  ASSUME cb \in Inputs, NEW F, Expressible(Select(cb, F)), NEW s \in ToSet(Select(cb, F).systs),
         s.type \in NuisanceTypes, NEW k \in DOMAIN Select(cb, F).procs,
         MatchingProcess(s, Select(cb, F).procs[k])
  PROVE  /\ s.name \in Lined(Select(cb, F)) /\ Seen(Select(cb, F), s.name, k) # {}
         /\ LastSeen(Select(cb, F), s.name, k) = s
<1> DEFINE C == Select(cb, F)
           n == s.name
           S == {j \in DOMAIN C.systs : /\ C.systs[j].name = n /\ C.systs[j].type \in NuisanceTypes
                                        /\ MatchingProcess(C.systs[j], C.procs[k])}
           stops == {j \in S : C.systs[j].type \notin ShapeTypes \/ C.systs[j].hist}
<1>1. IsSeq(C.systs)
  BY SelectParts
<1>2. n \in Lined(C)
  <2>1. n \in sys_set(C)
    BY DEF sys_set, Named
  <2>2. n \notin param_set(C)
    BY ErrorsKnown
  <2> QED BY <2>1, <2>2 DEF Lined
<1>3. OncePerProcess(C)
  BY DEF Expressible
<1>4. PICK j \in DOMAIN C.systs : s = C.systs[j]
  BY DEF ToSet
<1>5. Seen(C, n, k) = {l \in S : \A m \in stops : l <= m}
  BY DEF Seen
<1>6. j \in S /\ \A l \in S : l = j
  <2>1. MatchingProcess(s, C.procs[k])
    OBVIOUS
  <2> HIDE DEF C
  <2>2. j \in S
    BY <1>4, <2>1
  <2>3. \A l \in S : l = j
    BY <1>3, <2>2 DEF OncePerProcess, MatchingProcess
  <2> QED BY <2>2, <2>3
<1>7. j <= j
  BY <1>1, <1>4, SeqDomain
<1>8. j \in Seen(C, n, k)
  <2> HIDE DEF S
  <2> QED BY <1>5, <1>6, <1>7
<1>9. LastSeen(C, n, k) = C.systs[j]
  <2> HIDE DEF C, n
  <2> QED BY <1>1, <1>3, <1>8, SeenOnce
<1> QED BY <1>2, <1>4, <1>8, <1>9

\* A rateParam line stands for its process in every bin that has the parameter.
LEMMA StarBins ==
  ASSUME cb \in Inputs, NEW F, NEW l \in RateParamLines(Select(cb, F)),
         NEW q \in ToSet(Select(cb, F).procs), l.bin \in {"*", q.bin}, l.process = q.process
  PROVE  \E s \in ToSet(Select(cb, F).systs) :
           s.type = "rateParam" /\ s.name = l.name /\ s.bin = q.bin /\ s.process = q.process
<1> DEFINE C == Select(cb, F)
           rp == {s \in ToSet(C.systs) : s.type = "rateParam"}
           bins_rp(n, pr) == {s.bin : s \in {x \in rp : x.name = n /\ x.process = pr}}
           bins_all(pr) == {o.bin : o \in ToSet(C.obs)}
                           \cup {x.bin : x \in {y \in ToSet(C.procs) \cup ToSet(C.systs) : y.process = pr}}
           Star(s) == Cardinality(bins_rp(s.name, s.process)) = Cardinality(bins_all(s.process))
           line(s) == [kind |-> "rateParam", name |-> s.name,
                       bin |-> IF Star(s) THEN "*" ELSE s.bin, process |-> s.process]
<1>1. RateParamLines(C) = {line(s) : s \in rp}
  BY DEF RateParamLines
<1>2. PICK s \in rp : l = line(s)
  BY <1>1
<1>3. l.name = s.name /\ l.process = s.process /\ l.bin = IF Star(s) THEN "*" ELSE s.bin
  <2> HIDE DEF rp, Star
  <2> QED BY <1>2
<1>4. /\ IsSeq(C.obs) /\ IsSeq(C.procs) /\ IsSeq(C.systs)
      /\ ToSet(C.systs) = {x \in ToSet(cb.systs) : x.mass \in F}
  BY SelectParts
<1>5. CASE ~Star(s)
  <2>1. s \in ToSet(cb.systs)
    BY <1>4
  <2>2. s.bin # "*"
    BY <2>1, NamesAssumption
  <2>3. s.bin = q.bin
    BY <1>3, <1>5, <2>2
  <2> QED BY <1>3, <2>3
<1>6. CASE Star(s)
  <2> DEFINE A == bins_rp(s.name, s.process)
             B == bins_all(s.process)
             U == ToSet(C.procs) \cup ToSet(C.systs)
             f == [x \in U |-> x.bin]
             g == [o \in ToSet(C.obs) |-> o.bin]
  <2>1. A \subseteq B
    OBVIOUS
  <2>2. q.bin \in B
    BY <1>3
  <2>3. IsFiniteSet({f[x] : x \in U})
    <3>1. IsFiniteSet(U)
      BY <1>4, FiniteElements, FS_Union
    <3>2. f = [x \in U |-> f[x]]
      OBVIOUS
    <3> HIDE DEF U, f
    <3> QED BY <3>1, <3>2, FiniteImage
  <2>4. IsFiniteSet({g[o] : o \in ToSet(C.obs)})
    <3>1. g = [o \in ToSet(C.obs) |-> g[o]]
      OBVIOUS
    <3>2. IsFiniteSet(ToSet(C.obs))
      BY <1>4, FiniteElements
    <3> HIDE DEF g
    <3> QED BY <3>1, <3>2, FiniteImage
  <2>5. B \subseteq {g[o] : o \in ToSet(C.obs)} \cup {f[x] : x \in U}
    OBVIOUS
  <2>6. Cardinality(A) = Cardinality(B)
    BY <1>6
  <2> HIDE DEF A, B, U, f, g
  <2>7. IsFiniteSet({g[o] : o \in ToSet(C.obs)} \cup {f[x] : x \in U})
    BY <2>3, <2>4, FS_Union
  <2>8. IsFiniteSet(B)
    BY <2>5, <2>7, FS_Subset
  <2>9. A = B
    BY <2>1, <2>6, <2>8, FS_Subset
  <2>10. q.bin \in A
    BY <2>2, <2>9
  <2> QED BY <1>3, <2>10 DEF A
<1> QED BY <1>5, <1>6

\* What is known of a card that has been parsed.
LEMMA ParsedKnown ==
  ASSUME ParsingInv, EntriesInv, pc = "parsed", Faithful
  PROVE  /\ cb \in Inputs /\ Expressible(Source) /\ Source = Select(cb, key)
         /\ Source.params = cb.params
         /\ IsSeq(Source.procs) /\ IsSeq(Source.systs)
         /\ ToSet(Source.systs) \subseteq ToSet(cb.systs)
         /\ ToSet(New("systs")) \subseteq ToSet(read.systs)
         /\ \A x : x \in ToSet(New("systs")) <=>
              \/ \E n \in Lined(Source), k \in DOMAIN Source.procs :
                   Seen(Source, n, k) # {} /\ x = NuisanceBack(LastSeen(Source, n, k))
              \/ \E l \in RateParamLines(Source), q \in ToSet(Source.procs) :
                   /\ l.bin \in {"*", q.bin} /\ l.process = q.process /\ l.kind = "rateParam"
                   /\ x = RateParamBack(l.name, q)
              \/ \E l \in ToSet(ParamLines(Source)) :
                   /\ l.kind = "param" /\ Source.procs # <<>>
                   /\ x = Entry(NoColumn, l.name, "param", FALSE, <<>>)
<1> DEFINE C == Source
           t == text[key]
<1>1. /\ cb \in Inputs /\ C = Select(cb, key) /\ key \in parsed /\ key \in complete
  BY DEF ParsingInv, BackInv, ReadingInv, TypesInv, ColumnsInv, Source
<1>2. Expressible(C)
  BY <1>1 DEF Faithful
<1>3. /\ C.params = cb.params /\ IsSeq(C.procs) /\ IsSeq(C.systs)
      /\ ToSet(C.systs) = {x \in ToSet(cb.systs) : x.mass \in key}
  BY <1>1, SelectParts
<1>4. Finished(t, C) /\ IsSeq(t)
  BY <1>1 DEF ParsingInv, LinesInv, BackInv, ReadingInv, CardsInv, Card
<1>5. PICK u : /\ IsSeq(u) /\ read.systs = base.systs \o u
               /\ ToSet(u) = UNION {EntriesOf(l) : l \in Before}
  BY DEF EntriesInv
<1>6. Before = ToSet(t)
  <2>1. Len(t) \in Nat /\ ToSet(t) = {t[j] : j \in 1..Len(t)}
    BY <1>4, SeqDomain DEF ToSet
  <2>2. i \in Nat /\ i > Len(t)
    BY DEF EntriesInv
  <2>3. {l \in 1..Len(t) : l < i} = 1..Len(t)
    BY <2>1, <2>2
  <2> QED BY <2>1, <2>3 DEF Before
<1>7. New("systs") = u /\ ToSet(u) \subseteq ToSet(read.systs)
  <2> DEFINE b == base.systs
  <2>1. IsSeq(b) /\ read.systs = b \o u
    BY <1>5 DEF EntriesInv
  <2>2. New("systs") = SubSeq(read.systs, Len(b) + 1, Len(read.systs))
    BY DEF New
  <2> HIDE DEF b
  <2>3. SubSeq(b \o u, Len(b) + 1, Len(b \o u)) = u
    BY <1>5, <2>1, AddedPart
  <2>4. ToSet(b \o u) = ToSet(b) \cup ToSet(u)
    BY <1>5, <2>1, Concat
  <2> QED BY <2>1, <2>2, <2>3, <2>4
<1>8. \A x : x \in ToSet(New("systs")) <=> \E l \in ToSet(t) : x \in EntriesOf(l)
  BY <1>5, <1>6, <1>7
<1>9. ASSUME NEW x
      PROVE  x \in ToSet(New("systs")) <=>
              \/ \E n \in Lined(C), k \in DOMAIN C.procs :
                   Seen(C, n, k) # {} /\ x = NuisanceBack(LastSeen(C, n, k))
              \/ \E l \in RateParamLines(C), q \in ToSet(C.procs) :
                   /\ l.bin \in {"*", q.bin} /\ l.process = q.process /\ l.kind = "rateParam"
                   /\ x = RateParamBack(l.name, q)
              \/ \E l \in ToSet(ParamLines(C)) :
                   /\ l.kind = "param" /\ C.procs # <<>>
                   /\ x = Entry(NoColumn, l.name, "param", FALSE, <<>>)
  BY <1>4, <1>8, EntriesAre
<1> QED BY <1>1, <1>2, <1>3, <1>7, <1>9

\* What the kind of an entry says of where it comes from.
LEMMA EntryKinds ==
  ASSUME ParsingInv, EntriesInv, pc = "parsed", Faithful, NEW x \in ToSet(New("systs"))
  PROVE  \/ /\ x.type \in NuisanceTypes
            /\ \E s \in ToSet(Source.systs), k \in DOMAIN Source.procs :
                 /\ s.type \in NuisanceTypes /\ MatchingProcess(s, Source.procs[k])
                 /\ x = NuisanceBack(s) /\ x.name = s.name
         \/ /\ x.type = "rateParam"
            /\ \E l \in RateParamLines(Source), q \in ToSet(Source.procs) :
                 /\ l.bin \in {"*", q.bin} /\ l.process = q.process
                 /\ x.name = l.name /\ x.bin = q.bin /\ x.process = q.process
         \/ /\ x.type = "param" /\ Source.procs # <<>>
            /\ \E l \in ToSet(ParamLines(Source)) : x.name = l.name
<1> DEFINE C == Source
<1>1. IsSeq(C.systs) /\ OncePerProcess(C)
  BY ParsedKnown DEF Expressible
<1>2. ASSUME NEW n \in Lined(C), NEW k \in DOMAIN C.procs, Seen(C, n, k) # {},
             x = NuisanceBack(LastSeen(C, n, k))
      PROVE  /\ x.type \in NuisanceTypes
             /\ \E s \in ToSet(C.systs) :
                  /\ s.type \in NuisanceTypes /\ MatchingProcess(s, C.procs[k])
                  /\ x = NuisanceBack(s) /\ x.name = s.name
  <2> DEFINE s == LastSeen(C, n, k)
  <2>1. PICK j \in Seen(C, n, k) : TRUE
    BY <1>2
  <2>2. s \in ToSet(C.systs) /\ s.type \in NuisanceTypes /\ MatchingProcess(s, C.procs[k])
    <3> HIDE DEF C
    <3> QED BY <1>1, <2>1, SeenOnce
  <2>3. x = NuisanceBack(s)
    BY <1>2
  <2> HIDE DEF s, C
  <2>4. x.type = s.type /\ x.name = s.name
    BY <2>3, NuisanceKind
  <2> QED BY <2>2, <2>3, <2>4
<1>3. ASSUME NEW l \in RateParamLines(C), NEW q \in ToSet(C.procs), x = RateParamBack(l.name, q)
      PROVE  x.type = "rateParam" /\ x.name = l.name /\ x.bin = q.bin /\ x.process = q.process
  BY <1>3, RateParamKind
<1>4. ASSUME NEW l \in ToSet(ParamLines(C)), x = Entry(NoColumn, l.name, "param", FALSE, <<>>)
      PROVE  x.type = "param" /\ x.name = l.name
  BY <1>4, ParamKind
<1>5. \/ \E n \in Lined(C), k \in DOMAIN C.procs :
           Seen(C, n, k) # {} /\ x = NuisanceBack(LastSeen(C, n, k))
      \/ \E l \in RateParamLines(C), q \in ToSet(C.procs) :
           /\ l.bin \in {"*", q.bin} /\ l.process = q.process /\ l.kind = "rateParam"
           /\ x = RateParamBack(l.name, q)
      \/ \E l \in ToSet(ParamLines(C)) :
           /\ l.kind = "param" /\ C.procs # <<>>
           /\ x = Entry(NoColumn, l.name, "param", FALSE, <<>>)
  BY ParsedKnown
<1> HIDE DEF C
<1>6. CASE \E n \in Lined(C), k \in DOMAIN C.procs :
             Seen(C, n, k) # {} /\ x = NuisanceBack(LastSeen(C, n, k))
  BY <1>2, <1>6 DEF C
<1>7. CASE \E l \in RateParamLines(C), q \in ToSet(C.procs) :
             /\ l.bin \in {"*", q.bin} /\ l.process = q.process /\ l.kind = "rateParam"
             /\ x = RateParamBack(l.name, q)
  BY <1>3, <1>7 DEF C
<1>8. CASE \E l \in ToSet(ParamLines(C)) :
             /\ l.kind = "param" /\ C.procs # <<>>
             /\ x = Entry(NoColumn, l.name, "param", FALSE, <<>>)
  BY <1>4, <1>8 DEF C
<1> QED BY <1>5, <1>6, <1>7, <1>8

\* Each nuisance on the processes it was on.
LEMMA NuisancesBack ==
  ASSUME ParsingInv, EntriesInv, pc = "parsed", Faithful
  PROVE  {s \in ToSet(New("systs")) : s.type \in NuisanceTypes} =
           {NuisanceBack(s) : s \in {x \in ToSet(Source.systs) :
              x.type \in NuisanceTypes /\ \E q \in ToSet(Source.procs) : MatchingProcess(x, q)}}
<1> DEFINE C == Source
           A == {s \in ToSet(New("systs")) : s.type \in NuisanceTypes}
           D == {x \in ToSet(C.systs) :
                   x.type \in NuisanceTypes /\ \E q \in ToSet(C.procs) : MatchingProcess(x, q)}
<1>1. /\ cb \in Inputs /\ Expressible(C) /\ C = Select(cb, key)
      /\ IsSeq(C.systs) /\ IsSeq(C.procs) /\ OncePerProcess(C)
  BY ParsedKnown DEF Expressible
<1>2. ASSUME NEW x \in A PROVE \E s \in D : x = NuisanceBack(s)
  <2>1. x \in ToSet(New("systs")) /\ x.type \in NuisanceTypes
    OBVIOUS
  <2>2. PICK s \in ToSet(C.systs), k \in DOMAIN C.procs :
          s.type \in NuisanceTypes /\ MatchingProcess(s, C.procs[k]) /\ x = NuisanceBack(s)
    BY <2>1, EntryKinds DEF NuisanceTypes, ShapeTypes
  <2>3. C.procs[k] \in ToSet(C.procs)
    BY DEF ToSet
  <2> QED BY <2>2, <2>3
<1>3. ASSUME NEW s \in D PROVE NuisanceBack(s) \in A
  <2>1. PICK k \in DOMAIN C.procs : MatchingProcess(s, C.procs[k])
    BY DEF ToSet
  <2>2. s \in ToSet(C.systs) /\ s.type \in NuisanceTypes
    OBVIOUS
  <2>3. s.name \in Lined(C) /\ Seen(C, s.name, k) # {} /\ LastSeen(C, s.name, k) = s
    <3>1. /\ Expressible(Select(cb, key)) /\ s \in ToSet(Select(cb, key).systs)
          /\ k \in DOMAIN Select(cb, key).procs /\ MatchingProcess(s, Select(cb, key).procs[k])
      BY <1>1, <2>1, <2>2
    <3>2. /\ s.name \in Lined(Select(cb, key)) /\ Seen(Select(cb, key), s.name, k) # {}
          /\ LastSeen(Select(cb, key), s.name, k) = s
      BY <1>1, <2>2, <3>1, EntrySeen
    <3> QED BY <1>1, <3>2
  <2>4. NuisanceBack(s) \in ToSet(New("systs"))
    BY <2>3, ParsedKnown
  <2> QED BY <2>2, <2>4, NuisanceKind
<1> HIDE DEF A, D
<1>4. A = {NuisanceBack(s) : s \in D}
  BY <1>2, <1>3
<1> QED BY <1>4 DEF A, D

\* The names of the "param" entries, if the card has a process.
LEMMA ParamsBack ==
  ASSUME ParsingInv, EntriesInv, pc = "parsed", Faithful
  PROVE  {s.name : s \in {x \in ToSet(New("systs")) : x.type = "param"}} =
           IF Source.procs = <<>> THEN {} ELSE param_set(Source)
<1> DEFINE C == Source
           A == {x \in ToSet(New("systs")) : x.type = "param"}
           named == {x \in param_set(C) :
                       x \in rateparam_set(C) \/ (x \notin sys_set(C) /\ C.params[x].err)}
<1>1. /\ cb \in Inputs /\ Expressible(C) /\ C = Select(cb, key) /\ C.params = cb.params
      /\ IsSeq(C.systs)
  BY ParsedKnown
<1>2. ToSet(ParamLines(C)) = {[kind |-> "param", name |-> n] : n \in named}
  <2> HIDE DEF C
  <2> QED BY <1>1, ParamTail
<1>3. named = param_set(C)
  <2> SUFFICES ASSUME NEW n \in param_set(C), n \notin rateparam_set(C)
               PROVE  n \notin sys_set(C) /\ C.params[n].err
    OBVIOUS
  <2>1. PICK s \in ToSet(C.systs) : s.name = n /\ s.type = "param"
    BY DEF param_set, Named
  <2>2. \A x \in ToSet(Select(cb, key).systs) :
          /\ x.name \notin rateparam_set(Select(cb, key)) /\ x.type \notin {"lnU", "shapeU"}
               => cb.params[x.name].err = TRUE
          /\ x.type \in NuisanceTypes => x.name \notin param_set(Select(cb, key))
    <3>1. Expressible(Select(cb, key))
      BY <1>1
    <3> QED BY <1>1, <3>1, ErrorsKnown
  <2>3. cb.params[n].err = TRUE
    BY <1>1, <2>1, <2>2
  <2>4. n \notin sys_set(C)
    BY <1>1, <2>2 DEF sys_set, Named
  <2> QED BY <1>1, <2>3, <2>4
<1> HIDE DEF named
<1>4. ASSUME NEW x \in A PROVE x.name \in param_set(C) /\ C.procs # <<>>
  <2>1. x \in ToSet(New("systs")) /\ x.type = "param"
    OBVIOUS
  <2>2. PICK l \in ToSet(ParamLines(C)) : C.procs # <<>> /\ x.name = l.name
    BY <2>1, EntryKinds DEF NuisanceTypes, ShapeTypes
  <2>3. l.name \in param_set(C)
    BY <1>2, <1>3
  <2> QED BY <2>2, <2>3
<1>5. ASSUME NEW n \in param_set(C), C.procs # <<>> PROVE \E x \in A : x.name = n
  <2> DEFINE l == [kind |-> "param", name |-> n]
             x == Entry(NoColumn, n, "param", FALSE, <<>>)
  <2>1. l \in ToSet(ParamLines(C)) /\ l.kind = "param" /\ l.name = n
    BY <1>2, <1>3
  <2> HIDE DEF l
  <2>2. x = Entry(NoColumn, l.name, "param", FALSE, <<>>)
    BY <2>1
  <2>3. x \in ToSet(New("systs"))
    BY <1>5, <2>1, <2>2, ParsedKnown
  <2>4. x.name = n /\ x.type = "param"
    BY ParamKind
  <2> QED BY <2>3, <2>4
<1> HIDE DEF A
<1>6. {s.name : s \in A} = IF C.procs = <<>> THEN {} ELSE param_set(C)
  BY <1>4, <1>5
<1> QED BY <1>6 DEF A

\* Each rateParam on the processes and bins it was on.
LEMMA RateParamsBack ==
  ASSUME ParsingInv, EntriesInv, pc = "parsed", Faithful
  PROVE  {<<s.name, s.bin, s.process>> : s \in {x \in ToSet(New("systs")) : x.type = "rateParam"}} =
           {<<s.name, s.bin, s.process>> :
              s \in {x \in ToSet(Source.systs) :
                       x.type = "rateParam"
                       /\ \E q \in ToSet(Source.procs) : x.bin = q.bin /\ x.process = q.process}}
<1> DEFINE C == Source
           A == {x \in ToSet(New("systs")) : x.type = "rateParam"}
           D == {x \in ToSet(C.systs) :
                   x.type = "rateParam"
                   /\ \E q \in ToSet(C.procs) : x.bin = q.bin /\ x.process = q.process}
<1>1. cb \in Inputs /\ C = Select(cb, key) /\ ToSet(C.systs) \subseteq ToSet(cb.systs)
  BY ParsedKnown
<1>2. ASSUME NEW x \in A
      PROVE  \E s \in D : s.name = x.name /\ s.bin = x.bin /\ s.process = x.process
  <2>1. x \in ToSet(New("systs")) /\ x.type = "rateParam"
    OBVIOUS
  <2>2. PICK l \in RateParamLines(C), q \in ToSet(C.procs) :
          /\ l.bin \in {"*", q.bin} /\ l.process = q.process
          /\ x.name = l.name /\ x.bin = q.bin /\ x.process = q.process
    BY <2>1, EntryKinds DEF NuisanceTypes, ShapeTypes
  <2>3. \E s \in ToSet(C.systs) :
          s.type = "rateParam" /\ s.name = l.name /\ s.bin = q.bin /\ s.process = q.process
    <3>1. l \in RateParamLines(Select(cb, key)) /\ q \in ToSet(Select(cb, key).procs)
      BY <1>1
    <3>2. \E s \in ToSet(Select(cb, key).systs) :
            s.type = "rateParam" /\ s.name = l.name /\ s.bin = q.bin /\ s.process = q.process
      BY <1>1, <2>2, <3>1, StarBins
    <3> QED BY <1>1, <3>2
  <2> QED BY <2>2, <2>3
<1>3. ASSUME NEW s \in D
      PROVE  \E x \in A : s.name = x.name /\ s.bin = x.bin /\ s.process = x.process
  <2>1. PICK q \in ToSet(C.procs) : s.bin = q.bin /\ s.process = q.process
    OBVIOUS
  <2>2. s \in ToSet(C.systs) /\ s.type = "rateParam"
    OBVIOUS
  <2>3. PICK l \in RateParamLines(C) : /\ l.kind = "rateParam" /\ l.name = s.name
                                       /\ l.process = s.process /\ l.bin \in {"*", s.bin}
    BY <2>2, RateParamNamed
  <2> DEFINE x == RateParamBack(l.name, q)
  <2>4. x \in ToSet(New("systs"))
    BY <2>1, <2>3, ParsedKnown
  <2>5. x.type = "rateParam" /\ x.name = l.name /\ x.bin = q.bin /\ x.process = q.process
    BY RateParamKind
  <2> HIDE DEF x
  <2> QED BY <2>1, <2>3, <2>4, <2>5
<1> HIDE DEF A, D
<1>4. {<<x.name, x.bin, x.process>> : x \in A} = {<<s.name, s.bin, s.process>> : s \in D}
  BY <1>2, <1>3
<1> QED BY <1>4 DEF A, D

\* The parameters of the nuisances.
LEMMA ParamsKept ==
  ASSUME ParsingInv, EntriesInv, ParamsInv, pc = "parsed", Faithful,
         NEW s \in ToSet(New("systs")), s.type \in NuisanceTypes
  PROVE  /\ read.params[s.name].err = cb.params[s.name].err
         /\ read.params[s.name].err => read.params[s.name].groups = cb.params[s.name].groups
<1> DEFINE C == Source
           n == s.name
<1>1. PICK x \in ToSet(C.systs), k \in DOMAIN C.procs : x.type \in NuisanceTypes /\ n = x.name
  BY EntryKinds DEF NuisanceTypes, ShapeTypes
<1>2. n \in sys_set(C)
  BY <1>1 DEF sys_set, Named
<1>3. C.procs # <<>>
  BY <1>1
<1>4. n \in DOMAIN read.params
  BY ParsedKnown DEF ParsingInv, BackInv, ReadingInv, ReadInv, HaveParams
<1>5. ~Later(n)
  BY DEF Later
<1>6. read.params[n].groups \subseteq cb.params[n].groups /\ read.params[n].err = cb.params[n].err
  BY <1>4, <1>5 DEF ParamsInv
<1>7. cb.params[n].err => cb.params[n].groups \subseteq read.params[n].groups
  BY <1>2, <1>3, <1>4 DEF ParamsInv
<1> QED BY <1>6, <1>7

EntriesKept == ParsingInv /\ EntriesInv /\ RecordsInv /\ ParamsInv

LEMMA EntriesHold == Spec => []EntriesKept
<1>1. Init => EntriesInv /\ RecordsInv /\ ParamsInv
  BY InitEntries, InitParams
<1>2. ParsingInv /\ ParsingInv' /\ EntriesInv /\ RecordsInv /\ ParamsInv /\ [Next]_vars
        => EntriesInv' /\ RecordsInv' /\ ParamsInv'
  <2> SUFFICES ASSUME ParsingInv, ParsingInv', EntriesInv, RecordsInv, ParamsInv, [Next]_vars
               PROVE  EntriesInv' /\ RecordsInv' /\ ParamsInv'
    OBVIOUS
  <2>1. PassedInv'
    BY DEF ParsingInv
  <2> QED BY <2>1, NextEntries, NextRecords, NextParams
<1> QED BY <1>1, <1>2, ParsingHolds, PTL DEF Spec, EntriesKept

\* What a card says of nuisances, parameters and rateParams reads back as it
\* was written, for every instance that a card can express, also where numbers
\* and shapes share a line, where one line stands for all bins of a process,
\* and where a parameter has lines of two kinds (NuisanceLine, RateParamLines,
\* ParamLines and GroupLines of WriteDatacard; the loops of ParseDatacard).
THEOREM NuisancesAreReadBack == Spec => []NuisancesReadBack
<1>1. EntriesKept => NuisancesReadBack
  <2> SUFFICES ASSUME ParsingInv, EntriesInv, ParamsInv, pc = "parsed", Faithful
               PROVE  NuisancesReadBack
    BY DEF EntriesKept, NuisancesReadBack, ReadBack
  <2>1. {s \in ToSet(New("systs")) : s.type \in NuisanceTypes} =
          {[bin |-> s.bin, process |-> s.process, signal |-> s.signal, mass |-> mass,
            name |-> s.name, type |-> s.type, hist |-> s.hist,
            from |-> Ident(s) \o IF s.hist THEN Suffix(s.name) ELSE <<>>] :
             s \in {x \in ToSet(Source.systs) :
                      x.type \in NuisanceTypes /\ \E q \in ToSet(Source.procs) : MatchingProcess(x, q)}}
    BY NuisancesBack DEF NuisanceBack
  <2>2. \A s \in ToSet(New("systs")) : s.type \in NuisanceTypes =>
          /\ read.params[s.name].err = cb.params[s.name].err
          /\ read.params[s.name].err => read.params[s.name].groups = cb.params[s.name].groups
    BY ParamsKept
  <2> QED BY <2>1, <2>2, ParamsBack, RateParamsBack DEF NuisancesReadBack
<1> QED BY <1>1, EntriesHold, PTL
=============================================================================
