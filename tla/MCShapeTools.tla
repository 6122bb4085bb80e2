----------------------------- MODULE MCShapeTools -----------------------------
(***************************************************************************)
(* Bounds for model checking ShapeTools: a signal and two backgrounds in   *)
(* four bins.                                                              *)
(***************************************************************************)
EXTENDS ShapeTools

Row(a, b, c, d) == [e \in 0..3 |-> <<a, b, c, d>>[e + 1]]
Wholes(a, b, c, d) == [e \in 0..3 |-> Whole(Row(a, b, c, d)[e])]

Falling == [v |-> Row(1, 4, 2, 1), e2 |-> Wholes(1, 4, 1, 1), u |-> Row(2, 3, 2, 1), d |-> Row(1, 4, 3, 1)]
Peaked == [v |-> Row(0, 2, 6, 0), e2 |-> Wholes(1, 2, 9, 0), u |-> Row(0, 4, 6, 1), d |-> Row(0, 2, 2, 0)]
Negative == [v |-> Row(3, 0, -1, 1), e2 |-> Wholes(9, 0, 1, 1), u |-> Row(3, 1, -1, 2), d |-> Row(5, 0, 1, 1)]

MCStarts ==
  {[p \in Procs |-> CASE p = "S" -> s [] p = "A" -> a [] p = "B" -> b] :
     s \in {Peaked}, a \in {Falling, Negative}, b \in {Falling, Peaked}}

MCSearches ==
  {[mode |-> m, content |-> c, fraction |-> f] : m \in 0..2, c \in {0, 3}, f \in {<<1, 4>>, <<2, 5>>}}
MCFactories ==
  {[add |-> <<1, 9>>, merge |-> m, zero |-> z, saturated |-> s, fixNorm |-> TRUE]
     : m \in {<<1, 2>>, <<1, 1>>}, z \in BOOLEAN, s \in BOOLEAN}
=============================================================================
