---------------------------- MODULE MCHybridGrid ----------------------------
(* Bounds for model checking HybridGrid.                                    *)
EXTENDS HybridGrid

\* p converges with two units of toys, the other points never do.
CONSTANT p
MCSignif == {<<p, 2>>}
=============================================================================
