----------------------------- MODULE MCHarvester -----------------------------
(* Bounds, symmetry and view for model checking Harvester.                  *)
EXTENDS Harvester, TLC

MCNames == {1, 2}
MCVals == {0, 1}

HeapSymmetry == Permutations(ParamIds) \cup Permutations(SystIds)
                \cup Permutations(Insts \ {Root})

\* A cell no live instance points to is written before it is next read.
LiveParams == UNION {ParamsOf(i) : i \in live}
LiveSysts == UNION {systs[i] : i \in live}
HeapView ==
  <<live, fam, procs, systs, params, ub,
    {<<p, pname[p], pval[p], pfrozen[p]>> : p \in LiveParams},
    {<<s, sname[s], sproc[s]>> : s \in LiveSysts}>>
=============================================================================
