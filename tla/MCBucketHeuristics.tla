-------------------------- MODULE MCBucketHeuristics --------------------------
(****************************************************************************)
(* Small instances of BucketHeuristics.                                     *)
(****************************************************************************)
EXTENDS BucketHeuristics, Functions, TLC

CONSTANT MaxEdges  \* bound: the copies of all edges together

ASSUME MaxEdgesAssumption == MaxEdges \in Nat

Config(algorithm, depth, amount, pruneFlips) ==
  [algorithm |-> algorithm, depth |-> depth, amount |-> amount, pruneFlips |-> pruneFlips]

\* Every algorithm, with depths below and above the longest paths.
SmallConfigs ==
  {Config("NAIVEOPT", 0, 1, FALSE), Config("IMPROOPT", 1, 2, FALSE),
   Config("BFSCS", 0, 1, FALSE), Config("BFSCS", 1, 1, FALSE), Config("BFSCS", 3, 1, FALSE),
   Config("KFLIPSCS", 0, 2, FALSE), Config("KFLIPSCS", 0, 1, TRUE),
   Config("RWALKCS", 2, 2, FALSE), Config("MAXDECENDING", 0, 1, FALSE),
   Config("MAXDECENDING", 0, 1, TRUE)}

\* One configuration for a search, for a descent, for a walk and for single flips.
LoopConfigs ==
  {Config("NAIVEOPT", 0, 1, FALSE), Config("MAXDECENDING", 0, 1, FALSE),
   Config("RWALKCS", 2, 2, FALSE), Config("KFLIPSCS", 0, 2, FALSE)}

\* The sequences with no more than MaxEdges copies of all edges at a time.
copiesOfAll == SumFunction(edges)

SparseNext ==
  \/ \E source, target \in Node : \/ copiesOfAll < MaxEdges /\ handleInsertion(source, target)
                                  \/ handleDeletion(source, target)
  \/ insertion_undefined
  \/ handlerStep

SparseSpec == Init /\ [][SparseNext]_vars /\ Fairness

Symmetry == Permutations(Node)
=============================================================================
