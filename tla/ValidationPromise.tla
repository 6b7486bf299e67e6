------------------------- MODULE ValidationPromise -------------------------
(***************************************************************************)
(* What validate_contract promises, stated on the graph alone and without  *)
(* reference to the walk: reachability as the least closed set, depth as   *)
(* the least strictly increasing labelling, a cycle as a set of nodes each *)
(* of which has a child in the set.                                        *)
(***************************************************************************)
EXTENDS ContractGraph

ClosedUnderChildren(g, S) == \A n \in S : ChildSet(g, n) \subseteq S

\* The nodes reachable from r: the least closed set that contains it.
Reach(g, r) ==
  {n \in Node : \A S \in SUBSET Node :
                  r \in S /\ ClosedUnderChildren(g, S) => n \in S}

\* A cycle below r: nobody in S leaves it.
Cyclic(g, r) ==
  LET R == Reach(g, r)
  IN  \E S \in SUBSET R : S # {} /\ \A n \in S : ChildSet(g, n) \cap S # {}

\* L gives every child a greater label than its parent.
IncreasingLabels(g, R, L) ==
  \A n \in R : \A c \in ChildSet(g, n) : L[c] > L[n]

\* No path from r visits more than d nodes: there is room for a label per
\* level.  The depth of the graph is the least such d.
FitsDepth(g, r, d) ==
  LET R == Reach(g, r)
  IN  \E L \in [R -> 1..d] : IncreasingLabels(g, R, L)

IsDepth(g, r, d) ==
  /\ FitsDepth(g, r, d)
  /\ \A e \in 1..(d - 1) : ~FitsDepth(g, r, e)

NodeAccepted(g, n) ==
  IsSupported(g[n]) /\ IsIterable(g[n]) /\ NodeError(g, n) = Pass

\* ContractMetrics are returned only for a well-formed DAG within the limits,
\* and they measure it.
AcceptancePromised(g, r, lim, res) ==
  /\ lim.form = "exact"
  /\ IsContract(g[r])
  /\ \A n \in Reach(g, r) : NodeAccepted(g, n)
  /\ res.nodeCount = Cardinality(Reach(g, r))
  /\ res.nodeCount <= lim.nodes
  /\ IsDepth(g, r, res.maxDepth)
  /\ res.maxDepth <= lim.depth

\* The inputs for which there are metrics to return.
Acceptable(g, r, lim) ==
  LET R == Reach(g, r)
  IN  /\ lim.form = "exact"
      /\ IsContract(g[r])
      /\ \A n \in R : NodeAccepted(g, n)
      /\ Cardinality(R) <= lim.nodes
      /\ FitsDepth(g, r, lim.depth)

\* An error is raised only for a defect of its kind that is really there.
RejectionPromised(g, r, lim, kind) ==
  \/ kind = "ContractCycleError" /\ Cyclic(g, r)
  \/ /\ kind = "ContractComplexityError"
     /\ \/ ~FitsDepth(g, r, lim.depth)
        \/ Cardinality(Reach(g, r)) > lim.nodes
  \/ /\ kind = Invalid
     /\ \/ lim.form = "forged"
        \/ ~IsContract(g[r])
        \/ \E n \in Reach(g, r) : \/ ~IsSupported(g[n])
                                  \/ NodeError(g, n) \in {Invalid, InvalidNoPath}
  \/ /\ kind = Mismatch
     /\ \/ lim.form = "foreign"
        \/ \E n \in Reach(g, r) : IsSupported(g[n]) /\ NodeError(g, n) = Mismatch
  \/ /\ kind = "PythonError"
     /\ \E n \in Reach(g, r) : IsSupported(g[n]) /\ ~IsIterable(g[n])

ValidationPromised(in, res) ==
  LET g == in.graph
      r == in.root
      lim == in.limits
  IN  IF res.kind = "metrics" THEN AcceptancePromised(g, r, lim, res)
                              ELSE RejectionPromised(g, r, lim, res.kind)
=============================================================================
