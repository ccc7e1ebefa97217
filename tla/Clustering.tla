----------------------------- MODULE Clustering -----------------------------
(***************************************************************************)
(* hdbscan_like_cluster of memory/consolidate.py: which episodes of a day  *)
(* are distilled together.  The episodes are points on a line, in whole    *)
(* numbers; the code has embeddings on a sphere and cosine distances, and  *)
(* uses of them only that they are ordered and subtracted.                 *)
(*                                                                         *)
(* Clusters is the code's way (a spanning tree, grown from the first       *)
(* point, its edges by weight, the groups of a prefix of them); Expected   *)
(* says what it amounts to, by the components of threshold graphs.         *)
(***************************************************************************)
EXTENDS Integers, FiniteSets, FiniteSetsExt, Sequences

CONSTANTS min_cluster_size, Positions, MaxPoints

ClusteringAssumption ==
    /\ min_cluster_size \in Int
    /\ Positions \subseteq Nat /\ IsFiniteSet(Positions)
    /\ MaxPoints \in Nat

VARIABLE points

Nodes == 1 .. Len(points)
TypeOK == points \in Seq(Positions) /\ Len(points) <= MaxPoints

Init == points = << >>
Arrive(p) == Len(points) < MaxPoints /\ points' = Append(points, p)
Next == \E p \in Positions : (\A i \in Nodes : p >= points[i]) /\ Arrive(p)
Spec == Init /\ [][Next]_points

-----------------------------------------------------------------------------

Dist(i, j) == IF points[i] > points[j] THEN points[i] - points[j] ELSE points[j] - points[i]
k == Max({1, Min({5, min_cluster_size - 1, Len(points) - 1})})
Row(i) == {Dist(i, j) : j \in Nodes}
Kdist ==   \* the k-th of each row, its own 0 among them
    [i \in Nodes |-> Min({d \in Row(i) : Cardinality({j \in Nodes : Dist(i, j) <= d}) >= k})]
mr ==
    LET kd == CHOOSE f \in {Kdist} : f = f   \* Kdist: the comparison has TLC compute it once
    IN  [i \in Nodes |-> [j \in Nodes |-> IF i = j THEN 0 ELSE Max({Dist(i, j), kd[i], kd[j]})]]

\* Prim from the first point; best[j] and src[j] for the points outside.
Nearest(t) == CHOOSE u \in Nodes \ t.tree : \A j \in Nodes \ t.tree :
                 t.best[u] < t.best[j] \/ (t.best[u] = t.best[j] /\ u <= j)
Planted(weight) == [tree |-> {1}, best |-> [j \in Nodes |-> weight[1][j]], src |-> [j \in Nodes |-> 1], edges |-> << >>]
Taken(weight, t, u) ==
    LET closer == {j \in Nodes \ (t.tree \cup {u}) : weight[u][j] < t.best[j]}
    IN  [tree |-> t.tree \cup {u},
         best |-> [j \in Nodes |-> IF j \in closer THEN weight[u][j] ELSE t.best[j]],
         src |-> [j \in Nodes |-> IF j \in closer THEN u ELSE t.src[j]],
         edges |-> Append(t.edges, [w |-> t.best[u], a |-> t.src[u], b |-> u])]
Grown(weight) ==
    LET grow[n \in 0 .. Len(points) - 1] ==
            IF n = 0 THEN Planted(weight) ELSE Taken(weight, grow[n - 1], Nearest(grow[n - 1]))
    IN  grow[Len(points) - 1].edges

\* By weight, and as they were where the weights are equal.
Place(edges, e) ==
    Cardinality({i \in 1 .. Len(edges) : edges[i].w < edges[e].w \/ (edges[i].w = edges[e].w /\ i <= e)})
ByWeight(edges) == [n \in 1 .. Len(edges) |-> edges[CHOOSE e \in 1 .. Len(edges) : Place(edges, e) = n]]

United(part, e) ==
    LET joined == {c \in part : e.a \in c \/ e.b \in c}
    IN  (part \ joined) \cup {UNION joined}
Groups(edges, n) ==   \* of the first n edges: the union-find, as the partition it keeps
    LET part[m \in 0 .. n] == IF m = 0 THEN {{i} : i \in Nodes} ELSE United(part[m - 1], edges[m])
    IN  part[n]
Big(part) == {c \in part : Cardinality(c) >= min_cluster_size}

\* The edges a cut may fall before: the first of its weight, not the last of all,
\* and with two groups of the least size before it.
mutant_Cuts(edges) ==
    {i \in 1 .. Len(edges) - 1 : edges[i].w > (IF i = 1 THEN 0 ELSE edges[i - 1].w) /\ Cardinality(Big(Groups(edges, i))) >= 2}
Cuts(edges) ==
    {i \in 1 .. Len(edges) - 1 : edges[i].w > (IF i = 1 THEN 0 ELSE edges[i - 1].w)
                                 /\ Cardinality(Big(Groups(edges, i - 1))) >= 2}

Clusters ==
    IF Len(points) < Max({2, min_cluster_size}) THEN {}
    ELSE LET weight == mr
             edges == ByWeight(Grown(weight))
             Score(i) == edges[i].w - (IF i = 1 THEN 0 ELSE edges[i - 1].w)
             cuts == Cuts(edges)
             best == {i \in cuts : \A j \in cuts : Score(i) >= Score(j)}
         IN  Big(Groups(edges, IF best = {} THEN Len(edges) ELSE Min(best) - 1))

-----------------------------------------------------------------------------

\* Components of the graph of the pairs nearer than w.
Further(near, reached) == [i \in Nodes |-> UNION {near[j] : j \in reached[i]}]
Below(weight, w) ==
    LET near == [i \in Nodes |-> {i} \cup {j \in Nodes : weight[i][j] < w}]
        reach[n \in 0 .. Len(points)] ==
            IF n = 0 THEN [i \in Nodes |-> {i}] ELSE Further(near, reach[n - 1])
    IN  {reach[Len(points)][i] : i \in Nodes}

\* The heights at which groups merge, the two groups a cut needs, and the one
\* height never considered: the merge of the last two groups.
Expected ==
    IF Len(points) < Max({2, min_cluster_size}) THEN {}
    ELSE LET weight == mr
             below == [w \in 1 .. Max(Positions) + 1 |-> Below(weight, w)]
             heights == {w \in 1 .. Max(Positions) : below[w] # below[w + 1]}
             Gap(w) == w - Max({0} \cup {h \in heights : h < w})
             cuts == {w \in heights : Cardinality(below[w]) > 2 /\ Cardinality(Big(below[w])) >= 2}
             best == {w \in cuts : \A v \in cuts : Gap(w) >= Gap(v)}
         IN  IF best = {} THEN {Nodes} ELSE Big(below[Min(best)])

\* The tree, the order of its edges and the prefix sums up to what the threshold
\* graphs say: where the points tie, which edge was taken makes no difference.
ClustersAreComponents == Clusters = Expected

\* "cut at the split that maximizes stability" (its docstring): two groups that
\* lie further apart than either is wide are two clusters.
TwoGroupsAreTwo ==
    \A n \in min_cluster_size .. Len(points) - min_cluster_size :
       LET width == Max({points[n] - points[1], points[Len(points)] - points[n + 1]})
       IN  points[n + 1] - points[n] > width => Cardinality(Clusters) = 2
=============================================================================
