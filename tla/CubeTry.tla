---- MODULE CubeTry ----
EXTENDS MCTotalizer
NodesFrom(t) == UNION {{<<i, k>> : k \in DOMAIN t.layers[i]} : i \in 3..Len(t.layers)}
Avail == UNION {{<<j, x>> : x \in NodesFrom(totalizers[j])} : j \in DOMAIN totalizers}
CubesAsRequested == (phase = "written" /\ nCubes > 0 /\ Cardinality(Avail) >= nCubes) => Len(cubes) = 2^nCubes
====
