---------------------------- MODULE MCTraversals ----------------------------
(***************************************************************************)
(* All graphs over nine possible edges: a self-loop, edges both ways, two  *)
(* parallel edges of different relation and weight, a cheap detour that    *)
(* overtakes a dear edge, and a cycle of no weight.  The recursive         *)
(* searches start from all nodes or from node 3, the only one that was     *)
(* added while edges name the others.                                      *)
(***************************************************************************)
EXTENDS Traversals

E(x, y, r, w) == [from |-> x, to |-> y, rel |-> r, weight |-> w]

MCUniverse == {E(1, 1, "a", 0), E(1, 2, "a", 3), E(1, 2, "b", 1), E(1, 3, "a", 1),
               E(2, 3, "b", 0),
               E(2, 4, "a", 1), E(3, 2, "a", 0), E(3, 4, "a", 3), E(4, 1, "a", 1)}

Ask(algo, dst, rel, hops, roots) ==
  [algo |-> algo, src |-> 1, dst |-> dst, rel |-> rel, hops |-> hops, roots |-> roots]

MCQuery ==
  {Ask(a, d, r, 0, {}) : a \in {"bfs_path", "dijkstra_path"}, d \in {1, 2, 4}, r \in {"", "a"}}
  \cup {Ask(a, d, "", 0, {}) : a \in Csr, d \in {1, 4, 9}}
  \cup {Ask("bfs_neighborhood", 1, r, h, {}) : h \in 0 .. 2, r \in {"", "a"}}
  \cup {Ask(a, 1, "", 0, {}) : a \in {"bfs_component", "dfs_component", "dijkstra_all"}}
  \cup {Ask(a, 1, "", 0, s) : a \in Recursive, s \in {{3}, {1, 2, 3, 4}}}

TopoQuery == {Ask("dfs_topo_sort", 1, "", 0, Node)}
=============================================================================
