----------------------------- MODULE Traversals -----------------------------
(***************************************************************************)
(* The graph queries (src/src/graph/{bfs,dfs,dijkstra}.cpp): one query q   *)
(* on one graph, both chosen in Init.  A step takes a node off the queue,  *)
(* the stack or the heap, or looks at one of its edges; the edges of a     *)
(* node come in any order, as insertions and removals may have left them.  *)
(* The path queries exist twice, on the lists and on the compacted copy    *)
(* (_csr); the copy is taken to have the same edges.                       *)
(*                                                                         *)
(* Assumed: weights are not negative, and the ids of the graph and of the  *)
(* query do not exceed max_node_id(), which sizes the arrays of bfs_path.  *)
(***************************************************************************)
EXTENDS Integers, SequencesExt

CONSTANTS Node,
          Universe,   \* the edges a graph may have: records from, to, rel, weight
          Query,      \* records algo, src, dst, rel, hops, roots
          AnyRel,     \* the empty rel_filter
          None

\* The graph is finite, and edges and queries are about its nodes; a target may
\* be one the graph does not have.
ASSUME TraversalsAssumption ==
  /\ IsFiniteSet(Node)
  /\ \A e \in Universe : {e.from, e.to} \subseteq Node /\ e.weight \in Nat
  /\ \A r \in Query : r.src \in Node /\ r.hops \in Nat /\ r.roots \subseteq Node

\* None is a value of its own.
ASSUME NoneAssumption ==
  /\ None \notin Int /\ None \notin Node
  /\ None \notin [cycle : BOOLEAN, nodes : Seq(Node)]
  /\ None \notin [nodes : Seq(Node), cost : Nat,
                 rels : Seq({e.rel : e \in Universe} \cup {None})]

VARIABLES
  edges, q,      \* the graph and the query
  work,          \* queue, stack or heap of <<cost, node>>; of the recursive
                 \* searches, the frames <<node, edges not yet looked at>>
  at, todo,      \* the item taken off, and its edges not yet looked at; of the
                 \* recursive searches, the roots not yet tried
  seen,          \* visited[] with the hop, or dist[]; None where unset
  parent, via,   \* parent[], via_rel[]
  done,          \* nodes whose edges were taken up; of the recursive searches,
                 \* the nodes left again
  out,           \* the vector of results
  result         \* what the query returned, or None

vars == <<edges, q, work, at, todo, seen, parent, via, done, out, result>>

BfsPath == {"bfs_path", "bfs_path_csr"}
DijkstraPath == {"dijkstra_path", "dijkstra_path_csr"}
Csr == {"bfs_path_csr", "dijkstra_path_csr"}
Dijkstra == DijkstraPath \cup {"dijkstra_all"}
Recursive == {"dfs_has_cycle", "dfs_topo_sort"}

Out(x) == {e \in edges : e.from = x /\ q.rel \in {AnyRel, e.rel}}

Init == /\ edges \in SUBSET Universe /\ q \in Query
        /\ work = IF q.algo \in Recursive THEN <<>> ELSE <<<<0, q.src>>>>
        /\ at = <<0, None>>
        /\ todo = IF q.algo \in Recursive THEN q.roots ELSE {}
        /\ seen = [x \in Node |-> IF q.algo \notin Recursive /\ x = q.src
                                  THEN 0 ELSE None]
        /\ parent = [x \in Node |-> None] /\ via = [x \in Node |-> None]
        /\ done = {} /\ out = <<>> /\ result = None

\* The path from the source that parent[] spells out, and its relations, which
\* the copy does not have.
PathTo(x, up) == LET path[y \in Node] == IF up[y] = None THEN <<y>>
                                         ELSE Append(path[up[y]], y)
                 IN path[x]
Rels(path, v) == IF q.algo \in Csr THEN <<>>
                 ELSE [k \in 1 .. Len(path) - 1 |-> v[path[k + 1]]]

Found(x, up, v, c) == [nodes |-> PathTo(x, up), rels |-> Rels(PathTo(x, up), v),
                       cost |-> c]
NoPath == [nodes |-> <<>>, rels |-> <<>>, cost |-> 0]

\* What the query returns when there is nothing left to take off.
Exhausted ==
  CASE q.algo \in {"bfs_component", "dfs_component"} -> [nodes |-> out]
    [] q.algo = "bfs_neighborhood" -> [hops |-> out]
    [] q.algo = "dijkstra_all" -> [dist |-> seen, parent |-> parent]
    [] OTHER -> NoPath

-----------------------------------------------------------------------------
\* Source and target are looked at first: a target the copy does not know, or
\* the source itself.
Unknown == q.algo \in Csr /\ q.dst \notin Node
Same == q.algo \in BfsPath /\ q.dst = q.src

AtOnce ==
  /\ result = None /\ (Unknown \/ Same)
  /\ result' = IF Unknown THEN NoPath ELSE [NoPath EXCEPT !.nodes = <<q.src>>]
  /\ UNCHANGED <<edges, q, work, at, todo, seen, parent, via, done, out>>

\* Heaps order by cost, then by node.
ComesNext(k) ==
  CASE q.algo = "dfs_component" -> k = Len(work)
    [] q.algo \in Dijkstra ->
         \A j \in 1 .. Len(work) \ {k} :
           \/ work[k][1] < work[j][1]
           \/ work[k][1] = work[j][1] /\ (work[k][2] < work[j][2] \/ k < j)
    [] OTHER -> k = 1

\* Fault: hops are counted one too far.
SkipsBeyond(item) == q.algo = "bfs_neighborhood" /\ item[1] > q.hops
Skips(item) ==
  CASE q.algo = "bfs_neighborhood" -> item[1] >= q.hops
    [] q.algo \in {"dfs_component", "dijkstra_path_csr"} -> item[2] \in done
    [] q.algo \in {"dijkstra_path", "dijkstra_all"} -> item[1] > seen[item[2]]
    [] OTHER -> FALSE

\* Fault: an item that is skipped is not popped.
PoppedLate(k) == IF Skips(work[k]) THEN work ELSE RemoveAt(work, k)
Popped(k) == RemoveAt(work, k)

Take ==
  /\ result = None /\ todo = {} /\ q.algo \notin Recursive
  /\ ~Unknown /\ ~Same
  /\ IF work = <<>>
     THEN result' = Exhausted /\ UNCHANGED <<work, at, todo, done, out>>
     ELSE \E k \in 1 .. Len(work) : LET item == work[k] IN
       /\ ComesNext(k)
       /\ work' = Popped(k)
       /\ at' = item
       /\ IF q.algo \in DijkstraPath /\ item[2] = q.dst
          THEN /\ result' = Found(q.dst, parent, via,
                                 IF q.algo \in Csr THEN seen[q.dst] ELSE item[1])
               /\ UNCHANGED <<todo, done, out>>
          ELSE /\ todo' = IF Skips(item) THEN {} ELSE Out(item[2])
               /\ done' = done \cup {item[2]}
               /\ out' = IF q.algo \in {"bfs_component", "dfs_component"} /\ ~Skips(item)
                         THEN Append(out, item[2]) ELSE out
               /\ UNCHANGED result
  /\ UNCHANGED <<edges, q, seen, parent, via>>

Cost(e) == CASE q.algo \in Dijkstra -> at[1] + e.weight
             [] q.algo = "dfs_component" -> 0
             [] OTHER -> at[1] + 1

\* Fault: a node reached before is not looked at again, whatever it costs.
AcceptsOnce(e) == seen[e.to] = None
Accepts(e) == CASE q.algo \in Dijkstra -> seen[e.to] = None \/ Cost(e) < seen[e.to]
                [] q.algo = "dfs_component" -> e.to \notin done
                [] OTHER -> seen[e.to] = None

Look ==
  /\ result = None /\ todo # {} /\ q.algo \notin Recursive
  /\ \E e \in todo :
       /\ todo' = todo \ {e}
       /\ IF Accepts(e)
          THEN /\ seen' = [seen EXCEPT ![e.to] = Cost(e)]
               /\ parent' = [parent EXCEPT ![e.to] = at[2]]
               /\ via' = [via EXCEPT ![e.to] = e.rel]
               /\ IF q.algo \in BfsPath /\ e.to = q.dst
                  THEN result' = Found(q.dst, parent', via', 0) /\ UNCHANGED work
                  ELSE work' = Append(work, <<Cost(e), e.to>>) /\ UNCHANGED result
               /\ out' = IF q.algo = "bfs_neighborhood"
                         THEN Append(out, <<e.to, Cost(e), at[2], e.rel>>) ELSE out
          ELSE UNCHANGED <<seen, parent, via, work, out, result>>
  /\ UNCHANGED <<edges, q, at, done>>

-----------------------------------------------------------------------------
(***************************************************************************)
(* The recursive searches: a node is gray while it is seen and not done.   *)
(***************************************************************************)
Root ==
  /\ result = None /\ q.algo \in Recursive /\ work = <<>>
  /\ IF todo = {}
     THEN /\ result' = [cycle |-> FALSE, nodes |-> Reverse(out)]
          /\ UNCHANGED <<todo, seen, work>>
     ELSE \E x \in todo :
            /\ todo' = todo \ {x}
            /\ IF seen[x] = None
               THEN seen' = [seen EXCEPT ![x] = 0] /\ work' = <<<<x, Out(x)>>>>
               ELSE UNCHANGED <<seen, work>>
            /\ UNCHANGED result
  /\ UNCHANGED <<edges, q, at, parent, via, done, out>>

\* Fault: every node met before closes a cycle.
GraySeen(x) == seen[x] # None
Gray(x) == seen[x] # None /\ x \notin done

Visit ==
  /\ result = None /\ q.algo \in Recursive /\ work # <<>>
  /\ LET node == Last(work)[1]
         left == Last(work)[2]
     IN \/ /\ left = {}
           /\ done' = done \cup {node} /\ out' = Append(out, node)
           /\ work' = Front(work)
           /\ UNCHANGED <<seen, result>>
        \/ \E e \in left :
             LET rest == Append(Front(work), <<node, left \ {e}>>) IN
             /\ result' = IF q.algo = "dfs_has_cycle" /\ Gray(e.to)
                          THEN [cycle |-> TRUE, nodes |-> <<>>] ELSE None
             /\ IF seen[e.to] = None
                THEN /\ seen' = [seen EXCEPT ![e.to] = 0]
                     /\ work' = Append(rest, <<e.to, Out(e.to)>>)
                ELSE work' = rest /\ UNCHANGED seen
             /\ UNCHANGED <<done, out>>
  /\ UNCHANGED <<edges, q, at, todo, parent, via>>

Next == AtOnce \/ Take \/ Look \/ Root \/ Visit

\* A query runs on one thread until it returns.
Spec == Init /\ [][Next]_vars /\ WF_vars(Next)
-----------------------------------------------------------------------------
(***************************************************************************)
(* Reference definitions, by the number of edges a walk may have.          *)
(***************************************************************************)
N == Cardinality(Node)
Usable == {e \in edges : q.rel \in {AnyRel, e.rel}}

\* Nodes that walks of at most k edges reach from a set of nodes.
Within(S, k) == LET reach[j \in 0 .. k] ==
                      IF j = 0 THEN S
                      ELSE LET R == reach[j - 1] IN
                           R \cup {e.to : e \in {f \in Usable : f.from \in R}}
                IN reach[k]

\* The least cost of a walk of at most k edges from q.src to each node.
Cheapest(k) ==
  LET best[j \in 0 .. k] ==
        IF j = 0 THEN [x \in Node |-> IF x = q.src THEN 0 ELSE None]
        ELSE LET b == best[j - 1] IN
             [x \in Node |->
                LET costs == ({b[x]} \cup {b[e.from] + e.weight : e \in
                                {f \in Usable : f.to = x /\ b[f.from] # None}}) \ {None}
                IN IF costs = {} THEN None ELSE Min(costs)]
  IN best[k]

OnCycle(x) == x \in Within({e.to : e \in {f \in Usable : f.from = x}}, N)

\* A node on a cycle that a search from q.roots can come to.
Cyclic == \E x \in Within(q.roots, N) : OnCycle(x)

\* A path of the graph from q.src to q.dst along edges of the relations named.
IsPath(r) ==
  /\ Len(r.nodes) > 0 /\ r.nodes[1] = q.src /\ Last(r.nodes) = q.dst
  /\ \A k \in 1 .. Len(r.nodes) - 1 :
       \E e \in Usable : /\ e.from = r.nodes[k] /\ e.to = r.nodes[k + 1]
                         /\ q.algo \in Csr \/ e.rel = r.rels[k]

\* Lists every node of S once.
Lists(s, S) == Range(s) = S /\ Len(s) = Cardinality(S)

\* Breadth-first queries: the path found is a shortest one, and none is found
\* only when there is none; a neighbourhood lists every node within the hops
\* once, at its distance and with the edge that led there; a component lists
\* what is reachable (bfs.cpp).
BfsExact ==
  result # None =>
    /\ q.algo \in BfsPath =>
         IF q.dst \in Within({q.src}, N)
         THEN IsPath(result) /\ q.dst \in Within({q.src}, Len(result.nodes) - 1)
              /\ \A k \in 0 .. Len(result.nodes) - 2 : q.dst \notin Within({q.src}, k)
         ELSE result = NoPath
    /\ q.algo = "bfs_neighborhood" =>
         /\ Lists([k \in DOMAIN result.hops |-> result.hops[k][1]],
                  Within({q.src}, q.hops) \ {q.src})
         /\ \A h \in Range(result.hops) :
              /\ h[1] \notin Within({q.src}, h[2] - 1)
              /\ h[3] \in Within({q.src}, h[2] - 1)
              /\ \E e \in Usable : e.from = h[3] /\ e.to = h[1] /\ e.rel = h[4]
    /\ q.algo = "bfs_component" => Lists(result.nodes, Within({q.src}, N))

\* Weighted queries: the cost reported is the least there is and is that of the
\* path reported, with stale heap entries, ties, zero weights and parallel
\* edges; dijkstra_all has exactly the reachable nodes (dijkstra.cpp).
DijkstraExact ==
  result # None =>
    /\ q.algo \in DijkstraPath =>
         IF q.dst \notin Node \/ Cheapest(N)[q.dst] = None THEN result = NoPath
         ELSE /\ IsPath(result) /\ result.cost = Cheapest(N)[q.dst]
              /\ \A k \in 1 .. Len(result.nodes) - 1 :
                   \E e \in Usable :
                     /\ e.from = result.nodes[k] /\ e.to = result.nodes[k + 1]
                     /\ Cheapest(N)[e.to] = Cheapest(N)[e.from] + e.weight
    /\ q.algo = "dijkstra_all" => result.dist = Cheapest(N)

\* Depth-first queries: the component; whether the nodes the search starts from
\* lead to a cycle; and if they do not, an order of all they lead to in which
\* every edge leads forward (dfs.cpp).
DfsExact ==
  result # None =>
    /\ q.algo = "dfs_component" => Lists(result.nodes, Within({q.src}, N))
    /\ q.algo = "dfs_has_cycle" => (result.cycle <=> Cyclic)
    /\ q.algo = "dfs_topo_sort" /\ ~Cyclic =>
         /\ Lists(result.nodes, Within(q.roots, N))
         /\ \A j, k \in DOMAIN result.nodes :
              (\E e \in Usable : e.from = result.nodes[j] /\ e.to = result.nodes[k])
              => j < k

\* "Topological sort - returns empty if cycle exists" (dfs.hpp:11).
TopoSortEmptyOnCycle ==
  (result # None /\ q.algo = "dfs_topo_sort" /\ Cyclic) => result.nodes = <<>>

\* Every query returns, with loops in the graph and whatever the order of edges.
QueriesEnd == <>(result # None)
=============================================================================
