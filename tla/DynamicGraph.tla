---------------------------- MODULE DynamicGraph ----------------------------
(***************************************************************************)
(* The mutable graph (src/src/graph/dynamic_graph.{hpp,cpp}).  Every edge  *)
(* is stored twice, in the adjacency list of its source (adj_) and in the  *)
(* reverse list of its target (radj_), and the two are maintained by hand. *)
(* A list is modelled as a bag: the number of entries for every neighbour  *)
(* and relation; the order of a list and the weights are left out.  Edges  *)
(* may name nodes that were never added, and parallel edges and self-loops *)
(* are allowed, as in the code.                                            *)
(***************************************************************************)
EXTENDS Integers, Functions, FiniteSets

CONSTANTS Node,        \* node ids
          Rel,         \* relation names
          MaxEdges,    \* bound on the entries of the adjacency lists
          MaxRemoved   \* bound on the calls of remove_edge

ASSUME GraphAssumption ==
  /\ Node \subseteq Nat /\ IsFiniteSet(Node) /\ IsFiniteSet(Rel)
  /\ MaxEdges \in Nat /\ MaxRemoved \in Nat

VARIABLES
  meta,         \* nodes with an entry in meta_
  adj, radj,    \* adj_ and radj_
  edgeCount,    \* edge_count_
  maxNodeId,    \* max_node_id_
  dirty,        \* dirty_
  removed       \* history: how often remove_edge was called

gvars == <<meta, adj, radj, edgeCount, maxNodeId, dirty, removed>>

Link == Node \X Rel                      \* to and rel_type of an Edge

NoLinks == [l \in Link |-> 0]

Init == /\ meta = {}
        /\ adj = [x \in Node |-> NoLinks] /\ radj = [x \in Node |-> NoLinks]
        /\ edgeCount = 0
        /\ maxNodeId = -1
        /\ dirty = FALSE
        /\ removed = 0

Size(links) == SumFunction(links)

\* remove_if on one list, by target alone and by target and relation.
DropTo(links, x) == [l \in Link |-> IF l[1] = x THEN 0 ELSE links[l]]

DropLink(links, x, r) == [links EXCEPT ![<<x, r>>] = 0]

LinksTo(links, x) == \E r \in Rel : links[<<x, r>>] > 0

AddNode(id) == /\ meta' = meta \cup {id}
               /\ maxNodeId' = IF id > maxNodeId THEN id ELSE maxNodeId
               /\ dirty' = TRUE
               /\ UNCHANGED <<adj, radj, edgeCount, removed>>

(***************************************************************************)
(* remove_node: the out-edges first, then the in-edges that are left.      *)
(***************************************************************************)
\* Fault: only the lists of the node itself are erased.
RemoveNodeOneSided(id) ==
  /\ adj' = [adj EXCEPT ![id] = NoLinks]
  /\ radj' = [radj EXCEPT ![id] = NoLinks]
  /\ edgeCount' = edgeCount - Size(adj[id]) - Size(radj[id])
  /\ meta' = meta \ {id}
  /\ dirty' = TRUE
  /\ UNCHANGED <<maxNodeId, removed>>

\* Fault: the in-edges are counted before the out-edges are gone.
RemoveNodeCountsLoopsTwice(id) ==
  /\ adj' = [x \in Node |-> IF x = id THEN NoLinks ELSE DropTo(adj[x], id)]
  /\ radj' = [x \in Node |-> IF x = id THEN NoLinks ELSE DropTo(radj[x], id)]
  /\ edgeCount' = edgeCount - Size(adj[id]) - Size(radj[id])
  /\ meta' = meta \ {id}
  /\ dirty' = TRUE
  /\ UNCHANGED <<maxNodeId, removed>>

RemoveNode(id) ==
  LET radj1 == [x \in Node |-> IF LinksTo(adj[id], x) THEN DropTo(radj[x], id)
                                                      ELSE radj[x]]
      adj1  == [adj EXCEPT ![id] = NoLinks]
  IN
  /\ adj' = [x \in Node |-> IF LinksTo(radj1[id], x) THEN DropTo(adj1[x], id)
                                                     ELSE adj1[x]]
  /\ radj' = [radj1 EXCEPT ![id] = NoLinks]
  /\ edgeCount' = edgeCount - Size(adj[id]) - Size(radj1[id])
  /\ meta' = meta \ {id}
  /\ dirty' = TRUE
  /\ UNCHANGED <<maxNodeId, removed>>

AddEdge(from, to, r) ==
  /\ SumFunction([x \in Node |-> Size(adj[x])]) < MaxEdges
  /\ adj' = [adj EXCEPT ![from][<<to, r>>] = @ + 1]
  /\ radj' = [radj EXCEPT ![to][<<from, r>>] = @ + 1]
  /\ edgeCount' = edgeCount + 1
  /\ dirty' = TRUE
  /\ UNCHANGED <<meta, maxNodeId, removed>>

\* Faults: the reverse list is forgotten; the CSR copy is not invalidated.
RemoveEdgeForwardOnly(from, to, r) ==
  /\ removed < MaxRemoved
  /\ adj' = [adj EXCEPT ![from] = DropLink(@, to, r)]
  /\ edgeCount' = edgeCount - (IF adj[from][<<to, r>>] > 0 THEN 1 ELSE 0)
  /\ removed' = removed + 1
  /\ dirty' = TRUE
  /\ UNCHANGED <<radj, meta, maxNodeId>>
RemoveEdgeStaysClean(from, to, r) ==
  /\ removed < MaxRemoved
  /\ adj' = [adj EXCEPT ![from] = DropLink(@, to, r)]
  /\ radj' = [radj EXCEPT ![to] = DropLink(@, from, r)]
  /\ edgeCount' = edgeCount - (IF adj[from][<<to, r>>] > 0 THEN 1 ELSE 0)
                            - (IF radj[to][<<from, r>>] > 0 THEN 1 ELSE 0)
  /\ removed' = removed + 1
  /\ UNCHANGED <<meta, maxNodeId, dirty>>

\* remove_edge: remove_from counts once for each list it shortens, however
\* many entries go.
RemoveEdge(from, to, r) ==
  /\ removed < MaxRemoved
  /\ adj' = [adj EXCEPT ![from] = DropLink(@, to, r)]
  /\ radj' = [radj EXCEPT ![to] = DropLink(@, from, r)]
  /\ edgeCount' = edgeCount - (IF adj[from][<<to, r>>] > 0 THEN 1 ELSE 0)
                            - (IF radj[to][<<from, r>>] > 0 THEN 1 ELSE 0)
  /\ removed' = removed + 1
  /\ dirty' = TRUE
  /\ UNCHANGED <<meta, maxNodeId>>

Mutate == \E x \in Node :
            \/ AddNode(x)
            \/ RemoveNode(x)
            \/ \E y \in Node, r \in Rel : AddEdge(x, y, r) \/ RemoveEdge(x, y, r)

\* The mutations on their own; GraphEngine adds the readers.
Spec == Init /\ [][Mutate]_gvars
-----------------------------------------------------------------------------
TypeOK == /\ meta \in SUBSET Node
          /\ adj \in [Node -> [Link -> Nat]]
          /\ radj \in [Node -> [Link -> Nat]]
          /\ edgeCount \in Int
          /\ maxNodeId \in Node \cup {-1}
          /\ dirty \in BOOLEAN

\* The reverse lists mirror the forward lists, parallel edges and self-loops
\* included: neighbors and reverse_neighbors never disagree about an edge, and
\* remove_node finds every list it has to clean (dynamic_graph.cpp:16-62).
Mirror == \A x, y \in Node, r \in Rel : adj[x][<<y, r>>] = radj[y][<<x, r>>]

\* After remove_node no list mentions the node, whatever edges it had; a node
\* added later under the same id starts without edges.
RemovedNodeGone ==
  [][\A x \in Node \ meta' : RemoveNode(x) =>
       /\ \A y \in Node : ~LinksTo(adj'[y], x) /\ ~LinksTo(radj'[y], x)
       /\ adj'[x] = NoLinks /\ radj'[x] = NoLinks]_gvars

\* Number of edges in the graph.
Total == SumFunction([x \in Node |-> Size(adj[x])])

\* As long as remove_edge has not been called, edge_count_ is exact: in
\* remove_node every edge counts once, be it parallel or a self-loop.
CountExact == removed = 0 => edgeCount = Total

\* GRAPH.INFO reports edge_count_ as the number of "edges"
\* (dispatcher.cpp:259-264).
InfoCountsEdges == edgeCount = Total
=============================================================================
