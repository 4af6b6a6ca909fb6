---------------------------- MODULE GraphEngine ----------------------------
(***************************************************************************)
(* The graph engine (src/src/graph/graph_engine.{hpp,cpp}): the mutable    *)
(* graph, the index on node properties, and a compacted copy of the graph  *)
(* (src/src/graph/csr_graph.cpp), rebuilt on demand when the graph is      *)
(* dirty.  A row of the copy is again a bag of links.                      *)
(***************************************************************************)
EXTENDS DynamicGraph, FiniteSetsExt

CONSTANTS IndexKey, Value, NoValue,   \* of PropertyIndex
          NoRel,           \* the empty relation of an edge slot nobody filled
          MaxIndexedEdges  \* bound on the edges of a graph with index entries

ASSUME EngineAssumption == NoRel \notin Rel

VARIABLES index, entries,  \* prop_index_
          csr              \* csr_: the nodes and, for each, its row

INSTANCE PropertyIndex

ivars == <<index, entries>>
vars == <<gvars, ivars, csr>>

CsrLink == Node \X (Rel \cup {NoRel})

EmptyCsr == [nodes |-> {}, row |-> [x \in Node |-> [l \in CsrLink |-> 0]]]

\* Entries of a list whose target has no meta_ entry.
Dangling(links) == SumFunctionOnSet(links, {l \in Link : l[1] \notin meta})

(***************************************************************************)
(* One row as build_csr leaves it.  The degree pass reserves a slot for    *)
(* every edge and the fill pass skips those with an unknown target: their  *)
(* slots stay zero-initialised, which reads as an edge without relation to *)
(* index 0, the smallest id.                                               *)
(***************************************************************************)
CsrRow(x) ==
  [l \in CsrLink |-> IF l[2] = NoRel
                     THEN IF l[1] = Min(meta) THEN Dangling(adj[x]) ELSE 0
                     ELSE IF l[1] \in meta THEN adj[x][l] ELSE 0]

BuildCsr == [nodes |-> meta,
             row   |-> [x \in Node |-> IF x \in meta THEN CsrRow(x)
                                       ELSE [l \in CsrLink |-> 0]]]

\* csr(): compacts if dirty, and hands out the copy.
CsrQuery == /\ dirty
            /\ csr' = BuildCsr
            /\ dirty' = FALSE
            /\ UNCHANGED <<meta, adj, radj, edgeCount, maxNodeId, removed, ivars>>

EngineInit == Init /\ IndexInit /\ csr = EmptyCsr

Indexed == \E x \in Node : entries[x] # {}

EngineAddNode(x) == AddNode(x) /\ UNCHANGED <<ivars, csr>>

\* remove_node: the index first, if the graph knows the node.
EngineRemoveNode(x) ==
  /\ IF x \in meta THEN IndexRemove(x) ELSE UNCHANGED ivars
  /\ RemoveNode(x)
  /\ UNCHANGED csr

EngineAddEdge(x, y, r) == /\ Indexed => Total < MaxIndexedEdges
                          /\ AddEdge(x, y, r) /\ UNCHANGED <<ivars, csr>>

EngineRemoveEdge(x, y, r) == RemoveEdge(x, y, r) /\ UNCHANGED <<ivars, csr>>

IndexProperty(k, v, x) == /\ Total <= MaxIndexedEdges
                          /\ IndexAdd(k, v, x) /\ UNCHANGED <<gvars, csr>>
-----------------------------------------------------------------------------
\* A query that finds the graph clean reads a copy of the graph as it is now:
\* every mutation since the last compaction has set dirty_, and the copy has
\* the nodes and, among them, the edges of the graph (dynamic_graph.cpp:12,41,
\* 49,61, graph_engine.cpp:40-48, csr_graph.cpp:25-56).
CsrFresh ==
  ~dirty => /\ csr.nodes = meta
            /\ \A x, y \in meta, r \in Rel : csr.row[x][<<y, r>>] = adj[x][<<y, r>>]

\* A node the graph has just lost is found by no range query: remove_node has
\* met all its entries, whatever values the node has had
\* (property_index.cpp:4-14,30-39, graph_engine.cpp:11-17).
RemovedNodeUnlisted ==
  [][\A x \in meta \ meta', k \in IndexKey, lo, hi \in Value :
       x \notin Listed(k, lo, hi)']_vars
=============================================================================
