---------------------------- MODULE Dispatcher ----------------------------
(***************************************************************************)
(* The dispatcher (src/src/dispatch/dispatcher.cpp) over the graph engine: *)
(* a command goes to one of three handlers by its name, which looks for    *)
(* the name and the number of arguments in its table, converts the numeric *)
(* arguments and calls the engine.  The engines behind handle_kv and       *)
(* handle_zset are in KVEngine and SkipList; here those commands show      *)
(* their routing and how they fail.  Conversions throw when an argument is *)
(* no number: handle_graph and handle_zset catch that, handle_kv does not, *)
(* and neither does anything above it (server.cpp, reactor.hpp, main.cpp), *)
(* so that the process ends.                                               *)
(***************************************************************************)
EXTENDS GraphEngine, TLC

VARIABLES reply,    \* of the command last dispatched; "none" once it is sent
          alive     \* the process is running

dvars == <<vars, reply, alive>>

engine == <<gvars, ivars, csr>>

\* The names each handler compares with: the least args.size(), and whether
\* there are arguments it converts to numbers.
GraphElements ==
  [GRAPH_ADD_NODE |-> 3, GRAPH_DEL_NODE |-> 2, GRAPH_ADD_EDGE |-> 4,
   GRAPH_DEL_EDGE |-> 4, GRAPH_NODE |-> 2, GRAPH_HAS_NODE |-> 2,
   GRAPH_HAS_EDGE |-> 3, GRAPH_NEIGHBORS |-> 2, GRAPH_REVNEIGHBORS |-> 2]
GraphQueries ==
  [GRAPH_PATH |-> 3, GRAPH_WPATH |-> 3, GRAPH_NEIGHBORHOOD |-> 3,
   GRAPH_COMPONENT |-> 2, GRAPH_DISTANCES |-> 2, GRAPH_INDEX_PROP |-> 5,
   GRAPH_RANGE |-> 5, GRAPH_EXACT |-> 4]
NumericGraph == GraphElements @@ GraphQueries
PlainGraph == [GRAPH_LABEL_NODES |-> 2, GRAPH_HAS_CYCLE |-> 1, GRAPH_INFO |-> 1]
NumericZset == [ZADD |-> 4, ZRANGE |-> 4, ZRANGEBYSCORE |-> 4]
PlainZset == [ZREM |-> 3, ZSCORE |-> 3, ZCARD |-> 2, ZRANK |-> 3,
              BGSAVE |-> 1, BGRESTORE |-> 1, SAVE |-> 1]
NumericKv == [SET |-> 5, EXPIRE |-> 3, PEXPIRE |-> 3]     \* SET with EX or PX
PlainKv == [PING |-> 1, SET |-> 3, GET |-> 2, DEL |-> 2, EXISTS |-> 2, TTL |-> 2, PTTL |-> 2,
            PERSIST |-> 2, DBSIZE |-> 1, COMMAND |-> 1]

Writes == {"GRAPH_ADD_NODE", "GRAPH_DEL_NODE", "GRAPH_ADD_EDGE", "GRAPH_DEL_EDGE",
           "GRAPH_INDEX_PROP"}

\* Names by what dispatch() looks at: a prefix, or a first letter.
GraphName == DOMAIN NumericGraph \cup DOMAIN PlainGraph \cup {"GRAPH_OTHER"}
ZName == {"ZADD", "ZRANGE", "ZRANGEBYSCORE", "ZREM", "ZSCORE", "ZCARD", "ZRANK", "ZOTHER"}
OtherName == DOMAIN NumericKv \cup DOMAIN PlainKv \cup {"SAVE", "BGSAVE", "BGRESTORE", "OTHER"}

ArgCount == {1, 5}     \* args.size(): too few for most commands, enough for all

DispatcherInit == EngineInit /\ reply = "none" /\ alive = TRUE

Answer(r) == reply' = r /\ UNCHANGED alive
-----------------------------------------------------------------------------
\* Whether a handler knows the command, by its two tables.
Knows(numeric, plain, cmd, n) == \/ cmd \in DOMAIN numeric /\ n >= numeric[cmd]
                                 \/ cmd \in DOMAIN plain /\ n >= plain[cmd]

\* Whether it fails on the way to the engine.
Throws(numeric, cmd, n, parses) == cmd \in DOMAIN numeric /\ n >= numeric[cmd] /\ ~parses

\* A call of the engine that changes it.
Write(cmd) ==
  \/ \E x \in Node : \/ cmd = "GRAPH_ADD_NODE" /\ EngineAddNode(x)
                     \/ cmd = "GRAPH_DEL_NODE" /\ EngineRemoveNode(x)
  \/ \E x, y \in Node, r \in Rel : \/ cmd = "GRAPH_ADD_EDGE" /\ EngineAddEdge(x, y, r)
                                   \/ cmd = "GRAPH_DEL_EDGE" /\ EngineRemoveEdge(x, y, r)
  \/ \E x \in Node, k \in IndexKey, v \in Value :
       cmd = "GRAPH_INDEX_PROP" /\ IndexProperty(k, v, x)

HandleGraph(cmd, n, parses) ==
  \/ /\ ~Knows(NumericGraph, PlainGraph, cmd, n)
     /\ Answer("unknown") /\ UNCHANGED engine
  \/ /\ Throws(NumericGraph, cmd, n, parses)
     /\ Answer("bad args") /\ UNCHANGED engine
  \/ /\ Knows(NumericGraph, PlainGraph, cmd, n)
     /\ ~Throws(NumericGraph, cmd, n, parses)
     /\ Answer("ok")
     /\ IF cmd \in Writes THEN Write(cmd) ELSE UNCHANGED engine

HandleZset(cmd, n, parses) ==
  /\ Answer(IF ~Knows(NumericZset, PlainZset, cmd, n) THEN "unknown"
            ELSE IF Throws(NumericZset, cmd, n, parses) THEN "bad args" ELSE "ok")
  /\ UNCHANGED engine

HandleKv(cmd, n, parses) ==
  /\ IF Throws(NumericKv, cmd, n, parses)
     THEN alive' = FALSE /\ UNCHANGED reply
     ELSE Answer(IF Knows(NumericKv, PlainKv, cmd, n) THEN "ok" ELSE "unknown")
  /\ UNCHANGED engine

Dispatch(cmd, n, parses) ==
  /\ alive /\ reply = "none"
  /\ \/ cmd \in GraphName /\ HandleGraph(cmd, n, parses)
     \/ cmd \in ZName /\ HandleZset(cmd, n, parses)
     \/ cmd \in OtherName /\ HandleKv(cmd, n, parses)

\* The reply is sent; Connection is about how.
Sent == /\ alive /\ reply # "none" /\ Answer("none") /\ UNCHANGED engine

\* The copy has no command: programs that link the engine ask for it.
Copy == /\ alive /\ reply = "none" /\ CsrQuery /\ UNCHANGED <<reply, alive>>

Ended == ~alive /\ UNCHANGED dvars

DispatcherNext ==
  \/ \E cmd \in GraphName \cup ZName \cup OtherName, n \in ArgCount, parses \in BOOLEAN :
       Dispatch(cmd, n, parses)
  \/ Sent \/ Copy \/ Ended

DispatcherSpec == DispatcherInit /\ [][DispatcherNext]_dvars
=============================================================================
