# FastGraph in TLA+

FastGraph (`src/`) is an in-memory graph database and key-value store that
speaks the Redis protocol: one epoll thread executes all commands, a thread pool
takes snapshots, and everything else is data structures written by hand. This
directory holds TLA+ models of those parts, the TLC configurations that check
them on small instances, and TLAPS proofs of the facts that hold for every
instance. Paths below are relative to `src/src/`.

## Inventory

| Part | State | Operations | What is hard | What makes it correct |
|---|---|---|---|---|
| `kv/hashmap` RobinHoodMap | `entries_`, `size_`, `capacity_` | set, get, del, erase_at, grow | distances after displacement, backward shift, rehash and wrap-around; loops without a bound | it is a map; every probe path is full; calls end |
| `kv/ttl` TTLManager | `heap_`, `index_` | set_expiry, remove_expiry, evict_expired | changes in the middle of a heap; two structures kept in step | `index_` inverts `heap_`; the root is the earliest; evicts what is due and nothing else |
| `kv/kv_engine` KVEngine | a map and a TTL table | set, get, del, exists, expire, persist, ttl, tick, all_entries | lapsed keys linger until met; deadlines of earlier lives; restarts | nothing is served late, dies early or stays for ever |
| `graph/dynamic_graph` | `meta_`, `adj_`, `radj_`, `edge_count_`, `dirty_` | add/remove node and edge | every edge is stored twice; parallel edges, self-loops, unknown nodes | the lists mirror each other; the count is exact |
| `graph/graph_engine`, `csr_graph` | the graph and its compacted copy | csr, compact, queries, property index | stale copies; edges to unknown nodes | a clean copy is the graph |
| `graph/bfs`, `dfs`, `dijkstra` | locals of a query | path, neighbourhood, component, cycle, topological order, distances | stale heap entries, marking on push or on pop, hop limits, the order of edges | answers agree with a reference; queries end |
| `index/skiplist`, `sorted_set` | linked nodes of random height, `level_`, `size_`, `member_scores_` | zadd, zrem, zscore, zcard, zrange, zrangebyscore, zrank | links on several levels and a table kept in step; a move is a removal and an insertion | it is a sorted set with ranks |
| `index/property_index` | skip lists, entries per node | add, remove, remove_node, range | entries that outlive their node or label | an entry belongs to a live node |
| `persistence` | `saving_`, two file names | save, bgsave, load | savers in threads and processes share a file; crashes; disk errors | the file to load is a complete snapshot of one moment |
| `net/server`, `conn` | buffers and state of a connection, epoll registration | on_accept, on_io, do_read, try_parse, do_write, close_conn | partial reads and writes, pipelining, errors, hang-ups | replies intact and in order; everyone answered or closed |
| `net/reactor` | timers, `posted_`, eventfd, `running_` | poll, fire_timers, post, run, stop | posting from other threads while the loop reads; timers under load | no callback is lost; timers go on |
| `protocol/resp`, `encoder` | none | parse, encode | incomplete input at every byte | each command parsed once |
| `dispatch` | none of its own | routing of commands | exceptions, unreachable commands | every documented command reaches its handler |
| `thread/thread_pool` | queue, stop flag | submit, worker_loop, shutdown | wake-ups, shutdown with work left | every task runs once |
| `memory` | free lists, arena blocks | allocate, free, reset, intern | reuse of freed cells | no cell has two owners |
| `config`, `main` | options | parse | - | - |

The reactor thread calls Server, which calls RespParser and Dispatcher, which
calls KVEngine, GraphEngine, SortedSetEngine and Persistence. KVEngine owns a
RobinHoodMap and a TTLManager, GraphEngine a DynamicGraph, its CSR copy and a
PropertyIndex. A 100 ms timer calls `KVEngine::tick`; another submits
`Persistence::save` to the thread pool, where it reads the same engines without
a lock. `bgsave` forks a child for the same purpose. On start-up `load` replays
the snapshot into the engines.

The hazards are listed in `PROJECT.json`, each with the properties that watch it.

## Modules

**RobinHoodMap** models `hashmap.cpp` with one step per loop iteration; `pc`
names the loop and the locals `idx`, `incoming` (`probe`), `old` and `i`
(`oldPos`) are variables. `Init` chooses any hash code for each key. A slot has
key, value and `dib`; its cached hash is the hash of its key. **KVMap** is what a
caller expects, and `ImplementsMap` says that the table, looked at between calls,
is that map with those return values. `before` and `result` are history.

**TTLManager** models `ttl.cpp` the same way: `heap` with `n` entries, `index`,
and the loops of sift_up, sift_down and evict_expired. The reading `now` of the
clock advances between calls only (evict_expired reads it once). **Deadlines** is
the abstract table; an entry evict_expired has taken out still counts until the
call returns its key.

**KVEngine** models `kv_engine.cpp` over those two abstractions, with the
commands of `Dispatcher::handle_kv`, one step per command because all run on one
thread. `Save` and `Restart` are the KV section of `RDB::save` and `RDB::load`;
`Restart` reads the clock once, where the code reads it in `rdb.cpp:116` and again in
`ttl.cpp:10`, so deadlines after a restart are exact up to the time between the two.
`until` is history: the lifetime clients last gave a stored key.

**SkipList** models `skiplist.cpp` under the commands of one sorted set: cells
linked by `forward`, `level`, `size` and the table `memberScores`. A command is
asked, and then runs one step per iteration of a search (descending the levels
and filling `update`) or of a walk along the bottom list. The height of a new
node is any level. `insert` of a known member with another score is `remove`, a
second search and the linking, as in the code. **SortedSet** is the abstract set
of scored members; `ImplementsSortedSet` maps the linked cells to it.

**DynamicGraph** models `dynamic_graph.cpp`. A list is a bag of (neighbour,
relation) pairs. **PropertyIndex** models `property_index.cpp`: per key the value
a node is listed under, and per node the entries recorded for it. **GraphEngine**
composes the two with the compacted copy, and models what `build_csr` leaves in
each row, zero-filled slots included. **Dispatcher** puts `dispatch` and its three
handlers in front: tables of names and argument counts, conversions that throw,
the `catch` of two handlers and its absence in `handle_kv`. Graph commands act on
the engine in this module; key-value and sorted-set commands have their effects in
KVEngine and SkipList, and show here how they are routed and how they fail.

**Traversals** models `bfs.cpp`, `dfs.cpp` and `dijkstra.cpp` as one worklist
machine: `Take` takes a node off the queue, stack or heap, `Look` looks at one
edge, `Root` and `Visit` are the recursive searches. What differs between the
nine functions is in `ComesNext`, `Skips`, `Accepts`, `Cost` and in where they
return. Edges of a node are looked at in any order. The graph and the query are
chosen in `Init`. The roots of `dfs_has_cycle` are the nodes that were added, those
of `dfs_topo_sort` the ones its caller names; edges may lead to and from others.

**ThreadPool** models `thread_pool.hpp`: the queue, `stop`, and each worker
between testing the predicate, waiting, having been notified, and running a
task; a notification finds one waiting worker or nobody, and a wait may end by
itself. **EventLoop** composes it with `reactor.hpp` as `Server` wires them: one turn
of `poll` is `EpollWait`, `Fire` per due timer, the handlers of the batch, the
reading of the eventfd, the swap of `posted_` and the calls of what was in it.
`post()` is two steps of a worker. The offloading of commands is written in
`server.cpp:100-113` but disabled by `heavy = false`; it is modelled because it
is the one user of `post()`. Once the loop has ended, `Destroy` takes the members of
`Server` apart in the reverse order of their declaration (`server.hpp:39-40`):
`persistence_` first, then the pool, whose workers still run what is queued. A save
that runs so late uses a destroyed object; `RunSave` makes it or does not. At this
commit nothing calls `Reactor::stop()`, so `Stop` and what follows are about the
classes and not about the program as it is started.

**Persistence** models `persistence.cpp` and `RDB::save`/`load` on a small file
system: inodes, the names `path` and `path.tmp`, and open descriptors that survive
a rename. The data is a stamp that mutations increase; a snapshot is three chunks
(key-value section, graph section, end marker), each with the stamp it was read
at. `bgsave` is two steps, because the child runs before the parent sets
`saving_`. A write may fail (`DiskMayFill`), which the code does not look at. A
crash stops server and children. `Actors` lists the groups of savers a behaviour
may have: `{t1}` is the automatic snapshot, `{c1, c2}` are background saves. A
chunk reaches the file when it is written; stdio's buffer only delays this, and
the interleaving reported below needs snapshots larger than that buffer. At this
commit no command reaches `bgsave` or `save` (see below); the
module models them as the public operations of the class, and the timer's `save`
as the one that is live.

**Connection** models one connection through `server.cpp` and `Reactor::poll`,
one step per system call or parse. The client sends commands in halves, reads at
its own pace, closes or vanishes, or closes and then resets when replies come in. A
command is good, "bad" (a parse error that leaves its bytes in the buffer, as in
`parse_array`), "blank" (one that consumes them, as in `parse_inline`) or "throws"
(`dispatch` throws, see Dispatcher). The process can end in two ways. An exception of
`dispatch` leaves the loop (`thrown`). And SIGPIPE is ignored nowhere: the kernel
reports a reset by an error of the first call after it, and a later `write()`, or one
behind the end of the client's stream, raises the signal (`killed`). The code gets
there because `on_io` calls `do_write` after `do_read` has failed.

`MC*` modules give the constants their values; a definition whose comment begins
with `Fault` is a mutated form of the definition after it, used to show that a
property notices such a bug.

## Runs

| Run | Instance | Shows |
|---|---|---|
| robin_hood_map | 3 keys, 2 values, hash codes 0, 3, 4, 7, capacity 2 growing to 8 | Robin Hood invariant, unique keys, exact size, refinement of KVMap, termination |
| ttl_heap | 6 keys, lifetimes 0 to 2, clock to 1 | index and heap agree, heap order, refinement of Deadlines |
| kv_engine | 2 keys, 1 value, lifetimes -1, 1, 2, clock 2 to 5 | lifetimes through commands, ticks, snapshots and restarts |
| sorted_set | 3 members, 2 scores, 3 levels, 3 cells | every level ordered and free of freed nodes, table and size agree, refinement of SortedSet |
| graph_commands | 2 nodes, 2 edges, 1 call of remove_edge, 1 index key with 2 values | mirrored lists, node removal from lists and index, count without remove_edge, a clean copy is current |
| graph_info_count | 1 node, 1 edge | violated: remove_edge counts an edge twice |
| traversals | 4 nodes, all graphs over 9 edges, all nine queries | answers agree with reference definitions, queries end |
| topo_sort_cycle | as above, all nodes as roots | violated: a list is returned for a cyclic graph |
| event_loop | 2 workers, 2 offloaded commands, 1 snapshot, periods 1 and 2 | tasks are run and replies get back to the loop while it runs, timers go on, the pool shuts down |
| persistence | one pool thread, or two children; disk errors, crashes | the file is what the last saver wrote; background saves show one moment, one at a time; the flag comes down |
| persistence_overlap | two pool threads | violated: a truncated temporary file is renamed |
| connection | 3 commands, 2 tokens of send buffer | replies intact and ordered, registration exact, answers and closings happen unless the process ends |

### What the violated runs show

- `graph_info_count`: one `remove_edge` decrements `edge_count_` twice, once for the
  forward and once for the reverse list (`dynamic_graph.cpp:57`), so that GRAPH.INFO
  is off from then on.
  `CountExact` in graph_commands is about behaviours without `remove_edge`.
- `persistence_overlap`: `save()` sets `saving_` but does not look at it. When a
  snapshot takes longer than the interval, a second pool thread truncates the
  temporary file of the first, which then renames it with a hole in it.
- `topo_sort_cycle`: `dfs_topo_sort` does not look for cycles and returns an order on
  cyclic graphs too, where `dfs.hpp:11` says "returns empty if cycle exists". What it
  promises on acyclic graphs is in `DfsExact`.

### Behaviours the models show without a run of their own

- PTTL of a key whose lifetime is over and that `tick` has not met yet answers 0
  where GET already reports it missing, and EXPIRE or PERSIST of such a key revives
  it.
- `save` ending while a child of `bgsave` runs clears `saving_`, so that the next
  `bgsave` forks a second child onto the same temporary file (with
  `Actors = {{t1, c1, c2}}`).
- The automatic snapshot reads the live engines section by section while commands
  change them: its sections can come from different moments. `PointInTime` is
  therefore about children only.
- A full disk goes unnoticed: the short file is renamed over the good one, and a
  load of it keeps the sections it could read while reporting "starting fresh".
  `PathIsLastSave` allows for holes only where a write has failed.
- In the CSR copy, an edge to a node that was never added becomes an edge to the
  node with the smallest id (`CsrRow`). Traversals takes the copy to have the edges
  of the graph, so its answers on the copy hold for graphs without such edges.
- A non-numeric argument of EXPIRE, PEXPIRE or SET ... EX ends the process: nothing
  between `handle_kv` and `main` catches what `stoll` throws (`alive` in Dispatcher, `thrown` in Connection).
- SAVE, BGSAVE and BGRESTORE, which the repository's README lists under "System &
  Persistence" (`README.md:107-111`), are implemented in `handle_zset`, which only names
  that begin with `Z` reach; `Dispatch` answers them as unknown commands.
- `dfs_has_cycle` searches from the nodes in `meta_`, and `add_edge` enters none there, so
  that GRAPH.HAS_CYCLE misses a self-loop on a node that was never added, where
  `dfs.hpp:8` says "true if graph has a cycle". `DfsExact` says that the answer is exact
  for the cycles that nodes of `meta_` lead to.
- A client that resets its connection while replies to it are pending can end the whole
  process by SIGPIPE (`killed` in Connection). `HangupCloses` says that this needs unsent
  output and a reset, and that every other connection whose client has gone is closed.
- Complete commands that arrive together with the end of the stream are dropped: `do_read`
  sets Closing and returns before `try_parse` (`server.cpp:74`).
- A protocol error does not close the connection: `try_parse` sets Closing and overwrites
  it with Writing, because the error reply is pending (`Settle`).
- If the loop were stopped, saves queued at that time would run on a destroyed
  `Persistence` (`RunSave`). `SavesMade` speaks of the time before that.

Apart from SAVE, HAS_CYCLE and the full disk, on which the code differs from what is
written about it, no document, comment or test of the repository says otherwise.

### Why the bounds are enough

Three keys with hash codes that collide at one capacity and part at the next meet
displacement, runs that wrap around, backward shift over several slots and two
growths. Six heap entries give three levels, the least at which the entry that
fills a hole can belong above it. Two keys and four clock values let one key lapse
while another is alive, be renewed before and after, and be saved before and loaded
after its deadline. Three members on three levels let a node be unlinked between two
others on some levels and not on the rest, let `level_` fall by more than one, and
let a freed cell be used again; two scores give ties and moves in both directions.
Two nodes with two edges include parallel edges, self-loops and edges from and to
unknown nodes; the proofs cover any number. The nine edges of the traversals have a
self-loop, edges both ways, parallel edges, a cheap detour that makes a heap entry
stale and a cycle of no weight, and all 512 subsets are tried. Two workers are what it
takes for a notification to go to one while the other is between its test and its
wait. Two savers are what it takes to disturb one another. Three commands with half a
reply's worth of send buffer less than pending output give partial writes with new
replies appended behind them.

### Fairness

- RobinHoodMap, Traversals: a call that has begun runs on. A query is asked once,
  so deadlock is not checked in Traversals.
- KVEngine: `tick` keeps being called, since its timer re-arms itself
  (`server.cpp:151-156`); that timers do go on is `TimersGoOn` of EventLoop.
- EventLoop: time passes, and the thread of the loop and each worker are scheduled.
  Nothing is assumed about events on sockets, spurious wakeups or a call of `stop`.
- Persistence: every saver and the second half of `bgsave` are scheduled by the
  kernel and wait for nothing.
- Connection: the event loop runs while there is something to do, and the client
  reads its replies; nothing is assumed about its sending, and deadlock is not
  checked there because a client may simply stop.

Everything else may stop at any time.

## Proofs

**TTLManagerProofs** proves for every set of keys, every set of lifetimes and a
heap of any size: `TypeOK`, `IndexInverse`, `HeapOrder`, `RootEarliest` (the
first and the last are lemmas on the way and no run checks them), and that the heap
implements the table of `Deadlines` (`DeadlinesRefined`). Heap order is not
inductive, since calls break it. The inductive invariant `TTLInv` says where: during
sift_up (`UpInv`) only the entry at `i` may be earlier than its parent, and its
children may be out of order with it only as long as it has not moved; during
sift_down (`DownInv`) only the children of `i` may be earlier than it; and in both
the children of `i` are not earlier than its parent, so that an exchange with either
keeps the rest in order. This is why sift_up followed by sift_down from the same
index is right: if the entry rises, what it leaves behind at the start is in order
with everything below. A new leaf needs no sift_down, because it has no children.
That the root is earliest follows from order by taking the least position that
contradicts it. The refinement adds `EvictInv`: an entry that `evict_expired` has
put aside is due, has left `index_` and is the only one of its key. Sifts are then
stuttering steps, putting an entry aside is one too, and when the loop ends the keys
put aside are exactly the due ones, since the root is earliest and not due.
Assumption: `TTLAssumption` (lifetimes are integers and the "not in index_" value is
no position).

**KVEngineProofs** proves, for any keys, values and lifetimes and any bound on the
clock, `NoOrphanDeadline`, `NeverServedLate`, `NoEarlyDeath` and
`RestartFaithful`. The inductive invariant `KVInv` adds to the first that the
engine's deadlines are the lifetimes the clients were promised, that all are
positive, and that a snapshot has at most one entry per key. Positivity is what
makes the lazy check of `get` sound: it takes a deadline that is not positive for
none. Assumptions: `KVAssumption` and `DeadlinesPositive` (clock plus lifetime
is positive, which a large negative EXPIRE argument can break).

**GraphProofs** proves, of the lists of DynamicGraph, for every set of nodes and relations that forward and
reverse lists agree on every edge's multiplicity (`MirrorAlways`) and that after
`remove_node` no list mentions the node (`RemovedNodeGoneAlways`). `Mirror`
together with the types of the lists is inductive; `RemovedNodeGone` needs it,
because the code finds the lists to clean through the mirror. `CountExactAlways`:
as long as `remove_edge` is not called, `edge_count_` is the number of entries of
all lists. `Total` is a sum of sums; the lemmas `SumStep` to `SumUnion` say what a
sum over a finite set does when an element, a value or a set is split off, and
rest on induction over the subsets of a finite set (`SubsetInduction`, from the
well-foundedness of strict inclusion). With them `RowSum` and `RemoveNodeCount` show
that the two loops of `remove_node` subtract every edge of the node once, self-loops
and parallel edges included. Assumption: `GraphAssumption` (nodes and relations are
finite, as anything stored is).

It then proves of the engine, for any nodes, relations, index keys and values and
under any sequence of commands, that every value a node is listed under is among
the entries recorded for it (`RecordedAlways`), that a node the graph has just lost
is found by no range query (`RemovedNodeUnlistedAlways`), and that a copy that is
handed out as clean has the nodes and edges of the graph (`CsrFreshAlways`). The lemmas
`EngineSteps`, `IndexSteps` and `CsrSteps` reduce a command to the few things it can
do to the index and to the copy. `IndexInv` (types and `Recorded`) is what makes
`remove_node` right: it finds the lists to clean through the records, and an old
record that no longer matches does no harm. `CsrInv` says that a copy that is not
dirty is what `build_csr` would make of the graph now; `CsrFresh` follows, because
the slots nobody filled carry no relation of the graph (`EngineAssumption`).

**RobinHoodMapProofs** proves, for any keys, values, hash function, initial capacity
and any number of growths, `ProbeOrder`, `KeysUnique`, `SizeExact` and that the table
implements `KVMap` (`TableImplementsMap`). The inductive invariant `MapInv` adds
to the order of stored entries (`Placed`) where each loop stands: the entry carried or
looked for has come from its home along slots that are occupied and no nearer their
homes, and if its key is stored at all it is still ahead (`Probing`); an entry that
was displaced or comes from the old table is in no slot (`Carried`); the load is low
enough for what is to come (`Counted`); and while growing the new table holds, with
what is carried, exactly the old entries before `i` (`Growing`). The refinement rests
on `Faithful`: at every step of a call the stored and the carried entries, with the
effect of the call so far undone, are the map from before the call. A probe that
stops early therefore knows that the key is in no slot at all. Assumption:
`MapAssumption` (keys and values are not the marks for an empty slot, hash codes are
natural numbers, the initial capacity is a power of two).

**SkipListProofs** proves, for any finite set of members, any integer scores, any
number of levels and any choice of heights, `ListSound` and that the list implements
`SortedSet` (`ListImplementsSortedSet`). The inductive invariant `ListInv`
says: each level is a chain (`Chained`: every link leads to the next greater of the
nodes of that level, or to nothing), nodes of a level are nodes of all lower ones
(`Nested`), table and size agree with the nodes (`Tabled`), and a search in progress
stands, on its level, before the goal, having recorded on each higher level the last
node before it (`Position`). Linking a node after those recorded places and bypassing
one there keep a chain a chain (`ChainInsert`, `ChainRemove`); that the search has
recorded the right place on levels it went through before the bottom is what
`Position` is for. For the refinement `Serving` says which call a search serves and
what `insert` knows of the score it replaces: `moving` keeps the old score in sight
while the table has none, so that removing and linking anew is one step of the set.
`Walking` says that the nodes a walk has left behind are those smaller than where it
stands, and that the vector holds their entries from the first rank asked for; the
number of nodes passed is then the rank (`Advance`), a search for a score ends at the
first node that is not below it (`RangeStarts`), and the vector a walk returns is what
the set answers (`RankedIs`, `StopsRight`), also for ranges that are empty, reversed or
reach beyond the end. Assumptions: `SkipListAssumption`, which includes that there are
at least as many cells as members (memory does not run out), and `NoneAssumption`.

**PersistenceProofs** proves, for any number of threads, children and inodes and any
mutations, disk errors, crashes and restarts: as long as savers do not meet (`Alone`:
one pool thread, or background saves only) the file under `path` is what the last
saver wrote and is complete unless the disk failed (`PathIsLastSaveAlone`) and there
is one child at a time (`OneChildAlone`); background saves show a single moment
(`PointInTimeAlways`). `Alone` cannot be dropped: two savers at once
share `path.tmp`, and the first to end takes the flag down for both, as
`persistence_overlap` shows. The invariant `SaveInv` says that one saver is at work
(`OneAtATime`), that `path.tmp` is the file it has open and holds what it has written
(`TmpOwned`), which chunks those are (`Progress`), and that a child's chunks are of its
image (`Frozen`).

**ConnectionProofs** proves, for any number of commands and any sizes of reads, writes
and socket buffers, up to the end of the process if it comes to one, `RepliesIntact`, `InterestExact` and `ExecutedInOrder`. `ReplyInv`
keeps a ledger: received, in the socket, unsent and the replies made are one
sequence. `InterestInv` adds, for each place in the loop, how `interest` relates to the
pending output; between `try_parse` and the check that follows the two may differ.
`OrderInv` says that there is a command up to which everything has been dispatched
and from which on read buffer and socket hold the rest of the stream (`Boundary`).

**TraversalsProofs** proves, for every finite graph, every query on it and any order
of edges, `DfsExact`, `BfsExact` and `DijkstraExact`: what each of the nine queries
returns is what the reference definitions say; of `dfs_topo_sort` this is said for
roots that lead to no cycle, and of `dfs_has_cycle` for the cycles its roots lead to. `Within` and `Cheapest` are recursive
functions on the number of edges of a walk, defined with the variables in scope; `W`
and `Best` are the same functions with the edges as a parameter. That their equations
have one solution (`WalkStep`, `BestStep`) is an induction over the numbers, which
`Numbers` states for sets of numbers and which follows from the least element of a
set. The length of the walks considered is bounded by the number of nodes done
(`Count`), and so by the number of nodes.

- `dfs_component` (`Stack`): nodes done or on the stack are reachable, and the edges
  already looked at lead to such nodes; with an empty stack the nodes done are closed
  under edges. A node that was pushed twice is listed once.
- The recursive searches (`Search`): frames are the gray nodes and form a path of the
  graph, so an edge to a gray node closes a cycle (`GrayCloses`); where no such edge
  was met, every node is listed after all its successors, and such a list rules out a
  cycle (`OrderedAcyclic`). The length of a walk around a cycle is bounded by the
  number of frames, which are distinct nodes (`DistinctBound`).
- Breadth first (`Wave`): the queue holds two hops at most, in order and without
  repetition (`Queue`); up to the hop of the node taken up last every walk ends in a
  node seen at no more hops (`Levels`); the hop limit only drops edges beyond it
  (`Closed`). When the hop rises, all nodes of the hop before it are done (`WaveNext`).
- Weighted (`Weighted`): the heap holds every node seen and not done with its cost,
  and otherwise only items that cost more than their node does (`Heap`), so that an
  item is skipped, by either of the two tests the code uses, just when its node is
  done (`HeapPop`). Nodes done have the least cost of any walk of any length
  (`Costs`), because a walk that costs less than the least item runs through nodes done
  (`HeapBelow`). This is where weights must not be negative.
- Paths (`Tree`): the parent of a node is done, and an edge led from it at just the
  difference in cost. `PathTo` follows parents, and ends because a rank falls along
  them: the hop, or for weighted queries, where weights may be zero, the order in
  which nodes were done (`Ranked`).

Assumptions: `TraversalsAssumption` (the graph is finite, edges and queries name its
nodes, weights are natural numbers) and `NoneAssumption` (the mark for "not set" is
none of the values it is told from).

Only model-checked: the liveness properties, which under fairness are beyond the prover:
`CallsReturn`, `LapsedKeysGo`, `QueriesEnd`, `SavingEnds`, `CommandsAnswered`,
`HangupCloses`, and all four of EventLoop. Every invariant, action property and
refinement of a passing run is proved.

## Not modelled

- `memory`: the slab, arena and interning allocators are storage behind the other
  components. That a freed node of a skip list is not reachable and that its cell
  can be used again is part of SkipList.
- `config`, `main`: options into a record, and start-up.
- RespParser byte by byte: its outcomes (complete, incomplete, the two kinds of
  error) are in Connection. RespEncoder and the texts of replies are formatting.
- Several connections: they share nothing but the engines, which run one command at
  a time. The limit of 64 events per turn only splits a batch.
- Persistence: a child that outlives its server, data that is renamed before it
  reaches the disk (nothing is synced), a reboot that restarts the steady clock.
- Numbers: bulk strings of negative length (`resp.cpp:35-41` takes them for complete and
  moves on by the wrong number of bytes), negative or very large node ids (arrays are indexed by id), NaN scores,
  negative weights, deadlines that are not positive.
- Collisions of `PropertyIndex::make_key` between labels and properties that contain
  its separator.

The hazards among these are listed in `PROJECT.json` with a note.

## Plan

Every safety property of the passing runs has its proof. Left are extensions of the
models: several connections that share the engines, the parser byte by byte, and the
allocators behind the skip list and the lists of the graph.
