---------------------------- MODULE Persistence ----------------------------
(***************************************************************************)
(* Snapshots (src/src/persistence/{persistence,rdb}.cpp) and the actors    *)
(* that take them: pool threads run save() on the live data (the automatic *)
(* snapshot of server.cpp:29-35), a forked child runs RDB::save on its     *)
(* frozen copy (bgsave), and a waiter thread per child reaps it.  All of   *)
(* them write the same file path.tmp and rename it to path.                *)
(*                                                                         *)
(* The data is a stamp that every mutation increases.  A snapshot is a     *)
(* sequence of Chunks: the key-value section, the graph section and the    *)
(* end marker; a chunk holds the stamp of the data it was taken from.      *)
(* Files are inodes under two names, as rename and the open file           *)
(* descriptors of other savers require.  A crash stops the server and its  *)
(* children between any two steps; what was written stays written.         *)
(***************************************************************************)
EXTENDS Integers, FiniteSets

CONSTANTS PoolThread,   \* pool threads that may run save()
          Child,        \* slots for forked children
          Actors,       \* the groups of savers looked at together
          Inode,        \* at least one more than there are savers
          None, Hole,
          MaxStamp,     \* bound on the mutations
          DiskMayFill   \* whether a write may fail

Saver == PoolThread \cup Child
Chunks == 1 .. 3        \* key-value section, graph section, end marker

ASSUME PersistenceAssumption ==
  /\ PoolThread \cap Child = {}
  /\ Actors \subseteq SUBSET Saver
  /\ IsFiniteSet(Inode) /\ IsFiniteSet(Saver)
  /\ Cardinality(Inode) > Cardinality(Saver) + 1
  /\ None \notin Inode \cup Saver /\ Hole \notin Nat
  /\ MaxStamp \in Nat /\ DiskMayFill \in BOOLEAN

VARIABLES
  stamp,      \* the live data
  name,       \* the directory: inode of "path" and of "tmp", or None
  content,    \* chunks of each inode, Hole where nothing was written
  pc,         \* per saver: "idle", "open", "write", "rename", "done"
  fd,         \* per saver: the inode it has open
  pos,        \* per saver: the next chunk
  image,      \* per child: the data at the fork
  actors,     \* the savers of this behaviour
  wrote,      \* history, per saver: the chunks it has written
  failed,     \* history: a write has failed
  saving,     \* saving_
  forking,    \* the child bgsave has forked and not accounted for yet
  up,         \* the server is running
  outcome,    \* what load() found at the last start
  lastSaved   \* history: the snapshot of the last successful rename

savers == <<pc, fd, pos, image, wrote>>
setting == <<actors, failed>>
vars == <<stamp, name, content, savers, setting, saving, forking, up, outcome,
          lastSaved>>

Nothing == [c \in Chunks |-> Hole]
Snapshot == [Chunks -> Nat \cup {Hole}]

Init == /\ stamp = 0
        /\ name = [path |-> None, tmp |-> None]
        /\ content = [f \in Inode |-> Nothing]
        /\ pc = [s \in Saver |-> "idle"]
        /\ fd = [s \in Saver |-> None]
        /\ pos = [s \in Saver |-> 1]
        /\ image = [s \in Saver |-> 0]
        /\ wrote = [s \in Saver |-> Nothing]
        /\ actors \in Actors /\ failed = FALSE
        /\ saving = FALSE /\ forking = None
        /\ up = TRUE /\ outcome = "fresh"
        /\ lastSaved = Nothing

\* Commands on the reactor thread, which is not inside bgsave().
Mutate == /\ up /\ forking = None
          /\ stamp < MaxStamp
          /\ stamp' = stamp + 1
          /\ UNCHANGED <<name, content, savers, setting, saving, forking, up, outcome, lastSaved>>

\* save(), up to RDB::save: a worker of the pool takes the task.
Save(t) == /\ up /\ t \in PoolThread \cap actors
           /\ pc[t] = "idle"
           /\ pc' = [pc EXCEPT ![t] = "open"]
           /\ saving' = TRUE
           /\ UNCHANGED <<stamp, name, content, fd, pos, image, wrote, setting, forking, up,
                          outcome, lastSaved>>

\* Fault: bgsave does not look at saving_.
MayForkAlways == TRUE
MayFork == ~saving

\* bgsave(): the child starts with a copy of the data ...
Bgsave(c) == /\ up /\ forking = None /\ c \in Child \cap actors
             /\ MayFork
             /\ pc[c] = "idle"
             /\ pc' = [pc EXCEPT ![c] = "open"]
             /\ image' = [image EXCEPT ![c] = stamp]
             /\ forking' = c
             /\ UNCHANGED <<stamp, name, content, fd, pos, wrote, setting, saving, up,
                            outcome, lastSaved>>

\* ... and the parent sets the flag and starts the waiter thread.
BgsaveReturns == /\ up /\ forking # None
                 /\ saving' = TRUE
                 /\ forking' = None
                 /\ UNCHANGED <<stamp, name, content, savers, setting, up, outcome, lastSaved>>

-----------------------------------------------------------------------------
(***************************************************************************)
(* RDB::save.                                                              *)
(***************************************************************************)
Free == Inode \ ({name.path, name.tmp} \cup {fd[s] : s \in Saver})

\* Fault: the snapshot is written in place.
TargetInPlace == "path"
Target == "tmp"

\* fopen(tmp, "wb"): truncates the file if there is one, also when another
\* saver is writing it.
Open(s) ==
  /\ pc[s] = "open"
  /\ \/ \E f \in Inode :
          /\ IF name[Target] # None THEN f = name[Target]
                                    ELSE f = CHOOSE x \in Free : TRUE
          /\ name' = [name EXCEPT ![Target] = f]
          /\ content' = [content EXCEPT ![f] = Nothing]
          /\ fd' = [fd EXCEPT ![s] = f]
          /\ pc' = [pc EXCEPT ![s] = "write"]
          /\ pos' = [pos EXCEPT ![s] = 1]
          /\ wrote' = [wrote EXCEPT ![s] = Nothing]
     \/ /\ DiskMayFill
        /\ pc' = [pc EXCEPT ![s] = "done"]
        /\ UNCHANGED <<name, content, fd, pos, wrote>>
  /\ UNCHANGED <<stamp, image, setting, saving, forking, up, outcome, lastSaved>>

\* Fault: a child reads the data of its parent.
ChunkLive(s) == stamp

\* What a saver reads when it comes to a section: the child its frozen copy, a
\* pool thread the live data.
Chunk(s) == IF s \in Child THEN image[s] ELSE stamp

LastChunk == 3

\* fwrite at the saver's own offset; nobody looks at its result.
Write(s) ==
  /\ pc[s] = "write"
  /\ \/ /\ content' = [content EXCEPT ![fd[s]][pos[s]] = Chunk(s)]
        /\ wrote' = [wrote EXCEPT ![s][pos[s]] = Chunk(s)]
        /\ UNCHANGED failed
     \/ /\ DiskMayFill
        /\ failed' = TRUE
        /\ UNCHANGED <<content, wrote>>
  /\ pos' = [pos EXCEPT ![s] = @ + 1]
  /\ pc' = [pc EXCEPT ![s] = IF pos[s] = LastChunk THEN "rename" ELSE "write"]
  /\ UNCHANGED <<stamp, name, fd, image, actors, saving, forking, up, outcome, lastSaved>>

\* fclose and rename, which fails when another saver has renamed path.tmp.
Rename(s) ==
  /\ pc[s] = "rename"
  /\ \/ /\ name.tmp # None
        /\ name' = [path |-> name.tmp, tmp |-> None]
        /\ lastSaved' = wrote[s]
     \/ /\ name.tmp = None
        /\ UNCHANGED <<name, lastSaved>>
  /\ fd' = [fd EXCEPT ![s] = None]
  /\ pc' = [pc EXCEPT ![s] = "done"]
  /\ UNCHANGED <<stamp, content, pos, image, wrote, setting, saving, forking, up, outcome>>

\* Fault: the flag stays set.
FlagKept == saving
FlagCleared == FALSE

\* The rest of save(), or the waiter thread once the child has exited.  The
\* waiter is started after the flag is set.
Finish(s) ==
  /\ pc[s] = "done"
  /\ forking # s
  /\ pc' = [pc EXCEPT ![s] = "idle"]
  /\ pos' = [pos EXCEPT ![s] = 1]
  /\ image' = [image EXCEPT ![s] = 0]
  /\ wrote' = [wrote EXCEPT ![s] = Nothing]
  /\ saving' = FlagCleared
  /\ UNCHANGED <<stamp, name, content, fd, setting, forking, up, outcome, lastSaved>>

-----------------------------------------------------------------------------
Crash == /\ up /\ up' = FALSE
         /\ pc' = [s \in Saver |-> "idle"]
         /\ fd' = [s \in Saver |-> None]
         /\ pos' = [s \in Saver |-> 1]
         /\ image' = [s \in Saver |-> 0]
         /\ wrote' = [s \in Saver |-> Nothing]
         /\ saving' = FALSE /\ forking' = None
         /\ UNCHANGED <<stamp, name, content, setting, outcome, lastSaved>>

Complete(snap) == \A c \in Chunks : snap[c] # Hole

\* load() at the start of the server.  A file that breaks off is applied as
\* far as it goes, and then reported like a file that is not there.
Restart ==
  /\ ~up /\ up' = TRUE
  /\ outcome' = IF name.path = None THEN "fresh"
                ELSE IF Complete(content[name.path]) THEN "loaded"
                ELSE IF content[name.path][1] = Hole THEN "fresh" ELSE "partial"
  /\ UNCHANGED <<stamp, name, content, savers, setting, saving, forking, lastSaved>>

SaverStep(s) == Open(s) \/ Write(s) \/ Rename(s) \/ Finish(s)

Next == \/ Mutate
        \/ \E t \in PoolThread : Save(t)
        \/ \E c \in Child : Bgsave(c)
        \/ BgsaveReturns
        \/ \E s \in Saver : SaverStep(s)
        \/ Crash \/ Restart

Spec == Init /\ [][Next]_vars

\* Threads and children are scheduled by the kernel; nothing blocks them.
FairSpec == /\ Spec
            /\ \A s \in Saver : WF_vars(SaverStep(s))
            /\ WF_vars(BgsaveReturns)
-----------------------------------------------------------------------------
\* "Write to tmp then rename - atomic on Linux" (rdb.cpp:46): whenever the
\* server may be stopped, the file it will load is complete or not there.
PathComplete == name.path # None => Complete(content[name.path])

\* Wherever a crash falls, the file under path is, chunk for chunk, what the
\* saver that renamed it had written; unless the disk has failed it is complete,
\* and no restart meets a file that breaks off (rdb.cpp:47-48,85-88,93-152).
PathIsLastSave ==
  /\ name.path # None => content[name.path] = lastSaved
  /\ ~failed => /\ name.path # None => Complete(lastSaved)
                /\ outcome # "partial"

\* A background save shows the data of one moment, the fork: no chunk of it is
\* from before and another from after a mutation (persistence.cpp:31-37).
PointInTime ==
  name.path # None /\ actors \subseteq Child =>
    \A c, d \in 1 .. 2 : LET snap == content[name.path] IN
      (snap[c] # Hole /\ snap[d] # Hole) => snap[c] = snap[d]

\* "bgsave already in progress" (persistence.cpp:27): no second child is
\* forked before the first has been reaped.
OneChildAtATime == Cardinality({c \in Child : pc[c] # "idle"}) <= 1

\* The flag that refuses further background saves is taken down again,
\* whatever happens to the saver.
SavingEnds == saving ~> ~saving
=============================================================================
