------------------------- MODULE PersistenceProofs -------------------------
(***************************************************************************)
(* Snapshots of savers that do not meet, for any number of pool threads,   *)
(* children and inodes and any sequence of mutations, disk errors, crashes *)
(* and restarts: the file under path is what the last saver wrote, and     *)
(* background saves never overlap and show one moment.                     *)
(*                                                                         *)
(* Alone says which behaviours these are: the automatic snapshot on one    *)
(* pool thread, or background saves.  There saving_ is enough to keep the  *)
(* savers apart (OneAtATime), so that path.tmp belongs to the one saver    *)
(* that is at work (TmpOwned), and what it renames is what it has written. *)
(***************************************************************************)
EXTENDS Persistence, FiniteSetTheorems, TLAPS

PC == {"idle", "open", "write", "rename", "done"}

TypeOK == /\ stamp \in Nat
          /\ name \in [path : Inode \cup {None}, tmp : Inode \cup {None}]
          /\ content \in [Inode -> Snapshot]
          /\ pc \in [Saver -> PC]
          /\ fd \in [Saver -> Inode \cup {None}]
          /\ pos \in [Saver -> Nat]
          /\ image \in [Saver -> Nat]
          /\ wrote \in [Saver -> Snapshot]
          /\ actors \in SUBSET Saver /\ failed \in BOOLEAN
          /\ saving \in BOOLEAN /\ forking \in Child \cup {None}
          /\ up \in BOOLEAN /\ outcome \in {"fresh", "loaded", "partial"}
          /\ lastSaved \in Snapshot

Alone == actors \subseteq Child \/ \E t \in PoolThread : actors = {t}

\* At most one saver is at work, and a child at work is either known to
\* bgsave's flag or has not returned to it yet.
OneAtATime ==
  /\ \A s \in Saver : pc[s] # "idle" => s \in actors
  /\ \A s, t \in Saver : pc[s] # "idle" /\ pc[t] # "idle" => s = t
  /\ \A c \in Child : pc[c] # "idle" => saving \/ forking = c
  /\ forking # None => pc[forking] # "idle"

\* A saver that writes has path.tmp open, and nothing else has written there.
TmpOwned ==
  /\ \A s \in Saver : IF pc[s] \in {"write", "rename"}
                      THEN /\ fd[s] # None /\ fd[s] = name.tmp
                           /\ content[fd[s]] = wrote[s]
                      ELSE fd[s] = None
  /\ name.tmp # None => name.tmp # name.path

\* Chunks are written in order, and all of them unless the disk fails.
Progress ==
  \A s \in Saver :
    /\ pc[s] = "write" => pos[s] \in Chunks
    /\ pc[s] = "write" /\ ~failed => \A c \in Chunks : c < pos[s] => wrote[s][c] # Hole
    /\ pc[s] = "rename" /\ ~failed => Complete(wrote[s])

OneMoment(snap) == \A c, d \in Chunks : snap[c] # Hole /\ snap[d] # Hole => snap[c] = snap[d]

\* What a child has written is from its image.
Frozen == /\ \A s \in Child, c \in Chunks : wrote[s][c] # Hole => wrote[s][c] = image[s]
          /\ \A s \in Child : pc[s] = "idle" => wrote[s] = Nothing
          /\ actors \subseteq Child => OneMoment(lastSaved)

AloneInv == OneAtATime /\ TmpOwned /\ Progress /\ Frozen /\ PathIsLastSave

SaveInv == TypeOK /\ (Alone => AloneInv)

-----------------------------------------------------------------------------
\* The constants, as the steps below use them.
LEMMA Constants ==
  /\ None \notin Inode /\ None \notin Saver
  /\ Hole \notin Nat /\ PoolThread \cap Child = {}
  /\ Chunks = {1, 2, 3} /\ Saver = PoolThread \cup Child
BY PersistenceAssumption DEF Saver, Chunks

\* Types.
LEMMA TypeInit == Init => TypeOK
<1> SUFFICES ASSUME Init PROVE TypeOK
  OBVIOUS
<1>1. Nothing \in Snapshot
  BY DEF Nothing, Snapshot
<1>2. actors \in SUBSET Saver
  BY PersistenceAssumption DEF Init
<1> QED BY <1>1, <1>2, Constants DEF Init, TypeOK, PC

\* Every step of a saver, of the server and of a crash keeps the types.
LEMMA TypeNext == TypeOK /\ [Next]_vars => TypeOK'
<1> SUFFICES ASSUME TypeOK, [Next]_vars PROVE TypeOK'
  OBVIOUS
<1> USE Constants DEF TypeOK, PC
<1>0. Nothing \in Snapshot
  BY DEF Nothing, Snapshot
<1>1. CASE Mutate
  BY <1>1 DEF Mutate, savers, setting
<1>2. ASSUME NEW t \in PoolThread, Save(t) PROVE TypeOK'
  BY <1>2 DEF Save, setting
<1>3. ASSUME NEW c \in Child, Bgsave(c) PROVE TypeOK'
  BY <1>3 DEF Bgsave, setting
<1>4. CASE BgsaveReturns
  BY <1>4 DEF BgsaveReturns, savers, setting
<1>5. ASSUME NEW s \in Saver, Open(s) PROVE TypeOK'
  <2>1. /\ UNCHANGED <<stamp, image, actors, failed, saving, forking, up, outcome, lastSaved>>
        /\ pc' \in [Saver -> PC]
    BY <1>5 DEF Open, setting
  <2>2. CASE UNCHANGED <<name, content, fd, pos, wrote>>
    BY <2>1, <2>2
  <2>3. ASSUME NEW f \in Inode,
               name' = [name EXCEPT !["tmp"] = f],
               content' = [content EXCEPT ![f] = Nothing],
               fd' = [fd EXCEPT ![s] = f], pos' = [pos EXCEPT ![s] = 1],
               wrote' = [wrote EXCEPT ![s] = Nothing]
        PROVE  TypeOK'
    BY <1>0, <2>1, <2>3
  <2> QED BY <1>5, <2>2, <2>3 DEF Open, Target
<1>6. ASSUME NEW s \in Saver, Write(s) PROVE TypeOK'
  <2>1. \A snap \in Snapshot, k, v \in Nat : [snap EXCEPT ![k] = v] \in Snapshot
    BY DEF Snapshot
  <2>2. Chunk(s) \in Nat /\ pos[s] \in Nat
    BY DEF Chunk
  <2>3. /\ UNCHANGED <<stamp, name, fd, image, actors, saving, forking, up, outcome, lastSaved>>
        /\ pos' = [pos EXCEPT ![s] = @ + 1]
        /\ pc' = [pc EXCEPT ![s] = IF pos[s] = LastChunk THEN "rename" ELSE "write"]
        /\ failed' \in BOOLEAN
    BY <1>6, Zenon DEF Write
  <2>4. pos' \in [Saver -> Nat] /\ pc' \in [Saver -> PC]
    BY <2>3
  <2>5. CASE UNCHANGED <<content, wrote>>
    BY <2>3, <2>4, <2>5
  <2>6. CASE /\ content' = [content EXCEPT ![fd[s]][pos[s]] = Chunk(s)]
             /\ wrote' = [wrote EXCEPT ![s][pos[s]] = Chunk(s)]
    <3>1. ASSUME NEW f \in Inode PROVE content'[f] \in Snapshot
      BY <2>1, <2>2, <2>6
    <3>2. ASSUME NEW t \in Saver PROVE wrote'[t] \in Snapshot
      BY <2>1, <2>2, <2>6
    <3>3. content' \in [Inode -> Snapshot] /\ wrote' \in [Saver -> Snapshot]
      BY <2>6, <3>1, <3>2
    <3> QED BY <2>3, <2>4, <3>3
  <2> QED BY <1>6, <2>5, <2>6, Zenon DEF Write
<1>7. ASSUME NEW s \in Saver, Rename(s) PROVE TypeOK'
  BY <1>7 DEF Rename, setting
<1>8. ASSUME NEW s \in Saver, Finish(s) PROVE TypeOK'
  BY <1>0, <1>8 DEF Finish, FlagCleared, setting
<1>9. CASE Crash
  BY <1>0, <1>9 DEF Crash, setting
<1>10. CASE Restart
  BY <1>10 DEF Restart, savers, setting
<1>11. CASE UNCHANGED vars
  BY <1>11 DEF vars, savers, setting
<1> QED
  BY <1>1, <1>2, <1>3, <1>4, <1>5, <1>6, <1>7, <1>8, <1>9, <1>10, <1>11 DEF Next, SaverStep

-----------------------------------------------------------------------------
\* A saver that opens path.tmp finds an inode that is not the file under path:
\* the other savers have none open.
LEMMA FreeInode ==
  ASSUME TypeOK, \A s \in Saver : fd[s] = None, NEW t \in Saver, name.tmp = None
  PROVE  (CHOOSE x \in Free : TRUE) \in Inode \ {name.path}
<1>1. Free = Inode \ {name.path}
  BY Constants DEF Free, TypeOK
<1>2. Inode \ {name.path} # {}
  <2>1. IsFiniteSet(Inode) /\ IsFiniteSet(Saver) /\ Cardinality(Inode) > Cardinality(Saver) + 1
    BY PersistenceAssumption
  <2>2. Cardinality(Saver) \in Nat
    BY <2>1, FS_CardinalityType
  <2>3. SUFFICES ASSUME Inode \in SUBSET {name.path} PROVE FALSE
    OBVIOUS
  <2>4. IsFiniteSet({name.path}) /\ Cardinality({name.path}) = 1
    BY FS_Singleton
  <2>5. Cardinality(Inode) <= 1 /\ Cardinality(Inode) \in Nat
    BY <2>1, <2>3, <2>4, FS_Subset, FS_CardinalityType
  <2> QED BY <2>1, <2>2, <2>5
<1> QED BY <1>1, <1>2

\* Before the first save there is no saver under way and no file.
LEMMA SaveInvInit == Init => SaveInv
<1> SUFFICES ASSUME Init PROVE AloneInv
  BY TypeInit DEF SaveInv
<1> USE Constants DEF Init
<1>1. OneAtATime
  BY DEF OneAtATime
<1>2. TmpOwned
  BY DEF TmpOwned
<1>3. Progress
  BY DEF Progress
<1>4. Frozen
  BY DEF Frozen, OneMoment, Nothing
<1>5. PathIsLastSave
  BY DEF PathIsLastSave
<1> QED BY <1>1, <1>2, <1>3, <1>4, <1>5 DEF AloneInv

\* A step that touches neither savers nor files.
LEMMA QuietStep ==
  ASSUME AloneInv, UNCHANGED <<name, content, savers, setting, saving, forking, lastSaved>>,
         outcome' = outcome \/ (~failed => outcome' # "partial")
  PROVE  AloneInv'
<1> USE DEF savers, setting
<1>1. OneAtATime' /\ TmpOwned' /\ Progress'
  BY DEF AloneInv, OneAtATime, TmpOwned, Progress
<1>2. Frozen'
  BY DEF AloneInv, Frozen
<1>3. PathIsLastSave'
  BY DEF AloneInv, PathIsLastSave
<1> QED BY <1>1, <1>2, <1>3 DEF AloneInv

\* save() starts: with a pool thread at work, it is the only saver there is.
LEMMA SaveStep ==
  ASSUME TypeOK, Alone, AloneInv, NEW t \in PoolThread, Save(t)
  PROVE  AloneInv'
<1> USE Constants DEF TypeOK
<1>1. /\ t \in actors /\ pc[t] = "idle" /\ pc' = [pc EXCEPT ![t] = "open"] /\ saving' = TRUE
      /\ UNCHANGED <<name, content, fd, pos, image, wrote, actors, failed, forking, outcome, lastSaved>>
  BY DEF Save, setting
<1>2. actors = {t} /\ t \notin Child
  BY <1>1 DEF Alone
<1>3. OneAtATime'
  BY <1>1, <1>2 DEF AloneInv, OneAtATime
<1>4. TmpOwned' /\ Progress'
  BY <1>1 DEF AloneInv, TmpOwned, Progress
<1>5. Frozen'
  BY <1>1, <1>2 DEF AloneInv, Frozen
<1>6. PathIsLastSave'
  BY <1>1 DEF AloneInv, PathIsLastSave
<1> QED BY <1>3, <1>4, <1>5, <1>6 DEF AloneInv

\* bgsave() forks: the flag is down and no other fork is under way, so no child
\* is at work; nor is a pool thread, since a child is among the actors.
LEMMA BgsaveStep ==
  ASSUME TypeOK, Alone, AloneInv, NEW c \in Child, Bgsave(c)
  PROVE  AloneInv'
<1> USE Constants DEF TypeOK
<1>1. /\ c \in actors /\ pc[c] = "idle" /\ pc' = [pc EXCEPT ![c] = "open"]
      /\ ~saving /\ forking = None /\ forking' = c
      /\ image' = [image EXCEPT ![c] = stamp]
      /\ UNCHANGED <<name, content, fd, pos, wrote, actors, failed, saving, outcome, lastSaved>>
  BY DEF Bgsave, MayFork, setting
<1>2. actors \subseteq Child
  BY <1>1 DEF Alone
<1>3. \A s \in Saver : pc[s] = "idle"
  BY <1>1, <1>2 DEF AloneInv, OneAtATime
<1>4. OneAtATime'
  BY <1>1, <1>3 DEF OneAtATime
<1>5. TmpOwned' /\ Progress'
  BY <1>1 DEF AloneInv, TmpOwned, Progress
<1>6. Frozen'
  <2>1. \A s \in Child, d \in Chunks : wrote[s][d] = Hole
    BY <1>3 DEF AloneInv, Frozen, Nothing
  <2> QED BY <1>1, <2>1 DEF AloneInv, Frozen
<1>7. PathIsLastSave'
  BY <1>1 DEF AloneInv, PathIsLastSave
<1> QED BY <1>4, <1>5, <1>6, <1>7 DEF AloneInv

\* The parent sets saving_ after its child has started.
LEMMA BgsaveReturnsStep ==
  ASSUME TypeOK, AloneInv, BgsaveReturns
  PROVE  AloneInv'
<1>1. /\ saving' = TRUE /\ forking' = None
      /\ UNCHANGED <<name, content, pc, fd, pos, image, wrote, actors, failed, outcome, lastSaved>>
  BY DEF BgsaveReturns, savers, setting
<1>2. OneAtATime'
  BY <1>1 DEF AloneInv, OneAtATime
<1>3. TmpOwned' /\ Progress' /\ Frozen' /\ PathIsLastSave'
  BY <1>1 DEF AloneInv, TmpOwned, Progress, Frozen, PathIsLastSave
<1> QED BY <1>2, <1>3 DEF AloneInv

\* One saver goes on from one point of RDB::save to the next.
LEMMA OneAtATimeKept ==
  ASSUME TypeOK, OneAtATime, NEW s \in Saver, pc[s] # "idle",
         NEW p \in PC \ {"idle"}, pc' = [pc EXCEPT ![s] = p],
         UNCHANGED <<actors, saving, forking>>
  PROVE  OneAtATime'
BY Constants DEF TypeOK, OneAtATime

\* fopen: path.tmp is not the file under path, so truncating it or creating it
\* leaves that file alone.
LEMMA OpenStep ==
  ASSUME TypeOK, AloneInv, NEW s \in Saver, Open(s)
  PROVE  AloneInv'
<1> USE Constants DEF TypeOK
<1>1. /\ pc[s] = "open"
      /\ UNCHANGED <<image, actors, failed, saving, forking, outcome, lastSaved>>
  BY DEF Open, setting
<1>2. \A t \in Saver : t # s => pc[t] = "idle"
  BY <1>1 DEF AloneInv, OneAtATime
<1>3. \A t \in Saver : fd[t] = None
  BY <1>1, <1>2 DEF AloneInv, TmpOwned
<1>4. CASE pc' = [pc EXCEPT ![s] = "done"] /\ UNCHANGED <<name, content, fd, pos, wrote>>
  <2>1. OneAtATime'
    BY <1>1, <1>4, OneAtATimeKept DEF AloneInv, PC
  <2>2. TmpOwned' /\ Progress'
    BY <1>1, <1>4 DEF AloneInv, TmpOwned, Progress
  <2>3. Frozen' /\ PathIsLastSave'
    BY <1>1, <1>4 DEF AloneInv, Frozen, PathIsLastSave
  <2> QED BY <2>1, <2>2, <2>3 DEF AloneInv
<1>5. ASSUME NEW f \in Inode,
             IF name["tmp"] # None THEN f = name["tmp"] ELSE f = CHOOSE x \in Free : TRUE,
             name' = [name EXCEPT !["tmp"] = f],
             content' = [content EXCEPT ![f] = Nothing],
             fd' = [fd EXCEPT ![s] = f],
             pc' = [pc EXCEPT ![s] = "write"], pos' = [pos EXCEPT ![s] = 1],
             wrote' = [wrote EXCEPT ![s] = Nothing]
      PROVE  AloneInv'
  <2>1. f # name.path
    <3>1. CASE name.tmp # None
      BY <1>5, <3>1 DEF AloneInv, TmpOwned
    <3>2. CASE name.tmp = None
      BY <1>3, <1>5, <3>2, FreeInode
    <3> QED BY <3>1, <3>2
  <2>2. name'.tmp = f /\ name'.path = name.path
    BY <1>5
  <2>3. content'[f] = Nothing /\ wrote'[s] = Nothing /\ fd'[s] = f
    BY <1>5
  <2>4. OneAtATime'
    BY <1>1, <1>5, OneAtATimeKept DEF AloneInv, PC
  <2>5. TmpOwned'
    BY <1>2, <1>3, <1>5, <2>1, <2>2, <2>3 DEF TmpOwned
  <2>6. Progress'
    BY <1>2, <1>5 DEF Progress
  <2>7. Frozen'
    BY <1>1, <1>5 DEF AloneInv, Frozen, Nothing
  <2>8. PathIsLastSave'
    <3>1. name.path # None => content'[name.path] = content[name.path]
      BY <1>5, <2>1
    <3> QED BY <1>1, <2>2, <3>1 DEF AloneInv, PathIsLastSave
  <2> QED BY <2>4, <2>5, <2>6, <2>7, <2>8 DEF AloneInv
<1> QED BY <1>4, <1>5 DEF Open, Target

\* fwrite, which may fail unnoticed: the file and the history stay alike.
LEMMA WriteStep ==
  ASSUME TypeOK, AloneInv, NEW s \in Saver, Write(s)
  PROVE  AloneInv'
<1> USE Constants DEF TypeOK
<1>1. /\ pc[s] = "write"
      /\ pos' = [pos EXCEPT ![s] = @ + 1]
      /\ pc' = [pc EXCEPT ![s] = IF pos[s] = LastChunk THEN "rename" ELSE "write"]
      /\ UNCHANGED <<name, fd, image, actors, saving, forking, outcome, lastSaved>>
  BY Zenon DEF Write
<1>2. /\ fd[s] = name.tmp /\ fd[s] \in Inode /\ fd[s] # name.path
      /\ content[fd[s]] = wrote[s] /\ pos[s] \in {1, 2, 3}
  BY <1>1 DEF AloneInv, TmpOwned, Progress
<1>3. \A t \in Saver : t # s => pc[t] = "idle"
  BY <1>1 DEF AloneInv, OneAtATime
<1>4. OneAtATime'
  <2>1. (IF pos[s] = LastChunk THEN "rename" ELSE "write") \in PC \ {"idle"}
    BY DEF PC
  <2> QED BY <1>1, <2>1, OneAtATimeKept DEF AloneInv
<1>5. CASE /\ content' = [content EXCEPT ![fd[s]][pos[s]] = Chunk(s)]
           /\ wrote' = [wrote EXCEPT ![s][pos[s]] = Chunk(s)]
           /\ UNCHANGED failed
  <2> DEFINE snap == [wrote[s] EXCEPT ![pos[s]] = Chunk(s)]
  <2>1. /\ content' = [content EXCEPT ![fd[s]] = snap] /\ wrote' = [wrote EXCEPT ![s] = snap]
    BY <1>2, <1>5
  <2>2. /\ Chunk(s) # Hole /\ (s \in Child => Chunk(s) = image[s])
        /\ snap[pos[s]] = Chunk(s)
        /\ \A c \in Chunks : c # pos[s] => snap[c] = wrote[s][c]
    <3>1. wrote[s] \in [Chunks -> Nat \cup {Hole}]
      BY DEF Snapshot
    <3> QED BY <1>2, <3>1 DEF Chunk
  <2> HIDE DEF snap
  <2>3. TmpOwned'
    BY <1>1, <1>2, <1>3, <2>1 DEF AloneInv, TmpOwned
  <2>4. Progress'
    <3>1. ~failed => \A c \in Chunks : c <= pos[s] => snap[c] # Hole
      BY <1>1, <1>2, <2>2 DEF AloneInv, Progress
    <3>2. pos[s] = LastChunk => \A c \in Chunks : c <= pos[s]
      BY DEF LastChunk
    <3>3. CASE pos[s] = LastChunk
      <4>1. pc'[s] = "rename" /\ wrote'[s] = snap
        BY <1>1, <2>1, <3>3
      <4>2. ~failed' => Complete(snap)
        BY <1>5, <3>1, <3>2, <3>3 DEF Complete
      <4> QED BY <1>1, <1>3, <4>1, <4>2 DEF Progress
    <3>4. CASE pos[s] # LastChunk
      <4>1. pc'[s] = "write" /\ wrote'[s] = snap /\ pos'[s] = pos[s] + 1 /\ pos[s] + 1 \in Chunks
        BY <1>1, <1>2, <2>1, <3>4 DEF LastChunk
      <4>2. ~failed' => \A c \in Chunks : c < pos[s] + 1 => snap[c] # Hole
        BY <1>2, <1>5, <3>1
      <4> QED BY <1>1, <1>3, <4>1, <4>2 DEF Progress
    <3> QED BY <3>3, <3>4
  <2>5. Frozen'
    BY <1>1, <1>2, <2>1, <2>2 DEF AloneInv, Frozen
  <2>6. PathIsLastSave'
    <3>1. name.path # None => content'[name.path] = content[name.path]
      BY <1>2, <2>1
    <3> QED BY <1>1, <1>5, <3>1 DEF AloneInv, PathIsLastSave
  <2> QED BY <1>4, <2>3, <2>4, <2>5, <2>6 DEF AloneInv
<1>6. CASE failed' = TRUE /\ UNCHANGED <<content, wrote>>
  <2>1. TmpOwned'
    BY <1>1, <1>2, <1>3, <1>6 DEF AloneInv, TmpOwned
  <2>2. Progress'
    BY <1>1, <1>2, <1>3, <1>6 DEF Progress, LastChunk
  <2>3. Frozen'
    BY <1>1, <1>6 DEF AloneInv, Frozen
  <2>4. PathIsLastSave'
    BY <1>1, <1>6 DEF AloneInv, PathIsLastSave
  <2> QED BY <1>4, <2>1, <2>2, <2>3, <2>4 DEF AloneInv
<1> QED BY <1>5, <1>6, Zenon DEF Write

\* rename: path.tmp is the file this saver has written.
LEMMA RenameStep ==
  ASSUME TypeOK, AloneInv, NEW s \in Saver, Rename(s)
  PROVE  AloneInv'
<1> USE Constants DEF TypeOK
<1>1. /\ pc[s] = "rename" /\ pc' = [pc EXCEPT ![s] = "done"] /\ fd' = [fd EXCEPT ![s] = None]
      /\ UNCHANGED <<content, pos, image, wrote, actors, failed, saving, forking, outcome>>
  BY DEF Rename, setting
<1>2. name.tmp \in Inode /\ content[name.tmp] = wrote[s]
  BY <1>1 DEF AloneInv, TmpOwned
<1>3. \A t \in Saver : t # s => pc[t] = "idle"
  BY <1>1 DEF AloneInv, OneAtATime
<1>4. name' = [path |-> name.tmp, tmp |-> None] /\ lastSaved' = wrote[s]
  BY <1>2 DEF Rename
<1>5. name'.path = name.tmp /\ name'.tmp = None
  BY <1>4
<1>6. OneAtATime'
  BY <1>1, OneAtATimeKept DEF AloneInv, PC
<1>7. TmpOwned' /\ Progress'
  BY <1>1, <1>3, <1>5 DEF AloneInv, TmpOwned, Progress
<1>8. Frozen'
  <2>1. actors \subseteq Child => s \in Child
    BY <1>1 DEF AloneInv, OneAtATime
  <2>2. s \in Child => OneMoment(wrote[s])
    BY DEF AloneInv, Frozen, OneMoment
  <2> QED BY <1>1, <1>4, <2>1, <2>2 DEF AloneInv, Frozen
<1>9. PathIsLastSave'
  <2>1. ~failed => Complete(wrote[s])
    BY <1>1 DEF AloneInv, Progress
  <2> QED BY <1>1, <1>2, <1>4, <1>5, <2>1 DEF AloneInv, PathIsLastSave
<1> QED BY <1>6, <1>7, <1>8, <1>9 DEF AloneInv

\* The flag goes down with the only saver at work.
LEMMA FinishStep ==
  ASSUME TypeOK, AloneInv, NEW s \in Saver, Finish(s)
  PROVE  AloneInv'
<1> USE Constants DEF TypeOK
<1>1. /\ pc[s] = "done" /\ forking # s /\ pc' = [pc EXCEPT ![s] = "idle"]
      /\ image' = [image EXCEPT ![s] = 0] /\ wrote' = [wrote EXCEPT ![s] = Nothing]
      /\ UNCHANGED <<name, content, fd, actors, failed, forking, outcome, lastSaved>>
  BY DEF Finish, setting
<1>2. \A t \in Saver : pc'[t] = "idle"
  BY <1>1 DEF AloneInv, OneAtATime
<1>3. forking = None
  BY <1>1 DEF AloneInv, OneAtATime
<1>4. OneAtATime'
  BY <1>1, <1>2, <1>3 DEF OneAtATime
<1>5. TmpOwned' /\ Progress'
  BY <1>1, <1>2 DEF AloneInv, TmpOwned, Progress
<1>6. Frozen'
  BY <1>1 DEF AloneInv, Frozen, Nothing
<1>7. PathIsLastSave'
  BY <1>1 DEF AloneInv, PathIsLastSave
<1> QED BY <1>4, <1>5, <1>6, <1>7 DEF AloneInv

\* A crash at any point stops every saver and keeps the files.
LEMMA CrashStep ==
  ASSUME TypeOK, AloneInv, Crash
  PROVE  AloneInv'
<1> USE Constants DEF TypeOK
<1>1. /\ \A s \in Saver : pc'[s] = "idle" /\ fd'[s] = None /\ wrote'[s] = Nothing
      /\ forking' = None
      /\ UNCHANGED <<name, content, actors, failed, outcome, lastSaved>>
  BY DEF Crash, setting
<1>2. OneAtATime'
  BY <1>1 DEF OneAtATime
<1>3. TmpOwned' /\ Progress'
  BY <1>1 DEF AloneInv, TmpOwned, Progress
<1>4. Frozen'
  BY <1>1 DEF AloneInv, Frozen, Nothing
<1>5. PathIsLastSave'
  BY <1>1 DEF AloneInv, PathIsLastSave
<1> QED BY <1>2, <1>3, <1>4, <1>5 DEF AloneInv

\* Every step of savers that are alone keeps the invariant.
LEMMA SaveInvNext == SaveInv /\ [Next]_vars => SaveInv'
<1> SUFFICES ASSUME SaveInv, [Next]_vars PROVE SaveInv'
  OBVIOUS
<1>1. TypeOK /\ TypeOK'
  BY TypeNext DEF SaveInv
<1>2. UNCHANGED actors
  BY DEF Next, vars, Mutate, Save, Bgsave, BgsaveReturns, SaverStep, Open, Write, Rename,
         Finish, Crash, Restart, setting
<1>3. SUFFICES ASSUME Alone PROVE AloneInv'
  BY <1>1, <1>2 DEF SaveInv, Alone
<1>4. AloneInv
  BY <1>3 DEF SaveInv
<1>5. CASE Mutate \/ UNCHANGED vars
  BY <1>4, <1>5, QuietStep DEF Mutate, vars
<1>6. CASE Restart
  <2>1. ~failed => outcome' # "partial"
    BY <1>4, <1>6 DEF Restart, AloneInv, PathIsLastSave
  <2> QED BY <1>4, <1>6, <2>1, QuietStep DEF Restart
<1>7. CASE \E t \in PoolThread : Save(t)
  BY <1>1, <1>3, <1>4, <1>7, SaveStep
<1>8. CASE \E c \in Child : Bgsave(c)
  BY <1>1, <1>3, <1>4, <1>8, BgsaveStep
<1>9. CASE BgsaveReturns
  BY <1>1, <1>4, <1>9, BgsaveReturnsStep
<1>10. CASE \E s \in Saver : SaverStep(s)
  BY <1>1, <1>4, <1>10, OpenStep, WriteStep, RenameStep, FinishStep DEF SaverStep
<1>11. CASE Crash
  BY <1>1, <1>4, <1>11, CrashStep
<1> QED BY <1>5, <1>6, <1>7, <1>8, <1>9, <1>10, <1>11 DEF Next

\* The invariant holds throughout, whoever the savers are.
LEMMA SaveInvAlways == Spec => []SaveInv
BY SaveInvInit, SaveInvNext, PTL DEF Spec

-----------------------------------------------------------------------------
\* Wherever a crash falls and however many snapshots were taken, the file under
\* path is what the last saver wrote, and complete unless the disk has failed:
\* with the automatic snapshot on one thread, or with background saves, however
\* many are asked for (rdb.cpp:46-88, persistence.cpp:9-51).
THEOREM PathIsLastSaveAlone == Spec => [](Alone => PathIsLastSave)
<1>1. SaveInv => (Alone => PathIsLastSave)
  BY DEF SaveInv, AloneInv
<1> QED BY <1>1, SaveInvAlways, PTL

\* A background save shows the data of the moment of its fork, however many
\* mutations the parent makes meanwhile (persistence.cpp:31-37).
THEOREM PointInTimeAlways == Spec => []PointInTime
<1>1. SaveInv => PointInTime
  <2> SUFFICES ASSUME SaveInv, name.path # None, actors \subseteq Child,
                      NEW c \in 1 .. 2, NEW d \in 1 .. 2,
                      content[name.path][c] # Hole, content[name.path][d] # Hole
               PROVE  content[name.path][c] = content[name.path][d]
    BY DEF PointInTime
  <2>1. OneMoment(lastSaved) /\ content[name.path] = lastSaved
    BY DEF SaveInv, Alone, AloneInv, Frozen, PathIsLastSave
  <2>2. c \in Chunks /\ d \in Chunks
    BY DEF Chunks
  <2> QED BY <2>1, <2>2 DEF OneMoment
<1> QED BY <1>1, SaveInvAlways, PTL

\* No second child is forked before the first has been reaped, as long as no
\* save() of a pool thread takes the flag down for it (persistence.cpp:9-12,26-45).
THEOREM OneChildAlone == Spec => [](Alone => OneChildAtATime)
<1>1. SaveInv => (Alone => OneChildAtATime)
  <2> SUFFICES ASSUME SaveInv, Alone PROVE OneChildAtATime
    OBVIOUS
  <2> DEFINE busy == {c \in Child : pc[c] # "idle"}
  <2>1. \A c, d \in busy : c = d
    BY Constants DEF SaveInv, AloneInv, OneAtATime
  <2>2. busy = {} \/ \E c : busy = {c}
    BY <2>1
  <2>3. Cardinality(busy) <= 1
    <3>1. CASE busy = {}
      BY <3>1, FS_EmptySet
    <3>2. CASE \E c : busy = {c}
      <4>1. PICK c : busy = {c}
        BY <3>2
      <4>2. Cardinality({c}) = 1
        BY FS_Singleton
      <4> QED BY <4>1, <4>2
    <3> QED BY <2>2, <3>1, <3>2
  <2> QED BY <2>3 DEF OneChildAtATime
<1> QED BY <1>1, SaveInvAlways, PTL
=============================================================================
