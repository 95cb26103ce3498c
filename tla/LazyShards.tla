------------------------------ MODULE LazyShards ------------------------------
(***************************************************************************)
(* The file index of the user layer.  Its shards L2/<user> are not         *)
(* replicated: the primary scans a user's tree when somebody needs it, a   *)
(* worker copies the shard on demand, and a change replicates only a       *)
(* marker with the shard's new version, which makes other copies stale.    *)
(*                                                                         *)
(*   server/lib/file_watch/file_index_store.js  a store of shards          *)
(*   server/lib/file_watch/watchdog.js          scans, commits, the queue  *)
(*   server/runtime/cluster.js                  requests and broadcasts    *)
(*                                                                         *)
(* Data abstraction: a shard's value is the set of paths it lists, empty   *)
(* when there is no shard.  The replicated state is the sequence of        *)
(* markers committed so far: replicated version n is its first n elements, *)
(* and StateReplication says how a replica follows it.  A worker applies a *)
(* replicated change in the turn its message is handled.  The reconcile    *)
(* visits one user at a time.                                              *)
(*                                                                         *)
(* Bounds: MaxWrites file changes by requests and MaxForeign by others,    *)
(* MaxScans scans, MaxReloads snapshots; a worker has one read of a user's *)
(* index and one write open at a time.                                     *)
(***************************************************************************)
EXTENDS Integers, Sequences, FiniteSets

CONSTANTS
  Workers, Users, Files,
  Readers, Writers,  \* the workers whose requests read an index, or write
  MaxWrites, MaxForeign, MaxScans, MaxReloads

ASSUME BoundsAssumption ==
  /\ Readers \subseteq Workers /\ Writers \subseteq Workers
  /\ MaxWrites \in Nat /\ MaxForeign \in Nat
  /\ MaxScans \in Nat /\ MaxReloads \in Nat
  /\ "watcher" \notin Workers  \* the origin of the changes of no worker

VARIABLES
  disk,        \* the files of each user
  store,       \* the primary's shards
  counter,     \* shardVersionCounter of the primary's store
  published,   \* ghost: published[v] is the shard that got version v
  markers,     \* the replicated L2 version markers, in commit order
  mutations,   \* path changes in the primary's operation queue
  loaders,     \* workers awaiting the load of a user's shard
  scan,        \* the walk the operation queue is busy with
  unsent,      \* answers whose continuation has not run yet
  watched,     \* users whose directories have watchers
  noticed,     \* pendingChangedPaths
  missed,      \* ghost: foreign changes that no operation will index
  position,    \* the replicated version of each worker
  shards,      \* the worker's shards
  up, down,    \* the IPC channel
  tasks,       \* answers whose awaiting code has not resumed
  writing,     \* the write each worker has open
  acked,       \* ghost: the shard version of the worker's answered writes
  reading,     \* users whose shard the worker has asked for
  writes, foreign, scans, reloads  \* counters of the bounds

primaryVars == <<store, counter, published, markers>>
queueVars   == <<mutations, loaders, scan, unsent>>
diskVars    == <<disk, watched, noticed, missed>>
workerVars  == <<position, shards, tasks, writing, acked, reading>>
boundVars   == <<writes, foreign, scans, reloads>>
vars == <<disk, store, counter, published, markers, mutations, loaders, scan,
          unsent, watched, noticed, missed, position, shards, up, down, tasks,
          writing, acked, reading, writes, foreign, scans, reloads>>
-----------------------------------------------------------------------------
(* A store's shard of one user.                                             *)
Shard == [files : SUBSET Files, full : BOOLEAN, stale : BOOLEAN, version : Nat]

ShardOf(files, full, stale, version) ==
  [files |-> files, full |-> full, stale |-> stale, version |-> version]

NoShard == ShardOf({}, FALSE, FALSE, 0)

(* isShardCurrent.                                                          *)
Current(s) == s.full /\ ~s.stale

(* applyShard as applyLazyShards calls it: an empty value removes the shard,*)
(* any other value clears the stale mark, whatever the versions.            *)
ApplyShard(s, new) ==
  IF new.files = {} THEN ShardOf({}, FALSE, FALSE, new.version)
  ELSE ShardOf(new.files, s.full \/ new.full, FALSE, new.version)

(* markShardStale: a shard that is absent or not older stays as it is.      *)
MarkStale(s, v) ==
  ShardOf(s.files, s.full,
          s.stale \/ (s.version < v /\ s.files # {}), s.version)

(* getShardSnapshot.                                                        *)
Copy(s) == ShardOf(s.files, s.full, FALSE, s.version)
-----------------------------------------------------------------------------
(* Messages.  mark is the marker that an answer's delta holds, 0 for none.  *)
NoScan == [kind |-> "none"]
NoWrite == [step |-> "none"]
Watcher == "watcher"

Answer(kind, u, mark, copies) ==
  [type |-> "answer", kind |-> kind, user |-> u, mark |-> mark,
   copies |-> copies]
MarkerMessage(n)   == [type |-> "marker", mark |-> n]
SnapshotMessage(n) == [type |-> "snapshot", mark |-> n]

Send(queues, w, m) == [queues EXCEPT ![w] = Append(@, m)]
Drop(queues, w)    == [queues EXCEPT ![w] = Tail(@)]
Broadcast(m)       == [w \in Workers |-> Append(down[w], m)]

Idle == scan = NoScan

Walk(kind, u, start, touched) ==
  [kind |-> kind, user |-> u, start |-> start, touched |-> touched]

Init ==
  /\ disk \in [Users -> SUBSET Files]
  /\ store = [u \in Users |-> NoShard]
  /\ counter = 0 /\ published = << >> /\ markers = << >>
  /\ mutations = << >> /\ unsent = << >>
  /\ loaders = [u \in Users |-> << >>]
  /\ scan = NoScan
  /\ watched = {} /\ missed = {}
  /\ noticed = [u \in Users |-> {}]
  /\ position = [w \in Workers |-> 0]
  /\ shards = [w \in Workers |-> [u \in Users |-> NoShard]]
  /\ up = [w \in Workers |-> << >>] /\ down = [w \in Workers |-> << >>]
  /\ tasks = [w \in Workers |-> << >>]
  /\ writing = [w \in Workers |-> NoWrite]
  /\ acked = [w \in Workers |-> [u \in Users |-> 0]]
  /\ reading = [w \in Workers |-> {}]
  /\ writes = 0 /\ foreign = 0 /\ scans = 0 /\ reloads = 0
-----------------------------------------------------------------------------
(* The file system.                                                         *)

(* A file appears or disappears; a running walk may have seen either.       *)
ChangeFile(u, f) ==
  /\ disk' = [disk EXCEPT ![u] = IF f \in @ THEN @ \ {f} ELSE @ \union {f}]
  /\ scan' = IF ~Idle /\ scan.user = u
             THEN Walk(scan.kind, u, scan.start, scan.touched \union {f})
             ELSE scan
  /\ noticed' = IF u \in watched
                THEN [noticed EXCEPT ![u] = @ \union {f}] ELSE noticed

ForeignChange(u, f) ==
  /\ foreign < MaxForeign
  /\ foreign' = foreign + 1
  /\ ChangeFile(u, f)
  /\ missed' = IF u \in watched THEN missed ELSE missed \union {<<u, f>>}
  /\ UNCHANGED <<store, counter, published, markers, mutations, loaders,
                 unsent, watched, position, shards, up, down, tasks, writing,
                 acked, reading, writes, scans, reloads>>

Write(step, u, f) == [step |-> step, user |-> u, file |-> f]

(* A request changes the file itself and then commits its path.             *)
WriteFile(w, u, f) ==
  /\ w \in Writers /\ writing[w] = NoWrite
  /\ writes < MaxWrites
  /\ writes' = writes + 1
  /\ ChangeFile(u, f)
  /\ writing' = [writing EXCEPT ![w] = Write("written", u, f)]
  /\ UNCHANGED <<store, counter, published, markers, mutations, loaders,
                 unsent, watched, missed, position, shards, up, down, tasks,
                 acked, reading, foreign, scans, reloads>>

CommitWrite(w) ==
  /\ writing[w].step = "written"
  /\ writing' = [writing EXCEPT ![w] =
                    Write("committing", writing[w].user, writing[w].file)]
  /\ up' = Send(up, w, [method |-> "commitProjectPaths",
                        user |-> writing[w].user, file |-> writing[w].file])
  /\ UNCHANGED <<disk, store, counter, published, markers, mutations, loaders,
                 scan, unsent, watched, noticed, missed, position, shards,
                 down, tasks, acked, reading, writes, foreign, scans, reloads>>

(* The watcher's debounce timer; paths of an unloaded shard are dropped.    *)
FireWatch(u) ==
  /\ noticed[u] # {}
  /\ noticed' = [noticed EXCEPT ![u] = {}]
  /\ IF Current(store[u])
     THEN /\ mutations' = Append(mutations, [origin |-> Watcher, user |-> u,
                                             files |-> noticed[u]])
          /\ UNCHANGED missed
     ELSE /\ missed' = missed \union ({u} \X noticed[u])
          /\ UNCHANGED mutations
  /\ UNCHANGED <<disk, store, counter, published, markers, loaders, scan,
                 unsent, watched, position, shards, up, down, tasks, writing,
                 acked, reading, writes, foreign, scans, reloads>>
-----------------------------------------------------------------------------
(* The primary's store and its operation queue.                             *)

(* Mutant: the store keeps the shard's version.                             *)
ReplaceUnversioned(u, files, full) ==
  /\ counter' = IF counter = 0 THEN 1 ELSE counter
  /\ store' = [store EXCEPT ![u] = ShardOf(files, files # {} /\ full, FALSE,
                                           counter')]
  /\ published' = IF counter = 0 THEN <<[user |-> u, files |-> files]>>
                  ELSE published

(* The store replaces u's shard, which gets the next version.               *)
Replace(u, files, full) ==
  /\ counter' = counter + 1
  /\ store' = [store EXCEPT ![u] = ShardOf(files, files # {} /\ full, FALSE,
                                           counter + 1)]
  /\ published' = Append(published, [user |-> u, files |-> files])

(* The commit replicates a marker with the shard's new version.             *)
CommitMarker(u) ==
  markers' = Append(markers, [user |-> u, version |-> counter'])

Synced(u, fs) == (store[u].files \ fs) \union (disk[u] \intersect fs)

(* Mutant: a path the index does not list yet is taken for no change.       *)
TouchesOnlyListed(u, fs) == fs \intersect store[u].files # {}

(* A path that neither the index nor the disk knows is no change.  One that *)
(* exists always is: its entry is removed and inserted again.               *)
Touches(u, fs) == fs \intersect (store[u].files \union disk[u]) # {}

(* applyAbsolutePathChanges: a worker's commit leaves the broadcast to the  *)
(* continuation that answers it, the watcher's operation emits at once.     *)
RunMutation ==
  /\ Idle /\ mutations # << >>
  /\ mutations' = Tail(mutations)
  /\ LET m == Head(mutations)
         fromWorker == m.origin # Watcher
         answer(mark, copies) ==
           [worker |-> m.origin,
            answer |-> Answer("write", m.user, mark, copies)]
     IN /\ missed' = missed \ ({m.user} \X m.files)
        /\ IF Touches(m.user, m.files)
           THEN /\ Replace(m.user, Synced(m.user, m.files), store[m.user].full)
                /\ CommitMarker(m.user)
                /\ watched' = IF Synced(m.user, m.files) = {}
                              THEN watched \ {m.user}
                              ELSE watched \union {m.user}
                /\ unsent' = IF fromWorker
                             THEN Append(unsent, answer(Len(markers'),
                                                   {Copy(store'[m.user])}))
                             ELSE unsent
                /\ down' = IF fromWorker THEN down
                           ELSE Broadcast(MarkerMessage(Len(markers')))
           ELSE /\ unsent' = IF fromWorker THEN Append(unsent, answer(0, {}))
                             ELSE unsent
                /\ UNCHANGED <<store, counter, published, markers, watched,
                               down>>
  /\ UNCHANGED <<disk, loaders, scan, noticed, position, shards, up, tasks,
                 writing, acked, reading, writes, foreign, scans, reloads>>

(* A walk of a user's tree, for the workers that await the shard or by the  *)
(* reconcile, which runs when nothing else is queued ...                    *)
StartScan(u) ==
  /\ Idle /\ mutations = << >>
  /\ scans < MaxScans
  /\ scans' = scans + 1
  /\ \/ loaders[u] # << >>
     \/ Current(store[u]) /\ \A v \in Users : loaders[v] = << >>
  /\ scan' = Walk(IF loaders[u] # << >> THEN "load" ELSE "reconcile",
                  u, disk[u], {})
  /\ UNCHANGED <<disk, store, counter, published, markers, mutations, loaders,
                 unsent, watched, noticed, missed, position, shards, up, down,
                 tasks, writing, acked, reading, writes, foreign, reloads>>

(* ... and its end: the shard is replaced if it differs or was absent, and  *)
(* a difference is committed and emitted.                                   *)
FinishScan ==
  /\ ~Idle
  /\ scan' = NoScan
  /\ \E seen \in SUBSET scan.touched :
       LET u == scan.user
           found == (scan.start \ scan.touched) \union seen
           differs == found # store[u].files
       IN /\ IF differs \/ found = {}
             THEN Replace(u, found, TRUE)
             ELSE /\ store' = [store EXCEPT ![u] =
                                 ShardOf(found, TRUE, FALSE, store[u].version)]
                  /\ UNCHANGED <<counter, published>>
          /\ IF differs
             THEN /\ CommitMarker(u)
                  /\ down' = Broadcast(MarkerMessage(Len(markers')))
             ELSE UNCHANGED <<markers, down>>
          /\ missed' = {m \in missed : m[1] = u => m[2] \in scan.touched}
          /\ watched' = watched \union {u}
          /\ IF scan.kind = "load"
             THEN /\ loaders' = [loaders EXCEPT ![u] = << >>]
                  /\ unsent' = unsent \o
                       [i \in DOMAIN loaders[u] |->
                          [worker |-> loaders[u][i],
                           answer |-> Answer("read", u,
                                        IF differs THEN Len(markers') ELSE 0,
                                        {Copy(store'[u])})]]
             ELSE UNCHANGED <<loaders, unsent>>
  /\ UNCHANGED <<disk, mutations, noticed, position, shards, up, tasks,
                 writing, acked, reading, writes, foreign, scans, reloads>>

(* A refresh that reloads the watch configuration sends a full snapshot.    *)
ReloadConfig ==
  /\ Idle /\ mutations = << >>
  /\ reloads < MaxReloads
  /\ reloads' = reloads + 1
  /\ down' = Broadcast(SnapshotMessage(Len(markers)))
  /\ UNCHANGED <<disk, store, counter, published, markers, mutations, loaders,
                 scan, unsent, watched, noticed, missed, position, shards, up,
                 tasks, writing, acked, reading, writes, foreign, scans>>
-----------------------------------------------------------------------------
(* The primary's message handlers.  A message is handled when no answer's   *)
(* continuation is left to run.                                             *)
Handling(w, method) ==
  /\ unsent = << >>
  /\ up[w] # << >> /\ Head(up[w]).method = method
  /\ up' = Drop(up, w)
  /\ UNCHANGED <<disk, store, counter, published, markers, scan, watched,
                 noticed, missed, position, shards, tasks, writing, acked,
                 reading, writes, foreign, scans, reloads>>

HandleCommit(w) ==
  /\ Handling(w, "commitProjectPaths")
  /\ mutations' = Append(mutations, [origin |-> w, user |-> Head(up[w]).user,
                                     files |-> {Head(up[w]).file}])
  /\ UNCHANGED <<loaders, unsent, down>>

(* A shard that is current is copied unless the worker has that version;    *)
(* otherwise the worker joins those that await its load.                    *)
HandleEnsureLoaded(w) ==
  /\ Handling(w, "ensureFileIndexShardLoaded")
  /\ LET u == Head(up[w]).user
         copies == IF store[u].version = Head(up[w]).known THEN {}
                   ELSE {Copy(store[u])}
     IN IF Current(store[u])
        THEN /\ unsent' = << [worker |-> w,
                              answer |-> Answer("read", u, 0, copies)] >>
             /\ UNCHANGED loaders
        ELSE /\ loaders' = [loaders EXCEPT ![u] = Append(@, w)]
             /\ UNCHANGED unsent
  /\ UNCHANGED <<mutations, down>>

(* getDeltaSince: the markers since, or a snapshot if the log is too short. *)
HandleSync(w) ==
  /\ Handling(w, "getDeltaSince")
  /\ \E whole \in BOOLEAN :
       /\ whole => Head(up[w]).from < Len(markers)
       /\ down' = Send(down, w,
                    [type |-> "sync", whole |-> whole,
                     cause |-> Head(up[w]).cause,
                     from |-> Head(up[w]).from, to |-> Len(markers)])
  /\ UNCHANGED <<mutations, loaders, unsent>>

(* Mutant: the continuations run in the opposite order.                     *)
NextAnswerLast(queue) == Len(queue)

(* Promise continuations run in the order their operations ended.           *)
NextAnswer(queue) == 1

(* The continuation of a request: a commit's delta is broadcast, then the   *)
(* worker is answered.                                                      *)
SendAnswer ==
  /\ unsent # << >>
  /\ LET i == NextAnswer(unsent)
         a == unsent[i]
         told == IF a.answer.kind = "write" /\ a.answer.mark > 0
                 THEN Broadcast(MarkerMessage(a.answer.mark)) ELSE down
     IN /\ down' = Send(told, a.worker, a.answer)
        /\ unsent' = SubSeq(unsent, 1, i - 1) \o
                     SubSeq(unsent, i + 1, Len(unsent))
  /\ UNCHANGED <<disk, store, counter, published, markers, mutations, loaders,
                 scan, watched, noticed, missed, position, shards, up, tasks,
                 writing, acked, reading, writes, foreign, scans, reloads>>
-----------------------------------------------------------------------------
(* A worker.                                                                *)

(* A request that needs u's index and finds it missing or stale.            *)
Read(w, u) ==
  /\ w \in Readers /\ u \notin reading[w]
  /\ ~Current(shards[w][u])
  /\ reading' = [reading EXCEPT ![w] = @ \union {u}]
  /\ up' = Send(up, w, [method |-> "ensureFileIndexShardLoaded", user |-> u,
                        known |-> shards[w][u].version])
  /\ UNCHANGED <<disk, store, counter, published, markers, mutations, loaders,
                 scan, unsent, watched, noticed, missed, position, shards,
                 down, tasks, writing, acked, writes, foreign, scans, reloads>>

(* What an answer ends: a read, or a write whose shard has version v.       *)
Close(w, cause) ==
  /\ writing' = IF cause.kind = "write"
                THEN [writing EXCEPT ![w] = NoWrite] ELSE writing
  /\ reading' = IF cause.kind = "read"
                THEN [reading EXCEPT ![w] = @ \ {cause.user}] ELSE reading

Acknowledge(w, cause) ==
  acked' = IF cause.kind = "write" /\ cause.mark > 0
           THEN [acked EXCEPT ![w] =
                   [acked[w] EXCEPT ![cause.user] =
                      markers[cause.mark].version]]
           ELSE acked

Cause(kind, u, mark) == [kind |-> kind, user |-> u, mark |-> mark]

(* Ask the primary for what is missing between the replica and a delta.     *)
AskForDelta(w, cause) ==
  up' = Send(up, w, [method |-> "getDeltaSince", from |-> position[w],
                     cause |-> cause])

Stale(w, from, to) ==
  [u \in Users |->
     IF \E n \in from + 1 .. to :
          /\ markers[n].user = u
          /\ MarkStale(shards[w][u], markers[n].version).stale
     THEN ShardOf(shards[w][u].files, shards[w][u].full, TRUE,
                  shards[w][u].version)
     ELSE shards[w][u]]

Receiving(w, type) ==
  /\ down[w] # << >> /\ Head(down[w]).type = type
  /\ down' = Drop(down, w)
  /\ UNCHANGED <<disk, store, counter, published, markers, mutations, loaders,
                 scan, unsent, watched, noticed, missed, writing, acked,
                 reading, writes, foreign, scans, reloads>>

(* A broadcast delta; the invalidation it carries is applied even when the  *)
(* replica already has the delta.                                           *)
ReceiveMarker(w) ==
  /\ Receiving(w, "marker")
  /\ LET n == Head(down[w]).mark IN
     IF n <= position[w] + 1
     THEN /\ position' = [position EXCEPT ![w] = IF n > @ THEN n ELSE @]
          /\ shards' = [shards EXCEPT ![w] = Stale(w, n - 1, n)]
          /\ UNCHANGED up
     ELSE /\ AskForDelta(w, [kind |-> "handler"])
          /\ UNCHANGED <<position, shards>>
  /\ UNCHANGED tasks

Rehydrate(w, n) ==
  /\ position' = [position EXCEPT ![w] = n]
  /\ shards' = [shards EXCEPT ![w] = [u \in Users |-> NoShard]]

(* A snapshot holds no user shards: the replica forgets the ones it had.    *)
ReceiveSnapshot(w) ==
  /\ Receiving(w, "snapshot")
  /\ IF Head(down[w]).mark < position[w] THEN UNCHANGED <<position, shards>>
     ELSE Rehydrate(w, Head(down[w]).mark)
  /\ UNCHANGED <<up, tasks>>

ReceiveAnswer(w) ==
  /\ \E type \in {"answer", "sync"} : Receiving(w, type)
  /\ tasks' = Send(tasks, w, Head(down[w]))
  /\ UNCHANGED <<position, shards, up>>

Resuming(w, type) ==
  /\ tasks[w] # << >> /\ Head(tasks[w]).type = type
  /\ tasks' = Drop(tasks, w)
  /\ UNCHANGED <<disk, store, counter, published, markers, mutations, loaders,
                 scan, unsent, watched, noticed, missed, down, writes, foreign,
                 scans, reloads>>

(* applyPrimarySyncPayload: the delta, then the shards, then the            *)
(* invalidations.  A gap skips the shards and synchronises.                 *)
ResumeAnswer(w) ==
  /\ Resuming(w, "answer")
  /\ LET a == Head(tasks[w])
         cause == Cause(a.kind, a.user, a.mark)
         marked == IF a.mark > 0 THEN Stale(w, a.mark - 1, a.mark)
                   ELSE shards[w]
         copied == [u \in Users |->
                      IF \E c \in a.copies : u = a.user
                      THEN ApplyShard(marked[u], CHOOSE c \in a.copies : TRUE)
                      ELSE marked[u]]
         told == [u \in Users |->
                    IF a.mark > 0 /\ u = a.user
                    THEN MarkStale(copied[u], markers[a.mark].version)
                    ELSE copied[u]]
     IN IF a.mark <= position[w] + 1
        THEN /\ position' = [position EXCEPT ![w] = IF a.mark > @ THEN a.mark
                                                    ELSE @]
             /\ shards' = [shards EXCEPT ![w] = told]
             /\ Close(w, cause) /\ Acknowledge(w, cause)
             /\ UNCHANGED up
        ELSE /\ AskForDelta(w, cause)
             /\ UNCHANGED <<position, shards, writing, acked, reading>>

(* syncWatchdogFromPrimary: another gap fails the request.                  *)
ResumeSync(w) ==
  /\ Resuming(w, "sync")
  /\ LET s == Head(tasks[w])
         gap == ~s.whole /\ s.to > position[w] /\ s.from # position[w]
     IN /\ IF s.to < position[w] \/ gap \/ (s.to = position[w] /\ ~s.whole)
           THEN UNCHANGED <<position, shards>>
           ELSE IF s.whole THEN Rehydrate(w, s.to)
           ELSE /\ position' = [position EXCEPT ![w] = s.to]
                /\ shards' = [shards EXCEPT ![w] = Stale(w, s.from, s.to)]
        /\ IF s.cause.kind = "handler" THEN UNCHANGED <<writing, reading>>
           ELSE Close(w, s.cause)
        /\ IF gap \/ s.cause.kind = "handler" THEN UNCHANGED acked
           ELSE Acknowledge(w, s.cause)
  /\ UNCHANGED up
-----------------------------------------------------------------------------
Primary ==
  \/ RunMutation \/ FinishScan \/ ReloadConfig \/ SendAnswer
  \/ \E u \in Users : FireWatch(u) \/ StartScan(u)
  \/ \E w \in Workers :
       HandleCommit(w) \/ HandleEnsureLoaded(w) \/ HandleSync(w)

Worker(w) ==
  \/ CommitWrite(w)
  \/ ReceiveMarker(w) \/ ReceiveSnapshot(w) \/ ReceiveAnswer(w)
  \/ ResumeAnswer(w) \/ ResumeSync(w)
  \/ \E u \in Users : Read(w, u) \/ \E f \in Files : WriteFile(w, u, f)

Next ==
  \/ Primary
  \/ \E w \in Workers : Worker(w)
  \/ \E u \in Users, f \in Files : ForeignChange(u, f)

Spec == Init /\ [][Next]_vars
-----------------------------------------------------------------------------
(* The types, and the version every shard of the primary has: markers of    *)
(* version 0 are filtered out of a commit.                                  *)
TypeOK ==
  /\ disk \in [Users -> SUBSET Files]
  /\ counter \in Nat
  /\ store \in [Users -> Shard]
  /\ \A u \in Users : store[u].files # {} => store[u].version \in 1..counter
  /\ position \in [Workers -> 0..Len(markers)]
  /\ shards \in [Workers -> [Users -> Shard]]

(* Whatever crosses on the way, the copy a worker holds under version v is  *)
(* what the primary's index held as version v of that user's shard.         *)
ShardsAreTrue ==
  \A w \in Workers, u \in Users :
    LET s == shards[w][u] IN
    s.version > 0 => /\ s.version <= counter
                     /\ published[s.version].user = u
                     /\ s.files = published[s.version].files

(* A shard the primary calls current differs from the disk only in files    *)
(* whose commit is still to come or whose change nobody reported.           *)
UnderWay(u, f) ==
  \/ f \in noticed[u]
  \/ <<u, f>> \in missed
  \/ \E i \in DOMAIN mutations :
       mutations[i].user = u /\ f \in mutations[i].files
  \/ \E w \in Workers : /\ writing[w] # NoWrite
                        /\ writing[w].user = u /\ writing[w].file = f

IndexTracksDisk ==
  \A u \in Users, f \in Files :
    Current(store[u]) /\ (f \in store[u].files) # (f \in disk[u])
      => UnderWay(u, f)

(* A worker that has answered a write serves it, or knows its copy stale.   *)
WritersSeeTheirWrites ==
  \A w \in Workers, u \in Users :
    Current(shards[w][u]) => shards[w][u].version >= acked[w][u]

(* The inductive invariant behind ShardsAreTrue: every copy on its way is   *)
(* true, and a version once published stays what it was.                    *)
TrueShard(u) ==
  {s \in Shard : s.version > 0 => /\ s.version <= counter
                                  /\ published[s.version] =
                                       [user |-> u, files |-> s.files]}

Marks  == 0..Len(markers)
Causes == [kind : {"handler"}] \union
          [kind : {"read", "write"}, user : Users, mark : Marks]

TrueAnswer ==
  {a \in [type : {"answer"}, kind : {"read", "write"}, user : Users,
          mark : Marks, copies : SUBSET Shard] :
     a.copies \subseteq TrueShard(a.user)}

SyncMessage ==
  [type : {"sync"}, whole : BOOLEAN, cause : Causes, from : Marks, to : Marks]
BroadcastMessage == [type : {"marker", "snapshot"}, mark : Marks]

Request ==
  [method : {"commitProjectPaths"}, user : Users, file : Files]
  \union
  [method : {"ensureFileIndexShardLoaded"}, user : Users, known : Nat]
  \union
  [method : {"getDeltaSince"}, from : Marks, cause : Causes]

PrimaryOK ==
  /\ disk \in [Users -> SUBSET Files]
  /\ counter \in Nat
  /\ published \in Seq([user : Users, files : SUBSET Files])
  /\ Len(published) = counter
  /\ markers \in Seq([user : Users, version : Nat])
  /\ store \in [Users -> Shard]
  /\ \A u \in Users : /\ store[u] \in TrueShard(u)
                      /\ store[u].files # {} => store[u].version >= 1

QueuesOK ==
  /\ mutations \in Seq([origin : Workers \union {Watcher}, user : Users,
                        files : SUBSET Files])
  /\ loaders \in [Users -> Seq(Workers)]
  /\ scan \in {NoScan} \union
       [kind : {"load", "reconcile"}, user : Users, start : SUBSET Files,
        touched : SUBSET Files]
  /\ noticed \in [Users -> SUBSET Files]
  /\ unsent \in Seq([worker : Workers, answer : TrueAnswer])

WorkersOK ==
  /\ writing \in [Workers -> {NoWrite} \union
       [step : {"written", "committing"}, user : Users, file : Files]]
  /\ position \in [Workers -> Marks]
  /\ shards \in [Workers -> [Users -> Shard]]
  /\ \A w \in Workers, u \in Users : shards[w][u] \in TrueShard(u)

ChannelsOK ==
  /\ up \in [Workers -> Seq(Request)]
  /\ down \in [Workers -> Seq(TrueAnswer \union SyncMessage
                               \union BroadcastMessage)]
  /\ tasks \in [Workers -> Seq(TrueAnswer \union SyncMessage)]

IInv == PrimaryOK /\ QueuesOK /\ WorkersOK /\ ChannelsOK

(* A replica that has reached a version serves every change of it: a shard  *)
(* a worker calls current is not older than the markers it has applied.     *)
CurrentMeansFresh ==
  \A w \in Workers, u \in Users :
    Current(shards[w][u]) =>
      \A n \in 1..position[w] :
        markers[n].user = u => markers[n].version <= shards[w][u].version
=============================================================================
