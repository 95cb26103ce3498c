---------------------------- MODULE LazyShardsProofs ----------------------------
(***************************************************************************)
(* Proofs about LazyShards, for any number of workers, users, files and    *)
(* any bounds.                                                             *)
(*   ShardTypes, CopiesAreTrue: a copy, in a worker or on its way to one,  *)
(*     is what the primary's index held under the version it carries;      *)
(*   DiskIsTracked: what the index has wrong is reported or under way;     *)
(*   WritersServe: a worker serves no index older than its answered write. *)
(***************************************************************************)
EXTENDS LazyShards, SequenceTheorems, TLAPS

(* Queues: what sending and dropping do to the elements.                    *)
LEMMA AppendElement ==
  ASSUME NEW S, NEW q \in Seq(S), NEW x \in S
  PROVE  Append(q, x) \in Seq(S)
OBVIOUS

LEMMA HeadAndTail ==
  ASSUME NEW S, NEW q \in Seq(S), q # << >>
  PROVE  Head(q) \in S /\ Tail(q) \in Seq(S)
OBVIOUS

LEMMA SendInto ==
  ASSUME NEW S, NEW c \in [Workers -> Seq(S)], NEW w \in Workers, NEW m \in S
  PROVE  Send(c, w, m) \in [Workers -> Seq(S)]
<1>1. Append(c[w], m) \in Seq(S)
  BY AppendElement
<1> QED
  BY <1>1 DEF Send

LEMMA DropFrom ==
  ASSUME NEW S, NEW c \in [Workers -> Seq(S)], NEW w \in Workers, c[w] # << >>
  PROVE  /\ Drop(c, w) \in [Workers -> Seq(S)]
         /\ Head(c[w]) \in S
<1>1. Tail(c[w]) \in Seq(S) /\ Head(c[w]) \in S
  BY HeadAndTail
<1> QED
  BY <1>1 DEF Drop

LEMMA ChannelsGrow ==
  ASSUME NEW S, NEW T, S \subseteq T, NEW c \in [Workers -> Seq(S)]
  PROVE  c \in [Workers -> Seq(T)]
<1>1. \A w \in Workers : c[w] \in Seq(T)
  OBVIOUS
<1> QED
  BY <1>1

(* An element of a queue is removed wherever it stands.                     *)
LEMMA RemoveElement ==
  ASSUME NEW S, NEW q \in Seq(S), NEW i \in 1..Len(q)
  PROVE  SubSeq(q, 1, i - 1) \o SubSeq(q, i + 1, Len(q)) \in Seq(S)
<1>1. SubSeq(q, 1, i - 1) \in Seq(S)
  <2>1. \A j \in 1..(i - 1) : q[j] \in S
    OBVIOUS
  <2> QED
    BY <2>1, SubSeqProperties
<1>2. SubSeq(q, i + 1, Len(q)) \in Seq(S)
  BY SubSeqProperties
<1> QED
  BY <1>1, <1>2
-----------------------------------------------------------------------------
(* Shards: what a worker does with a true copy leaves it true.              *)
LEMMA ShardFields ==
  ASSUME NEW u, NEW s \in TrueShard(u)
  PROVE  /\ s \in Shard
         /\ s.files \in SUBSET Files /\ s.full \in BOOLEAN
         /\ s.stale \in BOOLEAN /\ s.version \in Nat
BY DEF TrueShard, Shard

LEMMA ShardOfIsTrue ==
  ASSUME NEW u, NEW files \in SUBSET Files, NEW full \in BOOLEAN,
         NEW stale \in BOOLEAN, NEW v \in Nat,
         v > 0 => /\ v <= counter
                  /\ published[v] = [user |-> u, files |-> files]
  PROVE  ShardOf(files, full, stale, v) \in TrueShard(u)
BY DEF ShardOf, Shard, TrueShard

LEMMA RemarkedIsTrue ==
  ASSUME NEW u, NEW s \in TrueShard(u), NEW full \in BOOLEAN,
         NEW stale \in BOOLEAN
  PROVE  ShardOf(s.files, full, stale, s.version) \in TrueShard(u)
<1>1. s.version > 0 => /\ s.version <= counter
                       /\ published[s.version] = [user |-> u, files |-> s.files]
  BY DEF TrueShard
<1>2. s.files \in SUBSET Files /\ s.version \in Nat
  BY ShardFields
<1> QED
  BY <1>1, <1>2, ShardOfIsTrue

LEMMA NoShardIsTrue ==
  ASSUME NEW u
  PROVE  NoShard \in TrueShard(u)
BY DEF NoShard, TrueShard, Shard, ShardOf

LEMMA CopyIsTrue ==
  ASSUME NEW u, NEW s \in TrueShard(u)
  PROVE  Copy(s) \in TrueShard(u)
<1>1. s.full \in BOOLEAN
  BY ShardFields
<1> QED
  BY <1>1, RemarkedIsTrue DEF Copy

LEMMA MarkStaleIsTrue ==
  ASSUME NEW u, NEW s \in TrueShard(u), NEW v
  PROVE  MarkStale(s, v) \in TrueShard(u)
<1> DEFINE stale == s.stale \/ (s.version < v /\ s.files # {})
<1>1. s.full \in BOOLEAN /\ stale \in BOOLEAN
  BY ShardFields
<1>2. MarkStale(s, v) = ShardOf(s.files, s.full, stale, s.version)
  BY DEF MarkStale
<1> HIDE DEF stale
<1> QED
  BY <1>1, <1>2, RemarkedIsTrue

LEMMA ApplyShardIsTrue ==
  ASSUME NEW u, NEW s \in TrueShard(u), NEW new \in TrueShard(u)
  PROVE  ApplyShard(s, new) \in TrueShard(u)
<1> DEFINE full == s.full \/ new.full
<1>1. full \in BOOLEAN
  BY ShardFields
<1>2. \/ ApplyShard(s, new) = ShardOf(new.files, FALSE, FALSE, new.version)
      \/ ApplyShard(s, new) = ShardOf(new.files, full, FALSE, new.version)
  BY DEF ApplyShard
<1> HIDE DEF full
<1> QED
  BY <1>1, <1>2, RemarkedIsTrue

LEMMA StaleIsTrue ==
  ASSUME NEW w \in Workers, NEW from, NEW to,
         shards \in [Workers -> [Users -> Shard]],
         \A u \in Users : shards[w][u] \in TrueShard(u)
  PROVE  /\ Stale(w, from, to) \in [Users -> Shard]
         /\ \A u \in Users : Stale(w, from, to)[u] \in TrueShard(u)
<1>1. ASSUME NEW u \in Users
      PROVE  /\ Stale(w, from, to)[u] \in TrueShard(u)
             /\ Stale(w, from, to)[u] \in Shard
  <2> DEFINE s == shards[w][u]
             t == ShardOf(s.files, s.full, TRUE, s.version)
  <2>1. s \in TrueShard(u)
    OBVIOUS
  <2>2. t \in TrueShard(u)
    <3>1. s.full \in BOOLEAN
      BY <2>1, ShardFields
    <3> HIDE DEF s
    <3> QED
      BY <2>1, <3>1, RemarkedIsTrue
  <2>3. Stale(w, from, to)[u] \in {s, t}
    BY DEF Stale
  <2> QED
    BY <2>1, <2>2, <2>3, ShardFields
<1>2. DOMAIN Stale(w, from, to) = Users
  BY DEF Stale
<1>3. Stale(w, from, to) = [u \in Users |-> Stale(w, from, to)[u]]
  BY DEF Stale
<1> QED
  BY <1>1, <1>3
-----------------------------------------------------------------------------
(* What is true once stays true: versions and markers are only added.       *)
Grows ==
  /\ counter <= counter' /\ Len(markers) <= Len(markers')
  /\ \A v \in 1..counter : published'[v] = published[v]

Down == TrueAnswer \union SyncMessage \union BroadcastMessage
Task == TrueAnswer \union SyncMessage
Unsent == [worker : Workers, answer : TrueAnswer]

LEMMA FormsGrow ==
  ASSUME PrimaryOK, PrimaryOK', Grows
  PROVE  /\ \A u \in Users : TrueShard(u) \subseteq TrueShard(u)'
         /\ Marks \subseteq Marks' /\ Request \subseteq Request'
         /\ TrueAnswer \subseteq TrueAnswer' /\ Unsent \subseteq Unsent'
         /\ Down \subseteq Down' /\ Task \subseteq Task'
<1>1. counter \in Nat /\ counter' \in Nat
  BY DEF PrimaryOK
<1>2. ASSUME NEW u \in Users
      PROVE  TrueShard(u) \subseteq TrueShard(u)'
  <2> SUFFICES ASSUME NEW s \in TrueShard(u)
               PROVE  s \in TrueShard(u)'
    OBVIOUS
  <2>1. s \in Shard /\ s.version \in Nat
    BY ShardFields
  <2>2. s.version > 0 => /\ s.version <= counter'
                         /\ published'[s.version] =
                              [user |-> u, files |-> s.files]
    BY <1>1, <2>1 DEF TrueShard, Grows
  <2> QED
    BY <2>1, <2>2 DEF TrueShard
<1>3. Marks \subseteq Marks'
  <2>1. Len(markers) \in Nat /\ Len(markers') \in Nat
    BY DEF PrimaryOK
  <2> QED
    BY <2>1 DEF Marks, Grows
<1>4. Causes \subseteq Causes'
  BY <1>3 DEF Causes
<1>5. Request \subseteq Request'
  BY <1>3, <1>4 DEF Request
<1>6. TrueAnswer \subseteq TrueAnswer'
  <2> SUFFICES ASSUME NEW a \in TrueAnswer
               PROVE  a \in TrueAnswer'
    OBVIOUS
  <2>1. a \in [type : {"answer"}, kind : {"read", "write"}, user : Users,
                mark : Marks', copies : SUBSET Shard]
    BY <1>3 DEF TrueAnswer
  <2>2. a.copies \subseteq TrueShard(a.user)'
    BY <1>2 DEF TrueAnswer
  <2> QED
    BY <2>1, <2>2 DEF TrueAnswer
<1>7. SyncMessage \subseteq SyncMessage'
  BY <1>3, <1>4 DEF SyncMessage
<1>8. BroadcastMessage \subseteq BroadcastMessage'
  BY <1>3 DEF BroadcastMessage
<1> QED
  BY <1>2, <1>3, <1>5, <1>6, <1>7, <1>8 DEF Down, Task, Unsent

(* A step that adds a version leaves what others hold as true as it was.    *)
LEMMA OthersStay ==
  ASSUME IInv, PrimaryOK', Grows
  PROVE  /\ shards \in [Workers -> [Users -> Shard]]
         /\ \A w \in Workers, u \in Users : shards[w][u] \in TrueShard(u)'
         /\ position \in [Workers -> Marks']
         /\ up \in [Workers -> Seq(Request')]
         /\ down \in [Workers -> Seq(Down')]
         /\ tasks \in [Workers -> Seq(Task')]
         /\ unsent \in Seq(Unsent')
<1>0. PrimaryOK /\ QueuesOK /\ WorkersOK /\ ChannelsOK
  BY DEF IInv
<1>1. /\ \A u \in Users : TrueShard(u) \subseteq TrueShard(u)'
      /\ Marks \subseteq Marks' /\ Request \subseteq Request'
      /\ Unsent \subseteq Unsent'
      /\ Down \subseteq Down' /\ Task \subseteq Task'
  BY <1>0, FormsGrow
<1>2. shards \in [Workers -> [Users -> Shard]] /\ position \in [Workers -> Marks']
  BY <1>0, <1>1 DEF WorkersOK
<1>3. \A w \in Workers, u \in Users : shards[w][u] \in TrueShard(u)'
  BY <1>0, <1>1 DEF WorkersOK
<1>4. /\ up \in [Workers -> Seq(Request)]
      /\ down \in [Workers -> Seq(Down)]
      /\ tasks \in [Workers -> Seq(Task)]
  BY <1>0 DEF ChannelsOK, Down, Task
<1>5. /\ up \in [Workers -> Seq(Request')]
      /\ down \in [Workers -> Seq(Down')]
      /\ tasks \in [Workers -> Seq(Task')]
  BY <1>1, <1>4, ChannelsGrow
<1>6. unsent \in Seq(Unsent)
  BY <1>0 DEF QueuesOK, Unsent
<1>7. unsent \in Seq(Unsent')
  BY <1>1, <1>6
<1> QED
  BY <1>2, <1>3, <1>5, <1>7

(* The parts of the invariant, over the names used here.                    *)
LEMMA Parts ==
  /\ ChannelsOK <=> /\ up \in [Workers -> Seq(Request)]
                    /\ down \in [Workers -> Seq(Down)]
                    /\ tasks \in [Workers -> Seq(Task)]
  /\ QueuesOK <=>
       /\ mutations \in Seq([origin : Workers \union {Watcher}, user : Users,
                             files : SUBSET Files])
       /\ loaders \in [Users -> Seq(Workers)]
       /\ scan \in {NoScan} \union
            [kind : {"load", "reconcile"}, user : Users, start : SUBSET Files,
             touched : SUBSET Files]
       /\ noticed \in [Users -> SUBSET Files]
       /\ unsent \in Seq(Unsent)
BY DEF ChannelsOK, QueuesOK, Down, Task, Unsent

(* Replacing a shard publishes the next version, which the store's shard    *)
(* then carries; a marker may be committed with it.                         *)
LEMMA ReplaceStep ==
  ASSUME PrimaryOK, NEW u \in Users, NEW files \in SUBSET Files,
         NEW full \in BOOLEAN, Replace(u, files, full), disk' = disk,
         CommitMarker(u) \/ markers' = markers
  PROVE  /\ PrimaryOK' /\ Grows
         /\ Copy(store'[u]) \in TrueShard(u)'
<1> DEFINE item == [user |-> u, files |-> files]
           new == ShardOf(files, files # {} /\ full, FALSE, counter + 1)
<1>1. /\ counter \in Nat /\ Len(published) = counter
      /\ published \in Seq([user : Users, files : SUBSET Files])
      /\ store \in [Users -> Shard]
      /\ markers \in Seq([user : Users, version : Nat])
  BY DEF PrimaryOK
<1>2. /\ counter' = counter + 1 /\ published' = Append(published, item)
      /\ store' = [store EXCEPT ![u] = new]
  BY DEF Replace
<1>3. /\ published' \in Seq([user : Users, files : SUBSET Files])
      /\ Len(published') = counter'
      /\ \A v \in 1..counter : published'[v] = published[v]
      /\ published'[counter + 1] = item
  <2>1. item \in [user : Users, files : SUBSET Files]
    OBVIOUS
  <2> HIDE DEF item
  <2> QED
    BY <1>1, <1>2, <2>1
<1>4. /\ markers' \in Seq([user : Users, version : Nat])
      /\ Len(markers) <= Len(markers')
  <2>1. [user |-> u, version |-> counter'] \in [user : Users, version : Nat]
    BY <1>1, <1>2
  <2>2. CASE markers' = markers
    BY <1>1, <2>2
  <2>3. CASE CommitMarker(u)
    <3> DEFINE m == [user |-> u, version |-> counter']
    <3>1. markers' = Append(markers, m)
      BY <2>3 DEF CommitMarker
    <3> HIDE DEF m
    <3> QED
      BY <1>1, <2>1, <3>1 DEF m
  <2> QED
    BY <2>2, <2>3
<1>5. Grows
  BY <1>1, <1>2, <1>3, <1>4 DEF Grows
<1>6. new \in TrueShard(u)'
  BY <1>1, <1>2, <1>3 DEF ShardOf, Shard, TrueShard
<1>7. \A x \in Users : /\ store'[x] \in TrueShard(x)'
                       /\ store'[x] \in Shard
                       /\ store'[x].files # {} => store'[x].version >= 1
  <2> SUFFICES ASSUME NEW x \in Users
               PROVE  /\ store'[x] \in TrueShard(x)'
                      /\ store'[x] \in Shard
                      /\ store'[x].files # {} => store'[x].version >= 1
    OBVIOUS
  <2>1. CASE x = u
    <3>1. store'[x] = new
      BY <1>1, <1>2, <2>1
    <3>2. new.version >= 1
      BY <1>1 DEF ShardOf
    <3>3. new \in Shard
      BY <1>6 DEF TrueShard
    <3> HIDE DEF new
    <3> QED
      BY <1>6, <2>1, <3>1, <3>2, <3>3
  <2>2. CASE x # u
    <3>1. store'[x] = store[x]
      BY <1>1, <1>2, <2>2
    <3>2. store[x] \in TrueShard(x) /\ (store[x].files # {} => store[x].version >= 1)
      BY DEF PrimaryOK
    <3>3. store[x] \in Shard /\ store[x].version \in Nat
      BY <3>2, ShardFields
    <3>4. store[x].version > 0 => /\ store[x].version <= counter'
                                  /\ published'[store[x].version] =
                                       [user |-> x, files |-> store[x].files]
      BY <1>1, <1>2, <1>3, <3>2, <3>3 DEF TrueShard
    <3>5. store[x] \in TrueShard(x)'
      BY <3>3, <3>4 DEF TrueShard
    <3> QED
      BY <3>1, <3>2, <3>3, <3>5
  <2> QED
    BY <2>1, <2>2
<1>8. PrimaryOK'
  <2>1. disk' \in [Users -> SUBSET Files] /\ counter' \in Nat
    BY <1>1, <1>2 DEF PrimaryOK
  <2>2. store' \in [Users -> Shard]
    <3>1. new \in Shard
      BY <1>6 DEF TrueShard
    <3> HIDE DEF new
    <3> QED
      BY <1>1, <1>2, <3>1
  <2>3. (\A x \in Users : /\ store[x] \in TrueShard(x)
                          /\ store[x].files # {} => store[x].version >= 1)'
    BY <1>7
  <2> HIDE DEF new, item
  <2> QED
    BY <1>3, <1>4, <2>1, <2>2, <2>3 DEF PrimaryOK
<1>9. Copy(store'[u]) \in TrueShard(u)'
  <2>1. /\ store'[u].files = files /\ store'[u].version = counter'
        /\ store'[u].full \in BOOLEAN
    BY <1>1, <1>2 DEF ShardOf
  <2> QED
    BY <1>1, <1>2, <1>3, <2>1 DEF Copy, ShardOf, Shard, TrueShard
<1> QED
  BY <1>5, <1>8, <1>9

(* A step that leaves the primary's index alone keeps every set of forms.   *)
LEMMA SameForms ==
  ASSUME UNCHANGED primaryVars
  PROVE  /\ \A u \in Users : TrueShard(u)' = TrueShard(u)
         /\ Marks' = Marks /\ Request' = Request /\ Causes' = Causes
         /\ TrueAnswer' = TrueAnswer /\ Unsent' = Unsent
         /\ Down' = Down /\ Task' = Task
BY DEF primaryVars, TrueShard, Marks, Causes, Request, TrueAnswer, Unsent,
       SyncMessage, BroadcastMessage, Down, Task

LEMMA SamePrimary ==
  ASSUME PrimaryOK, UNCHANGED primaryVars, disk' \in [Users -> SUBSET Files]
  PROVE  PrimaryOK'
<1>1. \A u \in Users : TrueShard(u)' = TrueShard(u)
  BY SameForms
<1> QED
  BY <1>1 DEF PrimaryOK, primaryVars

(* The invariant's parts after a step that leaves the index alone.          *)
LEMMA QuietStep ==
  ASSUME UNCHANGED primaryVars
  PROVE  /\ ChannelsOK' <=> /\ up' \in [Workers -> Seq(Request)]
                            /\ down' \in [Workers -> Seq(Down)]
                            /\ tasks' \in [Workers -> Seq(Task)]
         /\ WorkersOK' <=>
              /\ writing' \in [Workers -> {NoWrite} \union
                   [step : {"written", "committing"}, user : Users, file : Files]]
              /\ position' \in [Workers -> Marks]
              /\ shards' \in [Workers -> [Users -> Shard]]
              /\ \A w \in Workers, u \in Users : shards'[w][u] \in TrueShard(u)
         /\ QueuesOK' <=>
              /\ mutations' \in Seq([origin : Workers \union {Watcher},
                                     user : Users, files : SUBSET Files])
              /\ loaders' \in [Users -> Seq(Workers)]
              /\ scan' \in {NoScan} \union
                   [kind : {"load", "reconcile"}, user : Users,
                    start : SUBSET Files, touched : SUBSET Files]
              /\ noticed' \in [Users -> SUBSET Files]
              /\ unsent' \in Seq(Unsent)
<1>1. /\ \A u \in Users : TrueShard(u)' = TrueShard(u)
      /\ Marks' = Marks /\ Request' = Request /\ Unsent' = Unsent
      /\ Down' = Down /\ Task' = Task
  BY SameForms
<1>2. /\ ChannelsOK' <=> /\ up' \in [Workers -> Seq(Request')]
                         /\ down' \in [Workers -> Seq(Down')]
                         /\ tasks' \in [Workers -> Seq(Task')]
  BY DEF ChannelsOK, Down, Task
<1> QED
  BY <1>1, <1>2 DEF WorkersOK, QueuesOK, Unsent
-----------------------------------------------------------------------------
(* The file system and the watcher.                                         *)
LEMMA ChangeFileStep ==
  ASSUME IInv, NEW u \in Users, NEW f \in Files, ChangeFile(u, f)
  PROVE  /\ disk' \in [Users -> SUBSET Files]
         /\ noticed' \in [Users -> SUBSET Files]
         /\ scan' \in {NoScan} \union
              [kind : {"load", "reconcile"}, user : Users, start : SUBSET Files,
               touched : SUBSET Files]
<1>0. PrimaryOK /\ QueuesOK
  BY DEF IInv
<1>1. disk \in [Users -> SUBSET Files] /\ noticed \in [Users -> SUBSET Files]
  BY <1>0 DEF PrimaryOK, QueuesOK
<1>2. disk' \in [Users -> SUBSET Files]
  BY <1>1 DEF ChangeFile
<1>3. noticed' \in [Users -> SUBSET Files]
  BY <1>1 DEF ChangeFile
<1>4. CASE ~Idle
  <2>1. scan \in [kind : {"load", "reconcile"}, user : Users,
                  start : SUBSET Files, touched : SUBSET Files]
    BY <1>0, <1>4 DEF QueuesOK, Idle
  <2> QED
    BY <1>2, <1>3, <2>1 DEF ChangeFile, Walk
<1>5. CASE Idle
  BY <1>0, <1>2, <1>3, <1>5 DEF ChangeFile, QueuesOK
<1> QED
  BY <1>4, <1>5

LEMMA FileStep ==
  ASSUME IInv, NEW u \in Users, NEW f \in Files,
         ForeignChange(u, f) \/ \E w \in Workers : WriteFile(w, u, f)
  PROVE  IInv'
<1>0. PrimaryOK /\ QueuesOK /\ WorkersOK /\ ChannelsOK
  BY DEF IInv
<1>1. ChangeFile(u, f)
  BY DEF ForeignChange, WriteFile
<1>2. /\ UNCHANGED primaryVars
      /\ UNCHANGED <<mutations, loaders, unsent, position, shards, up, down, tasks>>
  BY DEF ForeignChange, WriteFile, primaryVars
<1>3. writing' \in [Workers -> {NoWrite} \union
        [step : {"written", "committing"}, user : Users, file : Files]]
  <2>1. Write("written", u, f) \in
          [step : {"written", "committing"}, user : Users, file : Files]
    BY DEF Write
  <2> QED
    BY <1>0, <2>1 DEF ForeignChange, WriteFile, WorkersOK
<1>4. PrimaryOK'
  BY <1>0, <1>1, <1>2, ChangeFileStep, SamePrimary
<1>5. QueuesOK'
  BY <1>0, <1>1, <1>2, ChangeFileStep, QuietStep, Parts
<1>6. WorkersOK'
  BY <1>0, <1>2, <1>3, QuietStep DEF WorkersOK
<1>7. ChannelsOK'
  BY <1>0, <1>2, QuietStep, Parts
<1> QED
  BY <1>4, <1>5, <1>6, <1>7 DEF IInv

LEMMA CommitWriteStep ==
  ASSUME IInv, NEW w \in Workers, CommitWrite(w)
  PROVE  IInv'
<1>0. PrimaryOK /\ QueuesOK /\ WorkersOK /\ ChannelsOK
  BY DEF IInv
<1>1. UNCHANGED primaryVars /\ UNCHANGED disk
  BY DEF CommitWrite, primaryVars
<1>2. writing[w] \in [step : {"written", "committing"}, user : Users, file : Files]
  BY <1>0 DEF CommitWrite, WorkersOK, NoWrite
<1> DEFINE m == [method |-> "commitProjectPaths", user |-> writing[w].user,
                 file |-> writing[w].file]
           x == Write("committing", writing[w].user, writing[w].file)
<1>3. m \in Request
  BY <1>2 DEF Request
<1>4. x \in [step : {"written", "committing"}, user : Users, file : Files]
  BY <1>2 DEF Write
<1>5. up' = Send(up, w, m) /\ writing' = [writing EXCEPT ![w] = x]
  BY DEF CommitWrite
<1> HIDE DEF m, x
<1>6. PrimaryOK'
  BY <1>0, <1>1, SamePrimary DEF PrimaryOK
<1>7. QueuesOK'
  BY <1>0, <1>1, QuietStep, Parts DEF CommitWrite
<1>8. WorkersOK'
  BY <1>0, <1>1, <1>4, <1>5, QuietStep DEF WorkersOK, CommitWrite
<1>9. ChannelsOK'
  <2>1. up \in [Workers -> Seq(Request)]
    BY <1>0, Parts
  <2>2. up' \in [Workers -> Seq(Request)]
    BY <1>3, <1>5, <2>1, SendInto
  <2> QED
    BY <1>0, <1>1, <2>2, QuietStep, Parts DEF CommitWrite
<1> QED
  BY <1>6, <1>7, <1>8, <1>9 DEF IInv

LEMMA FireWatchStep ==
  ASSUME IInv, NEW u \in Users, FireWatch(u)
  PROVE  IInv'
<1>0. PrimaryOK /\ QueuesOK /\ WorkersOK /\ ChannelsOK
  BY DEF IInv
<1>1. UNCHANGED primaryVars /\ UNCHANGED disk
  BY DEF FireWatch, primaryVars
<1> DEFINE M == [origin : Workers \union {Watcher}, user : Users,
                 files : SUBSET Files]
           m == [origin |-> Watcher, user |-> u, files |-> noticed[u]]
<1>2. noticed' \in [Users -> SUBSET Files] /\ m \in M
  BY <1>0 DEF FireWatch, QueuesOK
<1>3. mutations' = mutations \/ mutations' = Append(mutations, m)
  BY DEF FireWatch
<1>4. mutations \in Seq(M)
  BY <1>0 DEF QueuesOK
<1> HIDE DEF m, M
<1>5. mutations' \in Seq(M)
  BY <1>2, <1>3, <1>4, AppendElement
<1>6. PrimaryOK'
  BY <1>0, <1>1, SamePrimary DEF PrimaryOK
<1>7. QueuesOK'
  BY <1>0, <1>1, <1>2, <1>5, QuietStep, Parts DEF FireWatch, M
<1>8. WorkersOK'
  BY <1>0, <1>1, QuietStep DEF WorkersOK, FireWatch
<1>9. ChannelsOK'
  BY <1>0, <1>1, QuietStep, Parts DEF FireWatch
<1> QED
  BY <1>6, <1>7, <1>8, <1>9 DEF IInv
-----------------------------------------------------------------------------
(* The primary's queue.                                                     *)

(* What a step that replaces u's shard leaves to show.                      *)
LEMMA ReplacingStep ==
  ASSUME IInv, NEW u \in Users, NEW files \in SUBSET Files,
         NEW full \in BOOLEAN, Replace(u, files, full),
         CommitMarker(u) \/ markers' = markers,
         UNCHANGED <<disk, position, shards, up, tasks, writing>>
  PROVE  /\ PrimaryOK' /\ Grows /\ WorkersOK'
         /\ Copy(store'[u]) \in TrueShard(u)'
         /\ down' \in [Workers -> Seq(Down')] => ChannelsOK'
<1>0. PrimaryOK /\ WorkersOK
  BY DEF IInv
<1>1. PrimaryOK' /\ Grows /\ Copy(store'[u]) \in TrueShard(u)'
  BY <1>0, ReplaceStep
<1>2. /\ shards \in [Workers -> [Users -> Shard]]
      /\ \A x \in Workers, v \in Users : shards[x][v] \in TrueShard(v)'
      /\ position \in [Workers -> Marks']
      /\ up \in [Workers -> Seq(Request')]
      /\ tasks \in [Workers -> Seq(Task')]
  BY <1>1, OthersStay
<1>3. WorkersOK'
  BY <1>0, <1>2 DEF WorkersOK
<1>4. ASSUME down' \in [Workers -> Seq(Down')] PROVE ChannelsOK'
  BY <1>2, <1>4 DEF ChannelsOK, Down, Task
<1> QED
  BY <1>1, <1>3, <1>4

LEMMA BroadcastType ==
  ASSUME NEW S, NEW m \in S, down \in [Workers -> Seq(S)]
  PROVE  Broadcast(m) \in [Workers -> Seq(S)]
<1>1. \A x \in Workers : Append(down[x], m) \in Seq(S)
  BY AppendElement
<1> QED
  BY <1>1 DEF Broadcast

LEMMA SyncedType ==
  ASSUME IInv, NEW u \in Users, NEW fs \in SUBSET Files
  PROVE  /\ Synced(u, fs) \in SUBSET Files
         /\ store[u].full \in BOOLEAN
<1>1. store[u] \in Shard /\ disk[u] \in SUBSET Files
  BY DEF IInv, PrimaryOK
<1> QED
  BY <1>1 DEF Synced, Shard

LEMMA RunMutationStep ==
  ASSUME IInv, RunMutation
  PROVE  IInv'
<1>0. PrimaryOK /\ QueuesOK /\ WorkersOK /\ ChannelsOK
  BY DEF IInv
<1> DEFINE M == [origin : Workers \union {Watcher}, user : Users,
                 files : SUBSET Files]
<1>1. Head(mutations) \in M /\ mutations' \in Seq(M)
  <2>1. mutations \in Seq(M) /\ mutations # << >> /\ mutations' = Tail(mutations)
    BY <1>0 DEF RunMutation, QueuesOK
  <2> HIDE DEF M
  <2> QED
    BY <2>1, HeadAndTail
<1> PICK m \in M : m = Head(mutations)
  BY <1>1
<1> DEFINE a(mark, copies) ==
             [worker |-> m.origin,
              answer |-> Answer("write", m.user, mark, copies)]
<1>2. m.user \in Users /\ m.files \in SUBSET Files
  OBVIOUS
<1>3. m.origin # Watcher => m.origin \in Workers
  OBVIOUS
<1>4. UNCHANGED <<disk, loaders, scan, noticed, position, shards, up, tasks, writing>>
  BY DEF RunMutation
<1>5. unsent \in Seq(Unsent) /\ down \in [Workers -> Seq(Down)]
  BY <1>0, Parts
<1>6. CASE Touches(m.user, m.files)
  <2>1. /\ Replace(m.user, Synced(m.user, m.files), store[m.user].full)
        /\ CommitMarker(m.user)
        /\ unsent' = IF m.origin # Watcher
                     THEN Append(unsent, a(Len(markers'), {Copy(store'[m.user])}))
                     ELSE unsent
        /\ down' = IF m.origin # Watcher THEN down
                   ELSE Broadcast(MarkerMessage(Len(markers')))
    BY <1>6 DEF RunMutation
  <2>2. Synced(m.user, m.files) \in SUBSET Files /\ store[m.user].full \in BOOLEAN
    BY <1>2, SyncedType
  <2>3. /\ PrimaryOK' /\ Grows /\ WorkersOK'
        /\ Copy(store'[m.user]) \in TrueShard(m.user)'
        /\ down' \in [Workers -> Seq(Down')] => ChannelsOK'
    BY <1>2, <1>4, <2>1, <2>2, ReplacingStep
  <2>4. unsent \in Seq(Unsent') /\ down \in [Workers -> Seq(Down')]
    BY <2>3, OthersStay
  <2>5. Len(markers') \in Marks'
    BY <2>3 DEF PrimaryOK, Marks
  <2>6. down' \in [Workers -> Seq(Down')]
    <3>1. MarkerMessage(Len(markers')) \in Down'
      BY <2>5 DEF MarkerMessage, Down, BroadcastMessage
    <3> QED
      BY <2>1, <2>4, <3>1, BroadcastType
  <2>7. unsent' \in Seq(Unsent')
    <3>1. CASE m.origin # Watcher
      <4>1. {Copy(store'[m.user])} \in SUBSET Shard
        BY <2>3 DEF TrueShard
      <4>2. a(Len(markers'), {Copy(store'[m.user])}) \in Unsent'
        BY <1>2, <1>3, <2>3, <2>5, <3>1, <4>1 DEF Answer, TrueAnswer, Unsent
      <4> HIDE DEF a
      <4> QED
        BY <2>1, <2>4, <3>1, <4>2, AppendElement
    <3>2. CASE m.origin = Watcher
      BY <2>1, <2>4, <3>2
    <3> QED
      BY <3>1, <3>2
  <2>8. QueuesOK'
    BY <1>0, <1>1, <1>4, <2>7 DEF QueuesOK, Unsent
  <2> QED
    BY <2>3, <2>6, <2>8 DEF IInv
<1>7. CASE ~Touches(m.user, m.files)
  <2>1. /\ UNCHANGED primaryVars /\ down' = down
        /\ unsent' = IF m.origin # Watcher THEN Append(unsent, a(0, {}))
                     ELSE unsent
    BY <1>7 DEF RunMutation, primaryVars
  <2>2. unsent' \in Seq(Unsent)
    <3>1. CASE m.origin # Watcher
      <4>1. 0 \in Marks /\ {} \in SUBSET Shard
        BY <1>0 DEF Marks, PrimaryOK
      <4>2. a(0, {}) \in Unsent
        BY <1>2, <1>3, <3>1, <4>1 DEF Answer, TrueAnswer, Unsent
      <4> HIDE DEF a
      <4> QED
        BY <1>5, <2>1, <3>1, <4>2, AppendElement
    <3>2. CASE m.origin = Watcher
      BY <1>5, <2>1, <3>2
    <3> QED
      BY <3>1, <3>2
  <2>3. PrimaryOK'
    BY <1>0, <1>4, <2>1, SamePrimary DEF PrimaryOK
  <2>4. QueuesOK'
    BY <1>0, <1>1, <1>4, <2>1, <2>2, QuietStep, Parts
  <2>5. WorkersOK'
    BY <1>0, <1>4, <2>1, QuietStep DEF WorkersOK
  <2>6. ChannelsOK'
    BY <1>0, <1>4, <2>1, QuietStep, Parts
  <2> QED
    BY <2>3, <2>4, <2>5, <2>6 DEF IInv
<1> QED
  BY <1>6, <1>7

LEMMA StartScanStep ==
  ASSUME IInv, NEW u \in Users, StartScan(u)
  PROVE  IInv'
<1>0. PrimaryOK /\ QueuesOK /\ WorkersOK /\ ChannelsOK
  BY DEF IInv
<1>1. UNCHANGED primaryVars /\ UNCHANGED disk
  BY DEF StartScan, primaryVars
<1>2. scan' \in [kind : {"load", "reconcile"}, user : Users,
                 start : SUBSET Files, touched : SUBSET Files]
  BY <1>0 DEF StartScan, Walk, PrimaryOK
<1>3. PrimaryOK'
  BY <1>0, <1>1, SamePrimary DEF PrimaryOK
<1>4. QueuesOK'
  BY <1>0, <1>1, <1>2, QuietStep, Parts DEF StartScan
<1>5. WorkersOK'
  BY <1>0, <1>1, QuietStep DEF WorkersOK, StartScan
<1>6. ChannelsOK'
  BY <1>0, <1>1, QuietStep, Parts DEF StartScan
<1> QED
  BY <1>3, <1>4, <1>5, <1>6 DEF IInv

(* The shard a walk leaves: replaced, or marked loaded as it was.           *)
LEMMA FoundStep ==
  ASSUME IInv, NEW u \in Users, NEW found \in SUBSET Files,
         IF found # store[u].files \/ found = {}
         THEN Replace(u, found, TRUE)
         ELSE /\ store' = [store EXCEPT ![u] =
                             ShardOf(found, TRUE, FALSE, store[u].version)]
              /\ UNCHANGED <<counter, published>>,
         IF found # store[u].files THEN CommitMarker(u) ELSE markers' = markers,
         UNCHANGED <<disk, position, shards, up, tasks, writing>>
  PROVE  /\ PrimaryOK' /\ Grows /\ WorkersOK'
         /\ Copy(store'[u]) \in TrueShard(u)'
         /\ down' \in [Workers -> Seq(Down')] => ChannelsOK'
<1>0. PrimaryOK /\ WorkersOK
  BY DEF IInv
<1>1. CASE found # store[u].files \/ found = {}
  BY <1>1, ReplacingStep
<1>2. CASE ~(found # store[u].files \/ found = {})
  <2>1. /\ store' = [store EXCEPT ![u] =
                       ShardOf(found, TRUE, FALSE, store[u].version)]
        /\ counter' = counter /\ published' = published /\ markers' = markers
    BY <1>2
  <2>2. /\ store \in [Users -> Shard]
        /\ \A x \in Users : /\ store[x] \in TrueShard(x)
                            /\ store[x].files # {} => store[x].version >= 1
        /\ counter \in Nat /\ Len(markers) \in Nat
    BY <1>0 DEF PrimaryOK
  <2>3. \A x \in Users : TrueShard(x)' = TrueShard(x)
    BY <2>1 DEF TrueShard
  <2> DEFINE new == ShardOf(store[u].files, TRUE, FALSE, store[u].version)
  <2>4. new \in TrueShard(u) /\ new.version = store[u].version
    BY <2>2, RemarkedIsTrue DEF ShardOf
  <2>5. new.files = store[u].files /\ new \in Shard
    BY <2>4 DEF ShardOf, TrueShard
  <2>6. store' = [store EXCEPT ![u] = new]
    BY <1>2, <2>1
  <2> HIDE DEF new
  <2>7. store' \in [Users -> Shard]
    BY <2>2, <2>5, <2>6
  <2>8. \A x \in Users : /\ store'[x] \in TrueShard(x)'
                         /\ store'[x].files # {} => store'[x].version >= 1
    BY <2>2, <2>3, <2>4, <2>5, <2>6
  <2>9. PrimaryOK'
    BY <1>0, <2>1, <2>7, <2>8 DEF PrimaryOK
  <2>10. Grows
    BY <2>1, <2>2 DEF Grows
  <2>11. Copy(store'[u]) \in TrueShard(u)'
    <3>1. store'[u] = new
      BY <2>2, <2>6
    <3>2. Copy(new) \in TrueShard(u)
      BY <2>4, CopyIsTrue
    <3> QED
      BY <2>3, <3>1, <3>2
  <2>12. /\ shards \in [Workers -> [Users -> Shard]]
         /\ \A x \in Workers, v \in Users : shards[x][v] \in TrueShard(v)'
         /\ position \in [Workers -> Marks']
         /\ up \in [Workers -> Seq(Request')]
         /\ tasks \in [Workers -> Seq(Task')]
    BY <2>9, <2>10, OthersStay
  <2>13. WorkersOK'
    BY <1>0, <2>12 DEF WorkersOK
  <2>14. ASSUME down' \in [Workers -> Seq(Down')] PROVE ChannelsOK'
    BY <2>12, <2>14 DEF ChannelsOK, Down, Task
  <2> QED
    BY <2>9, <2>10, <2>11, <2>13, <2>14
<1> QED
  BY <1>1, <1>2

LEMMA AnswersType ==
  ASSUME NEW S, NEW q \in Seq(Workers), NEW p \in Seq(S), NEW r,
         r = [i \in DOMAIN q |-> r[i]], \A i \in DOMAIN q : r[i] \in S
  PROVE  p \o r \in Seq(S)
<1>1. DOMAIN q = 1..Len(q) /\ Len(q) \in Nat
  OBVIOUS
<1>2. r \in [1..Len(q) -> S]
  BY <1>1
<1>3. r \in Seq(S)
  BY <1>1, <1>2
<1> QED
  BY <1>3

LEMMA FinishScanStep ==
  ASSUME IInv, FinishScan
  PROVE  IInv'
<1>0. PrimaryOK /\ QueuesOK /\ WorkersOK /\ ChannelsOK
  BY DEF IInv
<1>1. scan \in [kind : {"load", "reconcile"}, user : Users,
                start : SUBSET Files, touched : SUBSET Files]
  BY <1>0 DEF FinishScan, Idle, QueuesOK
<1> PICK u \in Users : u = scan.user
  BY <1>1
<1> DEFINE a(w, mark, copies) ==
             [worker |-> w, answer |-> Answer("read", u, mark, copies)]
<1>2. PICK found \in SUBSET Files :
        /\ IF found # store[u].files \/ found = {}
           THEN Replace(u, found, TRUE)
           ELSE /\ store' = [store EXCEPT ![u] =
                               ShardOf(found, TRUE, FALSE, store[u].version)]
                /\ UNCHANGED <<counter, published>>
        /\ IF found # store[u].files
           THEN /\ CommitMarker(u)
                /\ down' = Broadcast(MarkerMessage(Len(markers')))
           ELSE UNCHANGED <<markers, down>>
        /\ IF scan.kind = "load"
           THEN /\ loaders' = [loaders EXCEPT ![u] = << >>]
                /\ unsent' = unsent \o
                     [i \in DOMAIN loaders[u] |->
                        a(loaders[u][i],
                          IF found # store[u].files THEN Len(markers') ELSE 0,
                          {Copy(store'[u])})]
           ELSE UNCHANGED <<loaders, unsent>>
  <2>1. PICK seen \in SUBSET scan.touched :
          LET found == (scan.start \ scan.touched) \union seen
              differs == found # store[u].files
          IN  /\ IF differs \/ found = {}
                 THEN Replace(u, found, TRUE)
                 ELSE /\ store' = [store EXCEPT ![u] =
                                     ShardOf(found, TRUE, FALSE, store[u].version)]
                      /\ UNCHANGED <<counter, published>>
              /\ IF differs
                 THEN /\ CommitMarker(u)
                      /\ down' = Broadcast(MarkerMessage(Len(markers')))
                 ELSE UNCHANGED <<markers, down>>
              /\ IF scan.kind = "load"
                 THEN /\ loaders' = [loaders EXCEPT ![u] = << >>]
                      /\ unsent' = unsent \o
                           [i \in DOMAIN loaders[u] |->
                              a(loaders[u][i],
                                IF differs THEN Len(markers') ELSE 0,
                                {Copy(store'[u])})]
                 ELSE UNCHANGED <<loaders, unsent>>
    BY DEF FinishScan
  <2>2. (scan.start \ scan.touched) \union seen \in SUBSET Files
    BY <1>1
  <2> QED
    BY <2>1, <2>2
<1>3. UNCHANGED <<disk, mutations, noticed, position, shards, up, tasks, writing>>
  BY DEF FinishScan
<1>4. /\ PrimaryOK' /\ Grows /\ WorkersOK'
      /\ Copy(store'[u]) \in TrueShard(u)'
      /\ down' \in [Workers -> Seq(Down')] => ChannelsOK'
  BY <1>2, <1>3, FoundStep
<1>5. unsent \in Seq(Unsent') /\ down \in [Workers -> Seq(Down')]
  BY <1>4, OthersStay
<1>6. Len(markers') \in Marks' /\ 0 \in Marks'
  BY <1>4 DEF PrimaryOK, Marks
<1>7. down' \in [Workers -> Seq(Down')]
  <2>1. MarkerMessage(Len(markers')) \in Down'
    BY <1>6 DEF MarkerMessage, Down, BroadcastMessage
  <2> QED
    BY <1>2, <1>5, <2>1, BroadcastType
<1>8. unsent' \in Seq(Unsent')
  <2>1. CASE scan.kind = "load"
    <3> DEFINE mark == IF found # store[u].files THEN Len(markers') ELSE 0
               b(w) == a(w, mark, {Copy(store'[u])})
    <3>1. loaders[u] \in Seq(Workers)
      BY <1>0 DEF QueuesOK
    <3>2. {Copy(store'[u])} \in SUBSET Shard
      BY <1>4 DEF TrueShard
    <3>3. mark \in Marks'
      BY <1>6
    <3> HIDE DEF mark
    <3>4. \A w \in Workers : b(w) \in Unsent'
      BY <1>4, <3>2, <3>3 DEF Answer, TrueAnswer, Unsent
    <3> DEFINE r == [i \in DOMAIN loaders[u] |-> b(loaders[u][i])]
    <3>5. unsent' = unsent \o r
      BY <1>2, <2>1 DEF mark
    <3> HIDE DEF b
    <3>6. \A i \in DOMAIN loaders[u] : r[i] \in Unsent'
      BY <3>1, <3>4
    <3>7. r = [i \in DOMAIN loaders[u] |-> r[i]]
      OBVIOUS
    <3> HIDE DEF r
    <3> QED
      BY <1>5, <3>1, <3>5, <3>6, <3>7, AnswersType
  <2>2. CASE scan.kind # "load"
    BY <1>2, <1>5, <2>2
  <2> QED
    BY <2>1, <2>2
<1>9. QueuesOK'
  <2>1. loaders' \in [Users -> Seq(Workers)]
    <3>1. loaders \in [Users -> Seq(Workers)] /\ << >> \in Seq(Workers)
      BY <1>0 DEF QueuesOK
    <3> QED
      BY <1>2, <3>1
  <2>2. scan' = NoScan
    BY DEF FinishScan
  <2> QED
    BY <1>0, <1>3, <1>8, <2>1, <2>2 DEF QueuesOK, Unsent
<1> QED
  BY <1>4, <1>7, <1>9 DEF IInv

LEMMA ReloadStep ==
  ASSUME IInv, ReloadConfig
  PROVE  IInv'
<1>0. PrimaryOK /\ QueuesOK /\ WorkersOK /\ ChannelsOK
  BY DEF IInv
<1>1. UNCHANGED primaryVars /\ UNCHANGED disk
  BY DEF ReloadConfig, primaryVars
<1>2. down' \in [Workers -> Seq(Down)]
  <2>1. SnapshotMessage(Len(markers)) \in Down
    BY <1>0 DEF SnapshotMessage, Down, BroadcastMessage, Marks, PrimaryOK
  <2>2. down \in [Workers -> Seq(Down)]
    BY <1>0, Parts
  <2> QED
    BY <2>1, <2>2, BroadcastType DEF ReloadConfig
<1>3. PrimaryOK'
  BY <1>0, <1>1, SamePrimary DEF PrimaryOK
<1>4. QueuesOK'
  BY <1>0, <1>1, QuietStep, Parts DEF ReloadConfig
<1>5. WorkersOK'
  BY <1>0, <1>1, QuietStep DEF WorkersOK, ReloadConfig
<1>6. ChannelsOK'
  BY <1>0, <1>1, <1>2, QuietStep, Parts DEF ReloadConfig
<1> QED
  BY <1>3, <1>4, <1>5, <1>6 DEF IInv
-----------------------------------------------------------------------------
(* The primary's handlers.                                                  *)

(* What a handler leaves to show: the queues and the answers.               *)
LEMMA HandlingStep ==
  ASSUME IInv, NEW w \in Workers, NEW method, Handling(w, method)
  PROVE  /\ Head(up[w]) \in Request /\ Head(up[w]).method = method
         /\ unsent = << >>
         /\ UNCHANGED primaryVars /\ PrimaryOK' /\ WorkersOK'
         /\ down' \in [Workers -> Seq(Down)] => ChannelsOK'
         /\ QueuesOK' <=>
              /\ mutations' \in Seq([origin : Workers \union {Watcher},
                                     user : Users, files : SUBSET Files])
              /\ loaders' \in [Users -> Seq(Workers)]
              /\ unsent' \in Seq(Unsent)
<1>0. PrimaryOK /\ QueuesOK /\ WorkersOK /\ ChannelsOK
  BY DEF IInv
<1>1. UNCHANGED primaryVars /\ UNCHANGED disk
  BY DEF Handling, primaryVars
<1>2. up \in [Workers -> Seq(Request)] /\ up[w] # << >> /\ up' = Drop(up, w)
  BY <1>0, Parts DEF Handling
<1>3. up' \in [Workers -> Seq(Request)] /\ Head(up[w]) \in Request
  BY <1>2, DropFrom
<1>4. PrimaryOK'
  BY <1>0, <1>1, SamePrimary DEF PrimaryOK
<1>5. WorkersOK'
  BY <1>0, <1>1, QuietStep DEF WorkersOK, Handling
<1>6. down' \in [Workers -> Seq(Down)] => ChannelsOK'
  BY <1>0, <1>1, <1>3, QuietStep, Parts DEF Handling
<1>7. QueuesOK' <=>
        /\ mutations' \in Seq([origin : Workers \union {Watcher},
                               user : Users, files : SUBSET Files])
        /\ loaders' \in [Users -> Seq(Workers)]
        /\ unsent' \in Seq(Unsent)
  BY <1>0, <1>1, QuietStep, Parts DEF Handling
<1> QED
  BY <1>1, <1>3, <1>4, <1>5, <1>6, <1>7 DEF Handling

LEMMA HandleCommitStep ==
  ASSUME IInv, NEW w \in Workers, HandleCommit(w)
  PROVE  IInv'
<1> DEFINE M == [origin : Workers \union {Watcher}, user : Users,
                 files : SUBSET Files]
           r == Head(up[w])
           m == [origin |-> w, user |-> r.user, files |-> {r.file}]
<1>0. QueuesOK /\ ChannelsOK
  BY DEF IInv
<1>1. Handling(w, "commitProjectPaths")
  BY DEF HandleCommit
<1>2. r \in Request /\ r.method = "commitProjectPaths"
  BY <1>1, HandlingStep
<1>3. r.user \in Users /\ r.file \in Files
  BY <1>2 DEF Request
<1>4. m \in M /\ mutations' = Append(mutations, m) /\ mutations \in Seq(M)
  BY <1>0, <1>3 DEF HandleCommit, QueuesOK
<1> HIDE DEF m, M
<1>5. mutations' \in Seq(M)
  BY <1>4, AppendElement
<1>6. loaders' \in [Users -> Seq(Workers)] /\ unsent' \in Seq(Unsent)
  BY <1>0, Parts DEF HandleCommit
<1>7. down' \in [Workers -> Seq(Down)]
  BY <1>0, Parts DEF HandleCommit
<1> QED
  BY <1>1, <1>5, <1>6, <1>7, HandlingStep DEF M, IInv

LEMMA HandleEnsureLoadedStep ==
  ASSUME IInv, NEW w \in Workers, HandleEnsureLoaded(w)
  PROVE  IInv'
<1>0. PrimaryOK /\ QueuesOK /\ ChannelsOK
  BY DEF IInv
<1>1. Handling(w, "ensureFileIndexShardLoaded")
  BY DEF HandleEnsureLoaded
<1>2. /\ Head(up[w]) \in Request
      /\ Head(up[w]).method = "ensureFileIndexShardLoaded"
      /\ unsent = << >>
  BY <1>1, HandlingStep
<1> PICK u \in Users : u = Head(up[w]).user
  BY <1>2 DEF Request
<1> DEFINE copies == IF store[u].version = Head(up[w]).known THEN {}
                     ELSE {Copy(store[u])}
           a == [worker |-> w, answer |-> Answer("read", u, 0, copies)]
<1>3. a \in Unsent
  <2>1. store[u] \in TrueShard(u)
    BY <1>0 DEF PrimaryOK
  <2>2. Copy(store[u]) \in TrueShard(u)
    BY <2>1, CopyIsTrue
  <2>3. copies \subseteq TrueShard(u) /\ copies \in SUBSET Shard
    BY <2>2, ShardFields
  <2>4. 0 \in Marks
    BY <1>0 DEF Marks, PrimaryOK
  <2> HIDE DEF copies
  <2> QED
    BY <2>3, <2>4 DEF Answer, TrueAnswer, Unsent
<1>4. /\ loaders \in [Users -> Seq(Workers)] /\ << >> \in Seq(Unsent)
      /\ loaders' = loaders \/ loaders' = [loaders EXCEPT ![u] = Append(loaders[u], w)]
      /\ unsent' = unsent \/ unsent' = << a >>
      /\ UNCHANGED <<mutations, down>>
  BY <1>0 DEF HandleEnsureLoaded, QueuesOK
<1> HIDE DEF a
<1>5. loaders' \in [Users -> Seq(Workers)]
  <2>1. Append(loaders[u], w) \in Seq(Workers)
    BY <1>4, AppendElement
  <2> QED
    BY <1>4, <2>1
<1>6. unsent' \in Seq(Unsent)
  <2>1. << a >> \in Seq(Unsent)
    BY <1>3
  <2> HIDE DEF copies
  <2> QED
    BY <1>2, <1>4, <2>1
<1>7. QueuesOK'
  BY <1>0, <1>1, <1>4, <1>5, <1>6, HandlingStep, Parts
<1>8. down' \in [Workers -> Seq(Down)]
  BY <1>0, <1>4, Parts
<1> QED
  BY <1>1, <1>7, <1>8, HandlingStep DEF IInv

LEMMA HandleSyncStep ==
  ASSUME IInv, NEW w \in Workers, HandleSync(w)
  PROVE  IInv'
<1>0. PrimaryOK /\ QueuesOK /\ ChannelsOK
  BY DEF IInv
<1> DEFINE r == Head(up[w])
           m(whole) == [type |-> "sync", whole |-> whole, cause |-> r.cause,
                        from |-> r.from, to |-> Len(markers)]
<1>1. Handling(w, "getDeltaSince")
  BY DEF HandleSync
<1>2. r \in Request /\ r.method = "getDeltaSince"
  BY <1>1, HandlingStep
<1>3. r.from \in Marks /\ r.cause \in Causes
  BY <1>2 DEF Request
<1>4. PICK whole \in BOOLEAN : down' = Send(down, w, m(whole))
  BY DEF HandleSync
<1>5. m(whole) \in Down
  BY <1>0, <1>3 DEF Down, SyncMessage, Marks, PrimaryOK
<1> HIDE DEF m
<1>6. down \in [Workers -> Seq(Down)]
  BY <1>0, Parts
<1>7. down' \in [Workers -> Seq(Down)]
  BY <1>4, <1>5, <1>6, SendInto
<1>8. QueuesOK'
  BY <1>0, <1>1, HandlingStep, Parts DEF HandleSync
<1> QED
  BY <1>1, <1>7, <1>8, HandlingStep DEF IInv

LEMMA SendAnswerStep ==
  ASSUME IInv, SendAnswer
  PROVE  IInv'
<1>0. PrimaryOK /\ QueuesOK /\ WorkersOK /\ ChannelsOK
  BY DEF IInv
<1>1. UNCHANGED primaryVars /\ UNCHANGED disk
  BY DEF SendAnswer, primaryVars
<1>2. unsent \in Seq(Unsent) /\ unsent # << >> /\ down \in [Workers -> Seq(Down)]
  BY <1>0, Parts DEF SendAnswer
<1>3. 1 \in 1..Len(unsent) /\ unsent[1] \in Unsent
  BY <1>2
<1> PICK a \in Unsent : a = unsent[1]
  BY <1>3
<1> DEFINE told == IF a.answer.kind = "write" /\ a.answer.mark > 0
                   THEN Broadcast(MarkerMessage(a.answer.mark)) ELSE down
<1>4. /\ down' = Send(told, a.worker, a.answer)
      /\ unsent' = SubSeq(unsent, 1, 1 - 1) \o SubSeq(unsent, 1 + 1, Len(unsent))
  BY DEF SendAnswer, NextAnswer
<1>5. /\ a.worker \in Workers /\ a.answer \in Down
      /\ MarkerMessage(a.answer.mark) \in Down
  BY DEF Unsent, TrueAnswer, Down, MarkerMessage, BroadcastMessage
<1>6. told \in [Workers -> Seq(Down)]
  BY <1>2, <1>5, BroadcastType
<1> HIDE DEF told
<1>7. down' \in [Workers -> Seq(Down)]
  BY <1>4, <1>5, <1>6, SendInto
<1>8. unsent' \in Seq(Unsent)
  BY <1>2, <1>3, <1>4, RemoveElement
<1>9. PrimaryOK'
  BY <1>0, <1>1, SamePrimary DEF PrimaryOK
<1>10. QueuesOK'
  BY <1>0, <1>1, <1>8, QuietStep, Parts DEF SendAnswer
<1>11. WorkersOK'
  BY <1>0, <1>1, QuietStep DEF WorkersOK, SendAnswer
<1>12. ChannelsOK'
  BY <1>0, <1>1, <1>7, QuietStep, Parts DEF SendAnswer
<1> QED
  BY <1>9, <1>10, <1>11, <1>12 DEF IInv
-----------------------------------------------------------------------------
(* The workers.                                                             *)

(* What a worker's step leaves to show when it touches no queue.            *)
LEMMA WorkerStep ==
  ASSUME IInv,
         UNCHANGED <<disk, store, counter, published, markers, mutations,
                     loaders, scan, unsent, noticed>>,
         position' \in [Workers -> Marks],
         shards' \in [Workers -> [Users -> Shard]],
         \A x \in Workers, u \in Users : shards'[x][u] \in TrueShard(u),
         writing' \in [Workers -> {NoWrite} \union
           [step : {"written", "committing"}, user : Users, file : Files]],
         up' \in [Workers -> Seq(Request)],
         down' \in [Workers -> Seq(Down)], tasks' \in [Workers -> Seq(Task)]
  PROVE  IInv'
<1>0. PrimaryOK /\ QueuesOK
  BY DEF IInv
<1>1. UNCHANGED primaryVars /\ UNCHANGED disk
  BY DEF primaryVars
<1>2. PrimaryOK'
  BY <1>0, <1>1, SamePrimary DEF PrimaryOK
<1>3. QueuesOK'
  BY <1>0, <1>1, QuietStep, Parts
<1>4. WorkersOK'
  BY <1>1, QuietStep
<1>5. ChannelsOK'
  BY <1>1, QuietStep
<1> QED
  BY <1>2, <1>3, <1>4, <1>5 DEF IInv

LEMMA WorkerTypes ==
  ASSUME IInv
  PROVE  /\ position \in [Workers -> Marks]
         /\ shards \in [Workers -> [Users -> Shard]]
         /\ \A x \in Workers, u \in Users : shards[x][u] \in TrueShard(u)
         /\ writing \in [Workers -> {NoWrite} \union
              [step : {"written", "committing"}, user : Users, file : Files]]
         /\ up \in [Workers -> Seq(Request)]
         /\ down \in [Workers -> Seq(Down)] /\ tasks \in [Workers -> Seq(Task)]
         /\ Len(markers) \in Nat
BY Parts DEF IInv, WorkersOK, PrimaryOK

(* One worker's shards are replaced by true ones.                           *)
LEMMA ShardsStep ==
  ASSUME IInv, NEW w \in Workers, NEW new \in [Users -> Shard],
         \A u \in Users : new[u] \in TrueShard(u),
         shards' = [shards EXCEPT ![w] = new] \/ shards' = shards
  PROVE  /\ shards' \in [Workers -> [Users -> Shard]]
         /\ \A x \in Workers, u \in Users : shards'[x][u] \in TrueShard(u)
<1>1. /\ shards \in [Workers -> [Users -> Shard]]
      /\ \A x \in Workers, u \in Users : shards[x][u] \in TrueShard(u)
  BY WorkerTypes
<1>2. \A x \in Workers : shards'[x] = new \/ shards'[x] = shards[x]
  BY <1>1
<1> QED
  BY <1>1, <1>2

LEMMA ReadStep ==
  ASSUME IInv, NEW w \in Workers, NEW u \in Users, Read(w, u)
  PROVE  IInv'
<1> DEFINE m == [method |-> "ensureFileIndexShardLoaded", user |-> u,
                 known |-> shards[w][u].version]
<1>1. m \in Request
  BY WorkerTypes DEF Request, Shard
<1>2. up' = Send(up, w, m)
  BY DEF Read
<1> HIDE DEF m
<1>3. up' \in [Workers -> Seq(Request)]
  BY <1>1, <1>2, WorkerTypes, SendInto
<1> QED
  BY <1>3, WorkerTypes, WorkerStep DEF Read

LEMMA ReceivingStep ==
  ASSUME IInv, NEW w \in Workers, NEW type, Receiving(w, type)
  PROVE  /\ Head(down[w]) \in Down /\ Head(down[w]).type = type
         /\ down' \in [Workers -> Seq(Down)]
         /\ writing' = writing
         /\ UNCHANGED <<disk, store, counter, published, markers, mutations,
                        loaders, scan, unsent, noticed>>
<1>1. down \in [Workers -> Seq(Down)]
  BY WorkerTypes
<1>2. down[w] # << >> /\ down' = Drop(down, w)
  BY DEF Receiving
<1>3. down' \in [Workers -> Seq(Down)] /\ Head(down[w]) \in Down
  BY <1>1, <1>2, DropFrom
<1> QED
  BY <1>3 DEF Receiving

LEMMA RehydrateStep ==
  ASSUME IInv, NEW w \in Workers, NEW n \in Marks, Rehydrate(w, n)
  PROVE  /\ position' \in [Workers -> Marks]
         /\ shards' \in [Workers -> [Users -> Shard]]
         /\ \A x \in Workers, u \in Users : shards'[x][u] \in TrueShard(u)
<1> DEFINE new == [u \in Users |-> NoShard]
<1>1. \A u \in Users : NoShard \in TrueShard(u) /\ NoShard \in Shard
  BY NoShardIsTrue, ShardFields
<1>2. new \in [Users -> Shard] /\ \A u \in Users : new[u] \in TrueShard(u)
  BY <1>1
<1>3. shards' = [shards EXCEPT ![w] = new]
  BY DEF Rehydrate
<1> HIDE DEF new
<1>4. position' \in [Workers -> Marks]
  BY WorkerTypes DEF Rehydrate
<1> QED
  BY <1>2, <1>3, <1>4, ShardsStep

LEMMA ReceiveMarkerStep ==
  ASSUME IInv, NEW w \in Workers, ReceiveMarker(w)
  PROVE  IInv'
<1> DEFINE n == Head(down[w]).mark
<1>1. Receiving(w, "marker") /\ UNCHANGED tasks
  BY DEF ReceiveMarker
<1>2. Head(down[w]) \in Down /\ Head(down[w]).type = "marker"
  BY <1>1, ReceivingStep
<1>3. n \in Marks
  BY <1>2 DEF Down, TrueAnswer, SyncMessage, BroadcastMessage
<1>4. CASE n <= position[w] + 1
  <2>1. /\ position' = [position EXCEPT ![w] =
                          IF n > position[w] THEN n ELSE position[w]]
        /\ shards' = [shards EXCEPT ![w] = Stale(w, n - 1, n)]
        /\ up' = up
    BY <1>4 DEF ReceiveMarker
  <2>2. position' \in [Workers -> Marks]
    BY <1>3, <2>1, WorkerTypes
  <2>3. /\ Stale(w, n - 1, n) \in [Users -> Shard]
        /\ \A u \in Users : Stale(w, n - 1, n)[u] \in TrueShard(u)
    BY WorkerTypes, StaleIsTrue
  <2>4. /\ shards' \in [Workers -> [Users -> Shard]]
        /\ \A x \in Workers, u \in Users : shards'[x][u] \in TrueShard(u)
    BY <2>1, <2>3, ShardsStep
  <2> QED
    BY <1>1, <2>1, <2>2, <2>4, ReceivingStep, WorkerTypes, WorkerStep
<1>5. CASE ~(n <= position[w] + 1)
  <2> DEFINE m == [method |-> "getDeltaSince", from |-> position[w],
                   cause |-> [kind |-> "handler"]]
  <2>1. up' = Send(up, w, m) /\ UNCHANGED <<position, shards>>
    BY <1>5 DEF ReceiveMarker, AskForDelta
  <2>2. m \in Request
    BY WorkerTypes DEF Request, Causes
  <2> HIDE DEF m
  <2>3. up' \in [Workers -> Seq(Request)]
    BY <2>1, <2>2, WorkerTypes, SendInto
  <2> QED
    BY <1>1, <2>1, <2>3, ReceivingStep, WorkerTypes, WorkerStep
<1> QED
  BY <1>4, <1>5

LEMMA ReceiveSnapshotStep ==
  ASSUME IInv, NEW w \in Workers, ReceiveSnapshot(w)
  PROVE  IInv'
<1> DEFINE n == Head(down[w]).mark
<1>1. Receiving(w, "snapshot") /\ UNCHANGED <<up, tasks>>
  BY DEF ReceiveSnapshot
<1>2. Head(down[w]) \in Down /\ Head(down[w]).type = "snapshot"
  BY <1>1, ReceivingStep
<1>3. n \in Marks
  BY <1>2 DEF Down, TrueAnswer, SyncMessage, BroadcastMessage
<1>4. UNCHANGED <<position, shards>> \/ Rehydrate(w, n)
  BY DEF ReceiveSnapshot
<1> HIDE DEF n
<1>5. /\ position' \in [Workers -> Marks]
      /\ shards' \in [Workers -> [Users -> Shard]]
      /\ \A x \in Workers, u \in Users : shards'[x][u] \in TrueShard(u)
  BY <1>3, <1>4, RehydrateStep, WorkerTypes
<1> QED
  BY <1>1, <1>5, ReceivingStep, WorkerTypes, WorkerStep

LEMMA ReceiveAnswerStep ==
  ASSUME IInv, NEW w \in Workers, ReceiveAnswer(w)
  PROVE  IInv'
<1>1. PICK type \in {"answer", "sync"} : Receiving(w, type)
  BY DEF ReceiveAnswer
<1>2. Head(down[w]) \in Down /\ Head(down[w]).type = type
  BY <1>1, ReceivingStep
<1>3. Head(down[w]) \in Task
  BY <1>2 DEF Down, Task, TrueAnswer, SyncMessage, BroadcastMessage
<1>4. tasks' = Send(tasks, w, Head(down[w]))
  BY DEF ReceiveAnswer
<1>5. tasks' \in [Workers -> Seq(Task)]
  BY <1>3, <1>4, WorkerTypes, SendInto
<1> QED
  BY <1>1, <1>5, ReceivingStep, WorkerTypes, WorkerStep DEF ReceiveAnswer

LEMMA ResumingStep ==
  ASSUME IInv, NEW w \in Workers, NEW type, Resuming(w, type)
  PROVE  /\ Head(tasks[w]) \in Task /\ Head(tasks[w]).type = type
         /\ tasks' \in [Workers -> Seq(Task)]
         /\ UNCHANGED <<disk, store, counter, published, markers, mutations,
                        loaders, scan, unsent, noticed, down>>
<1>1. tasks \in [Workers -> Seq(Task)]
  BY WorkerTypes
<1>2. tasks[w] # << >> /\ tasks' = Drop(tasks, w)
  BY DEF Resuming
<1>3. tasks' \in [Workers -> Seq(Task)] /\ Head(tasks[w]) \in Task
  BY <1>1, <1>2, DropFrom
<1> QED
  BY <1>3 DEF Resuming

LEMMA CloseType ==
  ASSUME IInv, NEW w \in Workers, NEW cause,
         Close(w, cause) \/ writing' = writing
  PROVE  writing' \in [Workers -> {NoWrite} \union
           [step : {"written", "committing"}, user : Users, file : Files]]
<1>1. writing \in [Workers -> {NoWrite} \union
        [step : {"written", "committing"}, user : Users, file : Files]]
  BY WorkerTypes
<1> QED
  BY <1>1 DEF Close

LEMMA ResumeAnswerStep ==
  ASSUME IInv, NEW w \in Workers, ResumeAnswer(w)
  PROVE  IInv'
<1>1. Resuming(w, "answer")
  BY DEF ResumeAnswer
<1>2. Head(tasks[w]) \in Task /\ Head(tasks[w]).type = "answer"
  BY <1>1, ResumingStep
<1>3. Head(tasks[w]) \in TrueAnswer
  BY <1>2 DEF Task, SyncMessage
<1> PICK a \in TrueAnswer : a = Head(tasks[w])
  BY <1>3
<1>4. /\ a.user \in Users /\ a.mark \in Marks /\ a.kind \in {"read", "write"}
      /\ a.copies \subseteq TrueShard(a.user)
  BY DEF TrueAnswer
<1> DEFINE cause == Cause(a.kind, a.user, a.mark)
           marked == IF a.mark > 0 THEN Stale(w, a.mark - 1, a.mark)
                     ELSE shards[w]
           copied == [u \in Users |->
                        IF \E c \in a.copies : u = a.user
                        THEN ApplyShard(marked[u], CHOOSE c \in a.copies : TRUE)
                        ELSE marked[u]]
           told == [u \in Users |->
                      IF a.mark > 0 /\ u = a.user
                      THEN MarkStale(copied[u], markers[a.mark].version)
                      ELSE copied[u]]
<1>5. \/ /\ a.mark <= position[w] + 1
         /\ position' = [position EXCEPT ![w] =
                           IF a.mark > position[w] THEN a.mark ELSE position[w]]
         /\ shards' = [shards EXCEPT ![w] = told]
         /\ Close(w, cause)
         /\ up' = up
      \/ /\ AskForDelta(w, cause)
         /\ UNCHANGED <<position, shards, writing>>
  BY DEF ResumeAnswer
<1>6. \A u \in Users : marked[u] \in TrueShard(u) /\ marked[u] \in Shard
  BY WorkerTypes, StaleIsTrue, ShardFields
<1> HIDE DEF marked
<1>7. \A u \in Users : copied[u] \in TrueShard(u)
  <2> SUFFICES ASSUME NEW u \in Users
               PROVE  copied[u] \in TrueShard(u)
    OBVIOUS
  <2>1. CASE \E c \in a.copies : u = a.user
    <3> DEFINE c == CHOOSE c \in a.copies : TRUE
    <3>1. c \in TrueShard(u)
      BY <1>4, <2>1
    <3>2. copied[u] = ApplyShard(marked[u], c)
      BY <2>1
    <3> HIDE DEF c
    <3> QED
      BY <1>6, <3>1, <3>2, ApplyShardIsTrue
  <2>2. CASE ~\E c \in a.copies : u = a.user
    BY <1>6, <2>2
  <2> QED
    BY <2>1, <2>2
<1> HIDE DEF copied
<1>8. \A u \in Users : told[u] \in TrueShard(u) /\ told[u] \in Shard
  <2> SUFFICES ASSUME NEW u \in Users
               PROVE  told[u] \in TrueShard(u) /\ told[u] \in Shard
    OBVIOUS
  <2>1. \/ told[u] = copied[u]
        \/ told[u] = MarkStale(copied[u], markers[a.mark].version)
    OBVIOUS
  <2>2. MarkStale(copied[u], markers[a.mark].version) \in TrueShard(u)
    BY <1>7, MarkStaleIsTrue
  <2>3. told[u] \in TrueShard(u)
    BY <1>7, <2>1, <2>2
  <2> QED
    BY <2>3, ShardFields
<1>9. told \in [Users -> Shard]
  BY <1>8
<1> HIDE DEF told
<1>10. /\ shards' \in [Workers -> [Users -> Shard]]
       /\ \A x \in Workers, u \in Users : shards'[x][u] \in TrueShard(u)
  <2>1. shards' = [shards EXCEPT ![w] = told] \/ shards' = shards
    BY <1>5
  <2> HIDE DEF cause
  <2> QED
    BY <1>8, <1>9, <2>1, ShardsStep
<1>11. position' \in [Workers -> Marks]
  <2>1. CASE position' = position
    BY <2>1, WorkerTypes
  <2>2. CASE position' = [position EXCEPT ![w] =
                            IF a.mark > position[w] THEN a.mark ELSE position[w]]
    BY <1>4, <2>2, WorkerTypes
  <2> QED
    BY <1>5, <2>1, <2>2
<1>12. up' \in [Workers -> Seq(Request)]
  <2>1. CASE AskForDelta(w, cause)
    <3> DEFINE m == [method |-> "getDeltaSince", from |-> position[w],
                     cause |-> cause]
    <3>1. cause \in Causes
      BY <1>4 DEF Cause, Causes
    <3> HIDE DEF cause
    <3>2. m \in Request
      BY <3>1, WorkerTypes DEF Request
    <3>3. up' = Send(up, w, m)
      BY <2>1 DEF AskForDelta
    <3> HIDE DEF m
    <3> QED
      BY <3>2, <3>3, WorkerTypes, SendInto
  <2>2. CASE up' = up
    BY <2>2, WorkerTypes
  <2> QED
    BY <1>5, <2>1, <2>2
<1>13. writing' \in [Workers -> {NoWrite} \union
         [step : {"written", "committing"}, user : Users, file : Files]]
  BY <1>5, CloseType
<1> HIDE DEF cause
<1> QED
  BY <1>1, <1>10, <1>11, <1>12, <1>13, ResumingStep, WorkerTypes, WorkerStep

LEMMA ResumeSyncStep ==
  ASSUME IInv, NEW w \in Workers, ResumeSync(w)
  PROVE  IInv'
<1>1. Resuming(w, "sync") /\ up' = up
  BY DEF ResumeSync
<1>2. Head(tasks[w]) \in Task /\ Head(tasks[w]).type = "sync"
  BY <1>1, ResumingStep
<1>3. Head(tasks[w]) \in SyncMessage
  BY <1>2 DEF Task, TrueAnswer
<1> PICK s \in SyncMessage : s = Head(tasks[w])
  BY <1>3
<1>4. s.from \in Marks /\ s.to \in Marks
  BY DEF SyncMessage
<1> DEFINE new == Stale(w, s.from, s.to)
<1>5. \/ UNCHANGED <<position, shards>>
      \/ Rehydrate(w, s.to)
      \/ /\ position' = [position EXCEPT ![w] = s.to]
         /\ shards' = [shards EXCEPT ![w] = new]
  BY DEF ResumeSync
<1>6. new \in [Users -> Shard] /\ \A u \in Users : new[u] \in TrueShard(u)
  BY WorkerTypes, StaleIsTrue
<1>7. Close(w, s.cause) \/ writing' = writing
  BY DEF ResumeSync
<1> HIDE DEF new
<1>8. /\ position' \in [Workers -> Marks]
      /\ shards' \in [Workers -> [Users -> Shard]]
      /\ \A x \in Workers, u \in Users : shards'[x][u] \in TrueShard(u)
  <2>1. CASE UNCHANGED <<position, shards>>
    BY <2>1, WorkerTypes
  <2>2. CASE Rehydrate(w, s.to)
    BY <1>4, <2>2, RehydrateStep
  <2>3. CASE /\ position' = [position EXCEPT ![w] = s.to]
             /\ shards' = [shards EXCEPT ![w] = new]
    <3>1. position' \in [Workers -> Marks]
      BY <1>4, <2>3, WorkerTypes
    <3> QED
      BY <1>6, <2>3, <3>1, ShardsStep
  <2> QED
    BY <1>5, <2>1, <2>2, <2>3
<1>9. writing' \in [Workers -> {NoWrite} \union
        [step : {"written", "committing"}, user : Users, file : Files]]
  BY <1>7, CloseType
<1> QED
  BY <1>1, <1>8, <1>9, ResumingStep, WorkerTypes, WorkerStep
-----------------------------------------------------------------------------
(* The invariant.                                                           *)
LEMMA InitIInv == Init => IInv
<1> SUFFICES ASSUME Init PROVE IInv
  OBVIOUS
<1>1. \A u \in Users : NoShard \in TrueShard(u)
  BY NoShardIsTrue
<1>2. NoShard \in Shard /\ NoShard.files = {}
  BY DEF NoShard, ShardOf, Shard
<1>3. 0 \in Marks
  BY DEF Init, Marks
<1>4. PrimaryOK
  BY <1>1, <1>2 DEF Init, PrimaryOK
<1>5. QueuesOK
  BY DEF Init, QueuesOK
<1>6. WorkersOK
  BY <1>1, <1>2, <1>3 DEF Init, WorkersOK
<1>7. ChannelsOK
  BY DEF Init, ChannelsOK
<1> QED
  BY <1>4, <1>5, <1>6, <1>7 DEF IInv

LEMMA StutterStep ==
  ASSUME IInv, UNCHANGED vars
  PROVE  IInv'
<1>1. /\ UNCHANGED <<disk, store, counter, published, markers, mutations,
                     loaders, scan, unsent, noticed, position, shards,
                     writing, up, down, tasks>>
  BY DEF vars
<1> QED
  BY <1>1, WorkerTypes, WorkerStep

LEMMA NextIInv == IInv /\ [Next]_vars => IInv'
<1> SUFFICES ASSUME IInv, [Next]_vars PROVE IInv'
  OBVIOUS
<1>1. CASE Primary
  <2>1. CASE RunMutation
    BY <2>1, RunMutationStep
  <2>2. CASE FinishScan
    BY <2>2, FinishScanStep
  <2>3. CASE ReloadConfig
    BY <2>3, ReloadStep
  <2>4. CASE SendAnswer
    BY <2>4, SendAnswerStep
  <2>5. ASSUME NEW u \in Users, FireWatch(u) \/ StartScan(u) PROVE IInv'
    BY <2>5, FireWatchStep, StartScanStep
  <2>6. ASSUME NEW w \in Workers,
               HandleCommit(w) \/ HandleEnsureLoaded(w) \/ HandleSync(w)
        PROVE  IInv'
    BY <2>6, HandleCommitStep, HandleEnsureLoadedStep, HandleSyncStep
  <2> QED
    BY <1>1, <2>1, <2>2, <2>3, <2>4, <2>5, <2>6 DEF Primary
<1>2. ASSUME NEW w \in Workers, Worker(w) PROVE IInv'
  <2>1. CASE CommitWrite(w)
    BY <2>1, CommitWriteStep
  <2>2. CASE ReceiveMarker(w) \/ ReceiveSnapshot(w) \/ ReceiveAnswer(w)
    BY <2>2, ReceiveMarkerStep, ReceiveSnapshotStep, ReceiveAnswerStep
  <2>3. CASE ResumeAnswer(w) \/ ResumeSync(w)
    BY <2>3, ResumeAnswerStep, ResumeSyncStep
  <2>4. ASSUME NEW u \in Users, Read(w, u) PROVE IInv'
    BY <2>4, ReadStep
  <2>5. ASSUME NEW u \in Users, NEW f \in Files, WriteFile(w, u, f) PROVE IInv'
    BY <2>5, FileStep
  <2> QED
    BY <1>2, <2>1, <2>2, <2>3, <2>4, <2>5 DEF Worker
<1>3. ASSUME NEW u \in Users, NEW f \in Files, ForeignChange(u, f) PROVE IInv'
  BY <1>3, FileStep
<1>4. CASE UNCHANGED vars
  BY <1>4, StutterStep
<1> QED
  BY <1>1, <1>2, <1>3, <1>4 DEF Next

(* The inductive invariant holds of every behaviour of the shard protocol:  *)
(* what is in a store, a queue or a channel is true of what was published.  *)
THEOREM ShardInvariance == Spec => []IInv
<1> QED
  BY InitIInv, NextIInv, PTL DEF Spec

(* The indexes keep their types, every shard of the primary that lists a    *)
(* file has a version of its own (a marker of version 0 would be dropped    *)
(* by the commit), and no replica is ahead of the primary.                  *)
THEOREM ShardTypes == Spec => []TypeOK
<1>1. IInv => TypeOK
  <2> SUFFICES ASSUME IInv PROVE TypeOK
    OBVIOUS
  <2>1. PrimaryOK /\ WorkersOK
    BY DEF IInv
  <2>2. ASSUME NEW u \in Users, store[u].files # {}
        PROVE  store[u].version \in 1..counter
    <3>1. store[u] \in TrueShard(u) /\ store[u].version >= 1
      BY <2>1, <2>2 DEF PrimaryOK
    <3>2. store[u].version \in Nat /\ counter \in Nat
      BY <2>1, <3>1, ShardFields DEF PrimaryOK
    <3>3. store[u].version <= counter
      BY <3>1, <3>2 DEF TrueShard
    <3> QED
      BY <3>1, <3>2, <3>3
  <2> QED
    BY <2>1, <2>2 DEF TypeOK, PrimaryOK, WorkersOK, Marks
<1> QED
  BY <1>1, ShardInvariance, PTL

(* With any number of workers, users and files, and however scans, copies,  *)
(* markers and snapshots cross, the copy a worker holds under a version is  *)
(* what the primary's index held as that version.                           *)
THEOREM CopiesAreTrue == Spec => []ShardsAreTrue
<1>1. IInv => ShardsAreTrue
  <2> SUFFICES ASSUME IInv, NEW w \in Workers, NEW u \in Users,
                      shards[w][u].version > 0
               PROVE  /\ shards[w][u].version <= counter
                      /\ published[shards[w][u].version].user = u
                      /\ shards[w][u].files =
                           published[shards[w][u].version].files
    BY DEF ShardsAreTrue
  <2>1. shards[w][u] \in TrueShard(u)
    BY WorkerTypes
  <2> QED
    BY <2>1 DEF TrueShard
<1> QED
  BY <1>1, ShardInvariance, PTL
-----------------------------------------------------------------------------
(* The index and the disk.  A difference is reported as long as a change of *)
(* its path is noticed, missed, queued, or written and not yet queued.      *)
Commit(u, f) == [method |-> "commitProjectPaths", user |-> u, file |-> f]

Reported(u, f) ==
  \/ f \in noticed[u]
  \/ <<u, f>> \in missed
  \/ \E i \in DOMAIN mutations :
       mutations[i].user = u /\ f \in mutations[i].files
  \/ \E w \in Workers : \/ writing[w] = Write("written", u, f)
                        \/ \E i \in DOMAIN up[w] : up[w][i] = Commit(u, f)

Differs(u, f) == ~(f \in store[u].files <=> f \in disk[u])

Tracked ==
  \A u \in Users, f \in Files :
    Current(store[u]) /\ Differs(u, f) => Reported(u, f)

(* What a walk may have seen otherwise than it is, is reported too.         *)
Touched ==
  ~Idle => \A f \in Files :
    /\ f \in scan.touched => Reported(scan.user, f)
    /\ ~(f \in scan.start <=> f \in disk[scan.user]) => f \in scan.touched

(* A worker's open write is one token, in one place at a time: its commit   *)
(* or its later question, the mutation, the answer and its ways down.       *)
WriteCauses == [kind : {"write"}, user : Users, mark : Nat]
Commits == [method : {"commitProjectPaths"}, user : Users, file : Files]
RequestTokens ==
  Commits \union [method : {"getDeltaSince"}, from : Nat, cause : WriteCauses]
AnswerTokens ==
  [type : {"answer"}, kind : {"write"}, user : Users, mark : Nat,
   copies : SUBSET Shard]
MessageTokens ==
  AnswerTokens \union
  [type : {"sync"}, whole : BOOLEAN, cause : WriteCauses, from : Nat, to : Nat]
MutationTokens(w) == [origin : {w}, user : Users, files : SUBSET Files]
UnsentTokens(w) == [worker : {w}, answer : AnswerTokens]

Free(q, T)  == \A i \in DOMAIN q : q[i] \notin T
Alone(q, T) == \A i, j \in DOMAIN q : q[i] \in T /\ q[j] \in T => i = j

NoRequest(w)  == Free(up[w], RequestTokens)
NoMutation(w) == Free(mutations, MutationTokens(w))
NoUnsent(w)   == Free(unsent, UnsentTokens(w))
NoMessage(w)  == Free(down[w], MessageTokens)
NoTask(w)     == Free(tasks[w], MessageTokens)

Once(w) ==
  /\ Alone(up[w], RequestTokens) /\ Alone(mutations, MutationTokens(w))
  /\ Alone(unsent, UnsentTokens(w))
  /\ Alone(down[w], MessageTokens) /\ Alone(tasks[w], MessageTokens)

OnePlace(w) ==
  /\ NoRequest(w) \/ (NoMutation(w) /\ NoUnsent(w) /\ NoMessage(w) /\ NoTask(w))
  /\ NoMutation(w) \/ (NoUnsent(w) /\ NoMessage(w) /\ NoTask(w))
  /\ NoUnsent(w) \/ (NoMessage(w) /\ NoTask(w))
  /\ NoMessage(w) \/ NoTask(w)

Nowhere(w) ==
  NoRequest(w) /\ NoMutation(w) /\ NoUnsent(w) /\ NoMessage(w) /\ NoTask(w)

CommitsMatch(w) ==
  \A i \in DOMAIN up[w] : up[w][i] \in Commits =>
    writing[w] = Write("committing", up[w][i].user, up[w][i].file)

OneWriteOf(w) ==
  /\ Once(w) /\ OnePlace(w) /\ CommitsMatch(w)
  /\ writing[w].step # "committing" => Nowhere(w)

OneWrite == \A w \in Workers : OneWriteOf(w)
-----------------------------------------------------------------------------
(* Tokens of a queue.                                                       *)
LEMMA FreeAppend ==
  ASSUME NEW S, NEW T, NEW q \in Seq(S), NEW m, m \notin T, Free(q, T)
  PROVE  Free(Append(q, m), T)
BY DEF Free

LEMMA FreeTail ==
  ASSUME NEW S, NEW T, NEW q \in Seq(S), q # << >>, Free(q, T)
  PROVE  Free(Tail(q), T)
<1>1. \A i \in DOMAIN Tail(q) : i + 1 \in DOMAIN q /\ Tail(q)[i] = q[i + 1]
  OBVIOUS
<1> QED
  BY <1>1 DEF Free

LEMMA AloneAppend ==
  ASSUME NEW S, NEW T, NEW q \in Seq(S), NEW m, Alone(q, T),
         m \notin T \/ Free(q, T)
  PROVE  Alone(Append(q, m), T)
<1>1. \A i \in DOMAIN Append(q, m) :
        \/ i \in DOMAIN q /\ Append(q, m)[i] = q[i]
        \/ i = Len(q) + 1 /\ Append(q, m)[i] = m
  OBVIOUS
<1> QED
  BY <1>1 DEF Free, Alone

LEMMA AloneTail ==
  ASSUME NEW S, NEW T, NEW q \in Seq(S), q # << >>, Alone(q, T)
  PROVE  Alone(Tail(q), T)
<1>1. \A i \in DOMAIN Tail(q) : /\ i \in Int /\ i + 1 \in DOMAIN q
                                /\ Tail(q)[i] = q[i + 1]
  OBVIOUS
<1> QED
  BY <1>1 DEF Alone

LEMMA FreeAfterHead ==
  ASSUME NEW S, NEW T, NEW q \in Seq(S), q # << >>, Alone(q, T), Head(q) \in T
  PROVE  Free(Tail(q), T) /\ ~Free(q, T)
<1>1. \A i \in DOMAIN Tail(q) : /\ i \in Nat /\ i > 0 /\ i + 1 \in DOMAIN q
                                /\ Tail(q)[i] = q[i + 1]
  OBVIOUS
<1>2. 1 \in DOMAIN q /\ q[1] = Head(q)
  OBVIOUS
<1> QED
  BY <1>1, <1>2 DEF Free, Alone

(* Members of a queue stay in it, but for the head that is taken.           *)
LEMMA StaysInAppend ==
  ASSUME NEW S, NEW q \in Seq(S), NEW m, NEW i \in DOMAIN q
  PROVE  i \in DOMAIN Append(q, m) /\ Append(q, m)[i] = q[i]
OBVIOUS

LEMMA StaysInTail ==
  ASSUME NEW S, NEW q \in Seq(S), NEW i \in DOMAIN q, i # 1
  PROVE  i - 1 \in DOMAIN Tail(q) /\ Tail(q)[i - 1] = q[i]
OBVIOUS

(* What is a token and what is not.                                         *)
LEMMA RequestToken ==
  ASSUME NEW r \in Request
  PROVE  /\ r.method = "commitProjectPaths" => r \in Commits
         /\ r \in Commits => r.method = "commitProjectPaths"
         /\ r \in RequestTokens <=>
              \/ r.method = "commitProjectPaths"
              \/ r.method = "getDeltaSince" /\ r.cause.kind = "write"
BY DEF Request, Commits, RequestTokens, WriteCauses, Causes, Marks

LEMMA MessageToken ==
  ASSUME NEW m \in Down, markers \in Seq([user : Users, version : Nat])
  PROVE  m \in MessageTokens <=>
           \/ m.type = "answer" /\ m.kind = "write"
           \/ m.type = "sync" /\ m.cause.kind = "write"
BY DEF Down, MessageTokens, AnswerTokens, WriteCauses, TrueAnswer, SyncMessage,
       BroadcastMessage, Causes, Marks, TrueShard
-----------------------------------------------------------------------------
(* What a step does to one queue's tokens.                                  *)
Kept(q, r, T) == /\ Free(q, T) => Free(r, T)
                 /\ Alone(q, T) => Alone(r, T)
Left(q, r, T) == Alone(q, T) => ~Free(q, T) /\ Free(r, T) /\ Alone(r, T)
Came(q, r, T) == Free(q, T) => Alone(r, T)

LEMMA KeptSame ==
  ASSUME NEW q, NEW T
  PROVE  Kept(q, q, T)
BY DEF Kept

LEMMA KeptAppend ==
  ASSUME NEW S, NEW T, NEW q \in Seq(S), NEW m, m \notin T
  PROVE  Kept(q, Append(q, m), T)
BY FreeAppend, AloneAppend DEF Kept

LEMMA KeptTail ==
  ASSUME NEW S, NEW T, NEW q \in Seq(S), q # << >>
  PROVE  Kept(q, Tail(q), T)
BY FreeTail, AloneTail DEF Kept

LEMMA LeftTail ==
  ASSUME NEW S, NEW T, NEW q \in Seq(S), q # << >>, Head(q) \in T
  PROVE  Left(q, Tail(q), T)
BY FreeAfterHead, AloneTail DEF Left

LEMMA CameAppend ==
  ASSUME NEW S, NEW T, NEW q \in Seq(S), NEW m
  PROVE  Came(q, Append(q, m), T)
<1> SUFFICES ASSUME Free(q, T)
             PROVE  Alone(Append(q, m), T)
  BY DEF Came
<1>1. Alone(q, T)
  BY DEF Free, Alone
<1> QED
  BY <1>1, AloneAppend

(* The steps of one worker's token.                                         *)
RequestsKept(x)  == Kept(up[x], up'[x], RequestTokens)
MutationsKept(x) == Kept(mutations, mutations', MutationTokens(x))
UnsentKept(x)    == Kept(unsent, unsent', UnsentTokens(x))
MessagesKept(x)  == Kept(down[x], down'[x], MessageTokens)
TasksKept(x)     == Kept(tasks[x], tasks'[x], MessageTokens)

LEMMA TokenStays ==
  ASSUME NEW x \in Workers, OneWriteOf(x), CommitsMatch(x)',
         RequestsKept(x), MutationsKept(x), UnsentKept(x), MessagesKept(x),
         TasksKept(x),
         writing[x].step = "committing" => writing'[x].step = "committing"
  PROVE  OneWriteOf(x)'
<1>1. Once(x) /\ OnePlace(x) /\ (writing[x].step # "committing" => Nowhere(x))
  BY DEF OneWriteOf
<1>2. Once(x)'
  BY <1>1 DEF Once, RequestsKept, MutationsKept, UnsentKept, MessagesKept,
              TasksKept, Kept
<1>3. /\ NoRequest(x) => NoRequest(x)' 
      /\ NoMutation(x) => NoMutation(x)'
      /\ NoUnsent(x) => NoUnsent(x)' 
      /\ NoMessage(x) => NoMessage(x)'
      /\ NoTask(x) => NoTask(x)'
  BY DEF NoRequest, NoMutation, NoUnsent, NoMessage, NoTask,
         RequestsKept, MutationsKept, UnsentKept, MessagesKept, TasksKept, Kept
<1>4. OnePlace(x)'
  <2>1. OnePlace(x)
    BY <1>1
  <2> QED
    BY <1>3, <2>1 DEF OnePlace
<1>5. ASSUME writing'[x].step # "committing"
      PROVE  Nowhere(x)'
  <2>1. writing[x].step # "committing"
    BY <1>5
  <2>2. Nowhere(x)
    BY <1>1, <2>1
  <2> QED
    BY <1>3, <2>2 DEF Nowhere
<1> QED
  BY <1>2, <1>4, <1>5 DEF OneWriteOf

(* The token leaves one place for another, the rest is kept.                *)
LEMMA RequestToMutation ==
  ASSUME NEW x \in Workers, OneWriteOf(x), CommitsMatch(x)', UNCHANGED writing,
         Left(up[x], up'[x], RequestTokens),
         Came(mutations, mutations', MutationTokens(x)),
         UnsentKept(x), MessagesKept(x), TasksKept(x)
  PROVE  OneWriteOf(x)'
<1>1. Once(x) /\ OnePlace(x) /\ (writing[x].step # "committing" => Nowhere(x))
  BY DEF OneWriteOf
<1>2. ~NoRequest(x) /\ NoRequest(x)'
  BY <1>1 DEF Once, Left, NoRequest
<1>3. NoMutation(x) /\ NoUnsent(x) /\ NoMessage(x) /\ NoTask(x)
  BY <1>1, <1>2 DEF OnePlace
<1>4. NoUnsent(x)' /\ NoMessage(x)' /\ NoTask(x)'
  BY <1>3 DEF NoUnsent, NoMessage, NoTask, UnsentKept, MessagesKept, TasksKept, Kept
<1>5. Once(x)'
  BY <1>1, <1>3 DEF Once, Left, Came, Kept, UnsentKept, MessagesKept, TasksKept, NoMutation
<1>6. OnePlace(x)'
  BY <1>2, <1>4 DEF OnePlace
<1>7. writing'[x].step = "committing"
  BY <1>1, <1>2 DEF Nowhere
<1> QED
  BY <1>5, <1>6, <1>7 DEF OneWriteOf

LEMMA RequestToMessage ==
  ASSUME NEW x \in Workers, OneWriteOf(x), CommitsMatch(x)', UNCHANGED writing,
         Left(up[x], up'[x], RequestTokens),
         Came(down[x], down'[x], MessageTokens),
         MutationsKept(x), UnsentKept(x), TasksKept(x)
  PROVE  OneWriteOf(x)'
<1>1. Once(x) /\ OnePlace(x) /\ (writing[x].step # "committing" => Nowhere(x))
  BY DEF OneWriteOf
<1>2. ~NoRequest(x) /\ NoRequest(x)'
  BY <1>1 DEF Once, Left, NoRequest
<1>3. NoMutation(x) /\ NoUnsent(x) /\ NoMessage(x) /\ NoTask(x)
  BY <1>1, <1>2 DEF OnePlace
<1>4. NoMutation(x)' /\ NoUnsent(x)' /\ NoTask(x)'
  BY <1>3 DEF NoMutation, NoUnsent, NoTask, MutationsKept, UnsentKept, TasksKept, Kept
<1>5. Once(x)'
  BY <1>1, <1>3 DEF Once, Left, Came, Kept, MutationsKept, UnsentKept, TasksKept, NoMessage
<1>6. OnePlace(x)'
  BY <1>2, <1>4 DEF OnePlace
<1>7. writing'[x].step = "committing"
  BY <1>1, <1>2 DEF Nowhere
<1> QED
  BY <1>5, <1>6, <1>7 DEF OneWriteOf

LEMMA MutationToUnsent ==
  ASSUME NEW x \in Workers, OneWriteOf(x), CommitsMatch(x)', UNCHANGED writing,
         Left(mutations, mutations', MutationTokens(x)),
         Came(unsent, unsent', UnsentTokens(x)),
         RequestsKept(x), MessagesKept(x), TasksKept(x)
  PROVE  OneWriteOf(x)'
<1>1. Once(x) /\ OnePlace(x) /\ (writing[x].step # "committing" => Nowhere(x))
  BY DEF OneWriteOf
<1>2. ~NoMutation(x) /\ NoMutation(x)'
  BY <1>1 DEF Once, Left, NoMutation
<1>3. NoRequest(x) /\ NoUnsent(x) /\ NoMessage(x) /\ NoTask(x)
  BY <1>1, <1>2 DEF OnePlace
<1>4. NoRequest(x)' /\ NoMessage(x)' /\ NoTask(x)'
  BY <1>3 DEF NoRequest, NoMessage, NoTask, RequestsKept, MessagesKept, TasksKept, Kept
<1>5. Once(x)'
  BY <1>1, <1>3 DEF Once, Left, Came, Kept, RequestsKept, MessagesKept, TasksKept, NoUnsent
<1>6. OnePlace(x)'
  BY <1>2, <1>4 DEF OnePlace
<1>7. writing'[x].step = "committing"
  BY <1>1, <1>2 DEF Nowhere
<1> QED
  BY <1>5, <1>6, <1>7 DEF OneWriteOf

LEMMA UnsentToMessage ==
  ASSUME NEW x \in Workers, OneWriteOf(x), CommitsMatch(x)', UNCHANGED writing,
         Left(unsent, unsent', UnsentTokens(x)),
         Came(down[x], down'[x], MessageTokens),
         RequestsKept(x), MutationsKept(x), TasksKept(x)
  PROVE  OneWriteOf(x)'
<1>1. Once(x) /\ OnePlace(x) /\ (writing[x].step # "committing" => Nowhere(x))
  BY DEF OneWriteOf
<1>2. ~NoUnsent(x) /\ NoUnsent(x)'
  BY <1>1 DEF Once, Left, NoUnsent
<1>3. NoRequest(x) /\ NoMutation(x) /\ NoMessage(x) /\ NoTask(x)
  BY <1>1, <1>2 DEF OnePlace
<1>4. NoRequest(x)' /\ NoMutation(x)' /\ NoTask(x)'
  BY <1>3 DEF NoRequest, NoMutation, NoTask, RequestsKept, MutationsKept, TasksKept, Kept
<1>5. Once(x)'
  BY <1>1, <1>3 DEF Once, Left, Came, Kept, RequestsKept, MutationsKept, TasksKept, NoMessage
<1>6. OnePlace(x)'
  BY <1>2, <1>4 DEF OnePlace
<1>7. writing'[x].step = "committing"
  BY <1>1, <1>2 DEF Nowhere
<1> QED
  BY <1>5, <1>6, <1>7 DEF OneWriteOf

LEMMA MessageToTask ==
  ASSUME NEW x \in Workers, OneWriteOf(x), CommitsMatch(x)', UNCHANGED writing,
         Left(down[x], down'[x], MessageTokens),
         Came(tasks[x], tasks'[x], MessageTokens),
         RequestsKept(x), MutationsKept(x), UnsentKept(x)
  PROVE  OneWriteOf(x)'
<1>1. Once(x) /\ OnePlace(x) /\ (writing[x].step # "committing" => Nowhere(x))
  BY DEF OneWriteOf
<1>2. ~NoMessage(x) /\ NoMessage(x)'
  BY <1>1 DEF Once, Left, NoMessage
<1>3. NoRequest(x) /\ NoMutation(x) /\ NoUnsent(x) /\ NoTask(x)
  BY <1>1, <1>2 DEF OnePlace
<1>4. NoRequest(x)' /\ NoMutation(x)' /\ NoUnsent(x)'
  BY <1>3 DEF NoRequest, NoMutation, NoUnsent, RequestsKept, MutationsKept, UnsentKept, Kept
<1>5. Once(x)'
  BY <1>1, <1>3 DEF Once, Left, Came, Kept, RequestsKept, MutationsKept, UnsentKept, NoTask
<1>6. OnePlace(x)'
  BY <1>2, <1>4 DEF OnePlace
<1>7. writing'[x].step = "committing"
  BY <1>1, <1>2 DEF Nowhere
<1> QED
  BY <1>5, <1>6, <1>7 DEF OneWriteOf

LEMMA TaskToRequest ==
  ASSUME NEW x \in Workers, OneWriteOf(x), CommitsMatch(x)', UNCHANGED writing,
         Left(tasks[x], tasks'[x], MessageTokens),
         Came(up[x], up'[x], RequestTokens),
         MutationsKept(x), UnsentKept(x), MessagesKept(x)
  PROVE  OneWriteOf(x)'
<1>1. Once(x) /\ OnePlace(x) /\ (writing[x].step # "committing" => Nowhere(x))
  BY DEF OneWriteOf
<1>2. ~NoTask(x) /\ NoTask(x)'
  BY <1>1 DEF Once, Left, NoTask
<1>3. NoRequest(x) /\ NoMutation(x) /\ NoUnsent(x) /\ NoMessage(x)
  BY <1>1, <1>2 DEF OnePlace
<1>4. NoMutation(x)' /\ NoUnsent(x)' /\ NoMessage(x)'
  BY <1>3 DEF NoMutation, NoUnsent, NoMessage, MutationsKept, UnsentKept, MessagesKept, Kept
<1>5. Once(x)'
  BY <1>1, <1>3 DEF Once, Left, Came, Kept, MutationsKept, UnsentKept, MessagesKept, NoRequest
<1>6. OnePlace(x)'
  BY <1>2, <1>4 DEF OnePlace
<1>7. writing'[x].step = "committing"
  BY <1>1, <1>2 DEF Nowhere
<1> QED
  BY <1>5, <1>6, <1>7 DEF OneWriteOf

(* A write ends: its token is nowhere.                                      *)
LEMMA TokenEnds ==
  ASSUME NEW x \in Workers, OneWriteOf(x), CommitsMatch(x)',
         Left(tasks[x], tasks'[x], MessageTokens),
         RequestsKept(x), MutationsKept(x), UnsentKept(x), MessagesKept(x)
  PROVE  OneWriteOf(x)'
<1>1. Once(x) /\ OnePlace(x)
  BY DEF OneWriteOf
<1>2. ~NoTask(x) /\ NoTask(x)'
  BY <1>1 DEF Once, Left, NoTask
<1>3. NoRequest(x) /\ NoMutation(x) /\ NoUnsent(x) /\ NoMessage(x)
  BY <1>1, <1>2 DEF OnePlace
<1>4. NoRequest(x)' /\ NoMutation(x)' /\ NoUnsent(x)' /\ NoMessage(x)'
  BY <1>3 DEF NoRequest, NoMutation, NoUnsent, NoMessage, RequestsKept,
     MutationsKept, UnsentKept, MessagesKept, Kept
<1>5. Once(x)'
  BY <1>1, <1>3 DEF Once, Left, Kept, RequestsKept, MutationsKept, UnsentKept, MessagesKept
<1>6. OnePlace(x)' /\ Nowhere(x)'
  BY <1>2, <1>4 DEF OnePlace, Nowhere
<1> QED
  BY <1>5, <1>6 DEF OneWriteOf

(* A write is committed: it was nowhere before.                             *)
LEMMA TokenEnters ==
  ASSUME NEW x \in Workers, OneWriteOf(x), CommitsMatch(x)',
         writing[x].step = "written", writing'[x].step = "committing",
         Came(up[x], up'[x], RequestTokens),
         MutationsKept(x), UnsentKept(x), MessagesKept(x), TasksKept(x)
  PROVE  OneWriteOf(x)'
<1>1. Once(x) /\ Nowhere(x)
  BY DEF OneWriteOf
<1>2. NoMutation(x)' /\ NoUnsent(x)' /\ NoMessage(x)' /\ NoTask(x)'
  BY <1>1 DEF Nowhere, NoMutation, NoUnsent, NoMessage, NoTask, MutationsKept,
     UnsentKept, MessagesKept, TasksKept, Kept
<1>3. Once(x)'
  BY <1>1 DEF Once, Nowhere, NoRequest, Came, Kept, MutationsKept, UnsentKept,
     MessagesKept, TasksKept
<1>4. OnePlace(x)'
  BY <1>2 DEF OnePlace
<1> QED
  BY <1>3, <1>4 DEF OneWriteOf
-----------------------------------------------------------------------------
(* One channel after a message is sent, taken or broadcast.                 *)
LEMMA SendAt ==
  ASSUME NEW S, NEW c \in [Workers -> Seq(S)], NEW w \in Workers, NEW m,
         NEW x \in Workers
  PROVE  Send(c, w, m)[x] = IF x = w THEN Append(c[x], m) ELSE c[x]
BY DEF Send

LEMMA DropAt ==
  ASSUME NEW S, NEW c \in [Workers -> Seq(S)], NEW w \in Workers,
         NEW x \in Workers
  PROVE  Drop(c, w)[x] = IF x = w THEN Tail(c[x]) ELSE c[x]
BY DEF Drop

LEMMA BroadcastAt ==
  ASSUME NEW m, NEW x \in Workers
  PROVE  Broadcast(m)[x] = Append(down[x], m)
BY DEF Broadcast

LEMMA MatchKept ==
  ASSUME IInv, NEW x \in Workers, CommitsMatch(x), writing'[x] = writing[x],
         \/ up'[x] = up[x]
         \/ up[x] # << >> /\ up'[x] = Tail(up[x])
         \/ \E m : m \notin Commits /\ up'[x] = Append(up[x], m)
  PROVE  CommitsMatch(x)'
<1>1. up[x] \in Seq(Request)
  BY WorkerTypes
<1>2. CASE up'[x] = up[x]
  BY <1>2 DEF CommitsMatch
<1>3. CASE up[x] # << >> /\ up'[x] = Tail(up[x])
  <2>1. \A i \in DOMAIN Tail(up[x]) : /\ i + 1 \in DOMAIN up[x]
                                      /\ Tail(up[x])[i] = up[x][i + 1]
    BY <1>1, <1>3
  <2> QED
    BY <1>3, <2>1 DEF CommitsMatch
<1>4. ASSUME NEW m, m \notin Commits, up'[x] = Append(up[x], m)
      PROVE  CommitsMatch(x)'
  <2>1. \A i \in DOMAIN Append(up[x], m) :
          \/ i \in DOMAIN up[x] /\ Append(up[x], m)[i] = up[x][i]
          \/ Append(up[x], m)[i] = m
    BY <1>1
  <2> QED
    BY <1>4, <2>1 DEF CommitsMatch
<1> QED
  BY <1>2, <1>3, <1>4

(* The queues' types, for the lemmas on tokens.                             *)
Mutations == [origin : Workers \union {Watcher}, user : Users,
              files : SUBSET Files]

LEMMA QueueTypes ==
  ASSUME IInv
  PROVE  /\ mutations \in Seq(Mutations) /\ unsent \in Seq(Unsent)
         /\ up \in [Workers -> Seq(Request)]
         /\ down \in [Workers -> Seq(Down)] /\ tasks \in [Workers -> Seq(Task)]
BY Parts, WorkerTypes DEF IInv, Mutations

(* A step that touches no token of x.                                       *)
LEMMA Untouched ==
  ASSUME IInv, NEW x \in Workers, OneWriteOf(x), writing'[x] = writing[x],
         \/ up'[x] = up[x]
         \/ \E m : m \notin RequestTokens /\ up'[x] = Append(up[x], m),
         mutations' = mutations \/ MutationsKept(x),
         unsent' = unsent \/ UnsentKept(x),
         \/ down'[x] = down[x]
         \/ down[x] # << >> /\ down'[x] = Tail(down[x])
         \/ \E m : m \notin MessageTokens /\ down'[x] = Append(down[x], m)
         \/ MessagesKept(x),
         tasks'[x] = tasks[x] \/ (tasks[x] # << >> /\ tasks'[x] = Tail(tasks[x]))
  PROVE  OneWriteOf(x)'
<1>1. RequestsKept(x)
  <2>1. CASE up'[x] = up[x]
    BY <2>1, KeptSame DEF RequestsKept
  <2>2. ASSUME NEW m, m \notin RequestTokens, up'[x] = Append(up[x], m)
        PROVE  RequestsKept(x)
    <3>1. up[x] \in Seq(Request)
      BY QueueTypes
    <3> QED
      BY <2>2, <3>1, KeptAppend DEF RequestsKept
  <2> QED
    BY <2>1, <2>2
<1>2. MutationsKept(x) /\ UnsentKept(x)
  BY KeptSame DEF MutationsKept, UnsentKept
<1>3. MessagesKept(x)
  <2>1. CASE down'[x] = down[x]
    BY <2>1, KeptSame DEF MessagesKept
  <2>2. ASSUME NEW m, m \notin MessageTokens, down'[x] = Append(down[x], m)
        PROVE  MessagesKept(x)
    <3>1. down[x] \in Seq(Down)
      BY QueueTypes
    <3> QED
      BY <2>2, <3>1, KeptAppend DEF MessagesKept
  <2>3. CASE down[x] # << >> /\ down'[x] = Tail(down[x])
    <3>1. down[x] \in Seq(Down)
      BY QueueTypes
    <3> QED
      BY <2>3, <3>1, KeptTail DEF MessagesKept
  <2> QED
    BY <2>1, <2>2, <2>3
<1>4. TasksKept(x)
  BY QueueTypes, KeptSame, KeptTail DEF TasksKept
<1>5. CommitsMatch(x)'
  BY MatchKept DEF OneWriteOf, RequestTokens
<1> QED
  BY <1>1, <1>2, <1>3, <1>4, <1>5, TokenStays

(* The messages and requests that are no tokens.                            *)
LEMMA NoTokens ==
  ASSUME NEW n
  PROVE  /\ MarkerMessage(n) \notin MessageTokens
         /\ SnapshotMessage(n) \notin MessageTokens
<1>1. MarkerMessage(n).type = "marker" /\ SnapshotMessage(n).type = "snapshot"
  BY DEF MarkerMessage, SnapshotMessage
<1>2. \A m \in MessageTokens : m.type \in {"answer", "sync"}
  BY DEF MessageTokens, AnswerTokens
<1> QED
  BY <1>1, <1>2

LEMMA WriteFileOneWrite ==
  ASSUME IInv, OneWrite, NEW w \in Workers, NEW u \in Users, NEW f \in Files,
         WriteFile(w, u, f)
  PROVE  OneWrite'
<1> SUFFICES ASSUME NEW x \in Workers
             PROVE  OneWriteOf(x)'
  BY DEF OneWrite
<1>1. OneWriteOf(x)
  BY DEF OneWrite
<1>2. UNCHANGED <<up, mutations, unsent, down, tasks>>
  BY DEF WriteFile
<1>3. CASE x # w
  <2>1. writing'[x] = writing[x]
    BY <1>3, WorkerTypes DEF WriteFile
  <2> QED
    BY <1>1, <1>2, <2>1, Untouched
<1>4. CASE x = w
  <2>1. writing[x] = NoWrite /\ writing[x].step # "committing"
    BY <1>4 DEF WriteFile, NoWrite
  <2>2. CommitsMatch(x) /\ Nowhere(x)
    BY <1>1, <2>1 DEF OneWriteOf
  <2>3. CommitsMatch(x)'
    BY <1>2, <2>2 DEF CommitsMatch, Nowhere, NoRequest, Free, RequestTokens
  <2>4. RequestsKept(x) /\ MutationsKept(x) /\ UnsentKept(x) /\ MessagesKept(x)
        /\ TasksKept(x)
    BY <1>2, KeptSame
       DEF RequestsKept, MutationsKept, UnsentKept, MessagesKept, TasksKept
  <2> QED
    BY <1>1, <2>1, <2>3, <2>4, TokenStays
<1> QED
  BY <1>3, <1>4

LEMMA CommitWriteOneWrite ==
  ASSUME IInv, OneWrite, NEW w \in Workers, CommitWrite(w)
  PROVE  OneWrite'
<1> SUFFICES ASSUME NEW x \in Workers
             PROVE  OneWriteOf(x)'
  BY DEF OneWrite
<1> DEFINE m == [method |-> "commitProjectPaths", user |-> writing[w].user,
                 file |-> writing[w].file]
<1>1. OneWriteOf(x)
  BY DEF OneWrite
<1>2. UNCHANGED <<mutations, unsent, down, tasks>>
  BY DEF CommitWrite
<1>3. up' = Send(up, w, m) /\ up \in [Workers -> Seq(Request)]
  BY QueueTypes DEF CommitWrite
<1>4. writing' = [writing EXCEPT ![w] =
                    Write("committing", writing[w].user, writing[w].file)]
  BY DEF CommitWrite
<1> HIDE DEF m
<1>7. up'[x] = IF x = w THEN Append(up[x], m) ELSE up[x]
  BY <1>3, SendAt
<1>5. CASE x # w
  <2>1. writing'[x] = writing[x]
    BY <1>4, <1>5, WorkerTypes
  <2>0. up'[x] = up[x]
    BY <1>5, <1>7
  <2> QED
    BY <1>1, <1>2, <2>0, <2>1, Untouched
<1>6. CASE x = w
  <2>1. writing[x].step = "written" 
    BY <1>6 DEF CommitWrite
  <2>2. writing'[x] = Write("committing", writing[w].user, writing[w].file)
    BY <1>4, <1>6, WorkerTypes
  <2>3. up'[x] = Append(up[x], m)
    BY <1>6, <1>7
  <2>4. Nowhere(x)
    BY <1>1, <2>1 DEF OneWriteOf
  <2>5. CommitsMatch(x)'
    <3>1. \A i \in DOMAIN Append(up[x], m) :
            \/ i \in DOMAIN up[x] /\ Append(up[x], m)[i] = up[x][i]
            \/ Append(up[x], m)[i] = m
      BY <1>3
    <3>2. \A i \in DOMAIN up[x] : up[x][i] \notin Commits
      BY <2>4 DEF Nowhere, NoRequest, Free, RequestTokens
    <3>3. writing'[x] = Write("committing", m.user, m.file)
      BY <2>2 DEF m
    <3> QED
      BY <2>3, <3>1, <3>2, <3>3 DEF CommitsMatch
  <2>6. Came(up[x], up'[x], RequestTokens)
    BY <1>3, <2>3, CameAppend
  <2>7. MutationsKept(x) /\ UnsentKept(x) /\ MessagesKept(x) /\ TasksKept(x)
    BY <1>2, KeptSame DEF MutationsKept, UnsentKept, MessagesKept, TasksKept
  <2>8. writing'[x].step = "committing"
    BY <2>2 DEF Write
  <2> QED
    BY <1>1, <2>1, <2>5, <2>6, <2>7, <2>8, TokenEnters
<1> QED
  BY <1>5, <1>6

LEMMA ReadOneWrite ==
  ASSUME IInv, OneWrite, NEW w \in Workers, NEW u \in Users, Read(w, u)
  PROVE  OneWrite'
<1> SUFFICES ASSUME NEW x \in Workers
             PROVE  OneWriteOf(x)'
  BY DEF OneWrite
<1> DEFINE m == [method |-> "ensureFileIndexShardLoaded", user |-> u,
                 known |-> shards[w][u].version]
<1>1. OneWriteOf(x) /\ up \in [Workers -> Seq(Request)]
  BY QueueTypes DEF OneWrite
<1>2. UNCHANGED <<mutations, unsent, down, tasks, writing>>
  BY DEF Read
<1>3. up' = Send(up, w, m)
  BY DEF Read
<1>4. m \notin RequestTokens
  <2>1. \A r \in RequestTokens : r.method \in {"commitProjectPaths", "getDeltaSince"}
    BY DEF RequestTokens, Commits
  <2> QED
    BY <2>1
<1> HIDE DEF m
<1>5. up'[x] = IF x = w THEN Append(up[x], m) ELSE up[x]
  BY <1>1, <1>3, SendAt
<1> QED
  BY <1>1, <1>2, <1>4, <1>5, Untouched

LEMMA FireWatchOneWrite ==
  ASSUME IInv, OneWrite, NEW u \in Users, FireWatch(u)
  PROVE  OneWrite'
<1> SUFFICES ASSUME NEW x \in Workers
             PROVE  OneWriteOf(x)'
  BY DEF OneWrite
<1> DEFINE m == [origin |-> Watcher, user |-> u, files |-> noticed[u]]
<1>1. OneWriteOf(x) /\ mutations \in Seq(Mutations)
  BY QueueTypes DEF OneWrite
<1>2. UNCHANGED <<up, unsent, down, tasks, writing>>
  BY DEF FireWatch
<1>3. mutations' = mutations \/ mutations' = Append(mutations, m)
  BY DEF FireWatch
<1>4. m \notin MutationTokens(x)
  BY BoundsAssumption DEF MutationTokens, Watcher
<1> HIDE DEF m
<1>5. mutations' = mutations \/ MutationsKept(x)
  BY <1>1, <1>3, <1>4, KeptAppend DEF MutationsKept
<1> QED
  BY <1>1, <1>2, <1>5, Untouched

(* A step that broadcasts, or leaves every queue alone.                     *)
LEMMA BroadcastOneWrite ==
  ASSUME IInv, OneWrite, UNCHANGED <<up, mutations, tasks, writing>>,
         \A x \in Workers : unsent' = unsent \/ UnsentKept(x),
         \/ down' = down
         \/ \E m : m \notin MessageTokens /\ down' = Broadcast(m)
  PROVE  OneWrite'
<1> SUFFICES ASSUME NEW x \in Workers
             PROVE  OneWriteOf(x)'
  BY DEF OneWrite
<1>1. OneWriteOf(x)
  BY DEF OneWrite
<1>2. \/ down'[x] = down[x]
      \/ \E m : m \notin MessageTokens /\ down'[x] = Append(down[x], m)
  BY BroadcastAt
<1> QED
  BY <1>1, <1>2, Untouched

LEMMA RequestTaken ==
  ASSUME IInv, OneWrite, NEW w \in Workers, NEW method, Handling(w, method)
  PROVE  /\ up[w] # << >> /\ up \in [Workers -> Seq(Request)]
         /\ \A x \in Workers : up'[x] = IF x = w THEN Tail(up[x]) ELSE up[x]
         /\ \A x \in Workers : OneWriteOf(x) /\ CommitsMatch(x)'
         /\ Head(up[w]) \in Request /\ Head(up[w]).method = method
         /\ UNCHANGED <<tasks, writing>> /\ unsent = << >>
         /\ Head(up[w]) \in RequestTokens
              => Left(up[w], up'[w], RequestTokens)
         /\ \A x \in Workers : x # w => RequestsKept(x)
         /\ Head(up[w]) \notin RequestTokens => RequestsKept(w)
<1>1. up[w] # << >> /\ up' = Drop(up, w) /\ UNCHANGED <<tasks, writing>>
  BY DEF Handling
<1>2. up \in [Workers -> Seq(Request)]
  BY QueueTypes
<1>3. \A x \in Workers : up'[x] = IF x = w THEN Tail(up[x]) ELSE up[x]
  BY <1>1, <1>2, DropAt
<1>4. \A x \in Workers : OneWriteOf(x) /\ CommitsMatch(x)'
  BY <1>1, <1>3, MatchKept DEF OneWrite, OneWriteOf
<1>5. \A x \in Workers : x # w => RequestsKept(x)
  BY <1>3, KeptSame DEF RequestsKept
<1>6. up[w] \in Seq(Request) /\ up'[w] = Tail(up[w])
  BY <1>2, <1>3
<1>7. Head(up[w]) \in RequestTokens => Left(up[w], up'[w], RequestTokens)
  BY <1>1, <1>6, LeftTail
<1>8. RequestsKept(w)
  BY <1>1, <1>6, KeptTail DEF RequestsKept
<1> QED
  BY <1>1, <1>2, <1>3, <1>4, <1>5, <1>7, <1>8, HandlingStep

LEMMA HandleCommitOneWrite ==
  ASSUME IInv, OneWrite, NEW w \in Workers, HandleCommit(w)
  PROVE  OneWrite'
<1> SUFFICES ASSUME NEW x \in Workers
             PROVE  OneWriteOf(x)'
  BY DEF OneWrite
<1> DEFINE r == Head(up[w])
           m == [origin |-> w, user |-> r.user, files |-> {r.file}]
<1>1. Handling(w, "commitProjectPaths")
  BY DEF HandleCommit
<1>2. mutations' = Append(mutations, m) /\ UNCHANGED <<unsent, down>>
  BY DEF HandleCommit
<1>3. UNCHANGED <<tasks, writing>> /\ OneWriteOf(x) /\ CommitsMatch(x)'
  BY <1>1, RequestTaken
<1>4. UnsentKept(x) /\ MessagesKept(x) /\ TasksKept(x)
  BY <1>2, <1>3, KeptSame DEF UnsentKept, MessagesKept, TasksKept
<1>5. mutations \in Seq(Mutations)
  BY QueueTypes
<1>6. CASE x = w
  <2>1. Head(up[w]) \in RequestTokens
    BY <1>1, RequestTaken, RequestToken
  <2>2. Left(up[x], up'[x], RequestTokens)
    BY <1>1, <1>6, <2>1, RequestTaken
  <2> HIDE DEF m
  <2>3. Came(mutations, mutations', MutationTokens(x))
    BY <1>2, <1>5, CameAppend
  <2> QED
    BY <1>3, <1>4, <2>2, <2>3, RequestToMutation
<1>7. CASE x # w
  <2>1. RequestsKept(x)
    BY <1>1, <1>7, RequestTaken
  <2>2. m \notin MutationTokens(x)
    BY <1>7 DEF MutationTokens
  <2> HIDE DEF m
  <2>3. MutationsKept(x)
    BY <1>2, <1>5, <2>2, KeptAppend DEF MutationsKept
  <2> QED
    BY <1>3, <1>4, <2>1, <2>3, TokenStays
<1> QED
  BY <1>6, <1>7

LEMMA KeptConcat ==
  ASSUME NEW S, NEW T, NEW q \in Seq(S), NEW r,
         r \in Seq(S), \A i \in DOMAIN r : r[i] \notin T
  PROVE  Kept(q, q \o r, T)
<1>1. \A i \in DOMAIN (q \o r) :
        \/ i \in DOMAIN q /\ (q \o r)[i] = q[i]
        \/ \E j \in DOMAIN r : (q \o r)[i] = r[j]
  <2> SUFFICES ASSUME NEW i \in DOMAIN (q \o r)
               PROVE  \/ i \in DOMAIN q /\ (q \o r)[i] = q[i]
                      \/ \E j \in DOMAIN r : (q \o r)[i] = r[j]
    OBVIOUS
  <2>1. CASE i <= Len(q)
    BY <2>1
  <2>2. CASE i > Len(q)
    <3>1. i - Len(q) \in DOMAIN r /\ (q \o r)[i] = r[i - Len(q)]
      BY <2>2
    <3> QED
      BY <3>1
  <2> QED
    BY <2>1, <2>2
<1>2. \A i \in DOMAIN (q \o r) : (q \o r)[i] \in T =>
        i \in DOMAIN q /\ q[i] \in T
  BY <1>1
<1>3. Free(q, T) => Free(q \o r, T)
  BY <1>2 DEF Free
<1>4. Alone(q, T) => Alone(q \o r, T)
  BY <1>2 DEF Alone
<1> QED
  BY <1>3, <1>4 DEF Kept

(* What the end of a walk does, for the proofs that need no more of it.     *)
LEMMA ScanEnds ==
  ASSUME IInv, FinishScan
  PROVE  \E u \in Users, found \in SUBSET Files :
           /\ u = scan.user
           /\ \A f \in Files : f \notin scan.touched => (f \in found <=> f \in scan.start)
           /\ IF found # store[u].files \/ found = {}
              THEN Replace(u, found, TRUE)
              ELSE /\ store' = [store EXCEPT ![u] =
                                  ShardOf(found, TRUE, FALSE, store[u].version)]
                   /\ UNCHANGED <<counter, published>>
           /\ IF found # store[u].files
              THEN /\ CommitMarker(u)
                   /\ down' = Broadcast(MarkerMessage(Len(markers')))
              ELSE UNCHANGED <<markers, down>>
           /\ \/ unsent' = unsent
              \/ \E r : /\ unsent' = unsent \o r
                        /\ r = [i \in DOMAIN loaders[u] |->
                                  [worker |-> loaders[u][i],
                                   answer |-> Answer("read", u,
                                     IF found # store[u].files
                                     THEN Len(markers') ELSE 0,
                                     {Copy(store'[u])})]]
           /\ missed' = {m \in missed : m[1] = u => m[2] \in scan.touched}
<1>0. PrimaryOK /\ QueuesOK
  BY DEF IInv
<1>1. scan \in [kind : {"load", "reconcile"}, user : Users,
                start : SUBSET Files, touched : SUBSET Files]
  BY <1>0 DEF FinishScan, Idle, QueuesOK
<1> PICK u \in Users : u = scan.user
  BY <1>1
<1>2. PICK seen \in SUBSET scan.touched :
        LET found == (scan.start \ scan.touched) \union seen
            differs == found # store[u].files
        IN  /\ IF differs \/ found = {}
               THEN Replace(u, found, TRUE)
               ELSE /\ store' = [store EXCEPT ![u] =
                                   ShardOf(found, TRUE, FALSE, store[u].version)]
                    /\ UNCHANGED <<counter, published>>
            /\ IF differs
               THEN /\ CommitMarker(u)
                    /\ down' = Broadcast(MarkerMessage(Len(markers')))
               ELSE UNCHANGED <<markers, down>>
            /\ missed' = {m \in missed : m[1] = u => m[2] \in scan.touched}
            /\ IF scan.kind = "load"
               THEN /\ loaders' = [loaders EXCEPT ![u] = << >>]
                    /\ unsent' = unsent \o
                         [i \in DOMAIN loaders[u] |->
                            [worker |-> loaders[u][i],
                             answer |-> Answer("read", u,
                               IF differs THEN Len(markers') ELSE 0,
                               {Copy(store'[u])})]]
               ELSE UNCHANGED <<loaders, unsent>>
  BY DEF FinishScan
<1> DEFINE found == (scan.start \ scan.touched) \union seen
           answers == [i \in DOMAIN loaders[u] |->
                         [worker |-> loaders[u][i],
                          answer |-> Answer("read", u,
                            IF found # store[u].files THEN Len(markers') ELSE 0,
                            {Copy(store'[u])})]]
<1>3. found \in SUBSET Files
  BY <1>1
<1>4. \A f \in Files : f \notin scan.touched => (f \in found <=> f \in scan.start)
  OBVIOUS
<1>5. unsent' = unsent \/ unsent' = unsent \o answers
  BY <1>2
<1>6. \/ unsent' = unsent
      \/ \E r : unsent' = unsent \o r /\ r = answers
  BY <1>5
<1>7. /\ IF found # store[u].files \/ found = {}
         THEN Replace(u, found, TRUE)
         ELSE /\ store' = [store EXCEPT ![u] =
                             ShardOf(found, TRUE, FALSE, store[u].version)]
              /\ UNCHANGED <<counter, published>>
      /\ IF found # store[u].files
         THEN /\ CommitMarker(u)
              /\ down' = Broadcast(MarkerMessage(Len(markers')))
         ELSE UNCHANGED <<markers, down>>
      /\ missed' = {m \in missed : m[1] = u => m[2] \in scan.touched}
  BY <1>2
<1> WITNESS u \in Users, found \in SUBSET Files
<1> QED
  BY <1>4, <1>6, <1>7

LEMMA ReadAnswers ==
  ASSUME IInv, NEW u \in Users, NEW r, NEW mark, NEW copies, NEW x \in Workers,
         r = [i \in DOMAIN loaders[u] |->
                [worker |-> loaders[u][i],
                 answer |-> Answer("read", u, mark, copies)]]
  PROVE  /\ \E S : r \in Seq(S)
         /\ \A i \in DOMAIN r : r[i] \notin UnsentTokens(x)
<1>1. loaders[u] \in Seq(Workers)
  BY DEF IInv, QueuesOK
<1> DEFINE S == {r[i] : i \in DOMAIN r}
<1>2. DOMAIN r = 1..Len(loaders[u]) /\ Len(loaders[u]) \in Nat
  BY <1>1
<1>3. r \in [1..Len(loaders[u]) -> S]
  BY <1>2
<1>4. r \in Seq(S)
  BY <1>2, <1>3
<1>5. \A i \in DOMAIN r : r[i].answer.kind = "read"
  BY <1>2 DEF Answer
<1>6. \A t \in UnsentTokens(x) : t.answer.kind = "write"
  BY DEF UnsentTokens, AnswerTokens
<1> QED
  BY <1>4, <1>5, <1>6

LEMMA FinishScanOneWrite ==
  ASSUME IInv, OneWrite, FinishScan
  PROVE  OneWrite'
<1>1. PICK u \in Users, found \in SUBSET Files :
        /\ IF found # store[u].files
           THEN /\ CommitMarker(u)
                /\ down' = Broadcast(MarkerMessage(Len(markers')))
           ELSE UNCHANGED <<markers, down>>
        /\ \/ unsent' = unsent
           \/ \E r : /\ unsent' = unsent \o r
                     /\ r = [i \in DOMAIN loaders[u] |->
                               [worker |-> loaders[u][i],
                                answer |-> Answer("read", u,
                                  IF found # store[u].files
                                  THEN Len(markers') ELSE 0,
                                  {Copy(store'[u])})]]
  BY ScanEnds
<1>2. UNCHANGED <<up, mutations, tasks, writing>>
  BY DEF FinishScan
<1>3. down' = down \/ \E m : m \notin MessageTokens /\ down' = Broadcast(m)
  BY <1>1, NoTokens
<1>4. ASSUME NEW x \in Workers
      PROVE  unsent' = unsent \/ UnsentKept(x)
  <2>1. CASE unsent' = unsent
    BY <2>1
  <2>2. ASSUME NEW r, unsent' = unsent \o r,
               r = [i \in DOMAIN loaders[u] |->
                      [worker |-> loaders[u][i],
                       answer |-> Answer("read", u,
                         IF found # store[u].files THEN Len(markers') ELSE 0,
                         {Copy(store'[u])})]]
        PROVE  UnsentKept(x)
    <3>1. /\ \E S : r \in Seq(S)
          /\ \A i \in DOMAIN r : r[i] \notin UnsentTokens(x)
      BY <2>2, ReadAnswers
    <3>2. PICK S : r \in Seq(S)
      BY <3>1
    <3>3. unsent \in Seq(Unsent)
      BY QueueTypes
    <3> DEFINE Z == Unsent \union S
    <3>4. unsent \in Seq(Z) /\ r \in Seq(Z)
      BY <3>2, <3>3
    <3> HIDE DEF Z
    <3>5. Kept(unsent, unsent \o r, UnsentTokens(x))
      BY <3>1, <3>4, KeptConcat
    <3> QED
      BY <2>2, <3>5 DEF UnsentKept
  <2> QED
    BY <1>1, <2>1, <2>2
<1> QED
  BY <1>2, <1>3, <1>4, BroadcastOneWrite

LEMMA ReloadOneWrite ==
  ASSUME IInv, OneWrite, ReloadConfig
  PROVE  OneWrite'
<1>1. \E m : m \notin MessageTokens /\ down' = Broadcast(m)
  BY NoTokens DEF ReloadConfig
<1>2. UNCHANGED <<up, mutations, tasks, writing, unsent>>
  BY DEF ReloadConfig
<1> QED
  BY <1>1, <1>2, BroadcastOneWrite

LEMMA HandleEnsureLoadedOneWrite ==
  ASSUME IInv, OneWrite, NEW w \in Workers, HandleEnsureLoaded(w)
  PROVE  OneWrite'
<1> SUFFICES ASSUME NEW x \in Workers
             PROVE  OneWriteOf(x)'
  BY DEF OneWrite
<1>1. Handling(w, "ensureFileIndexShardLoaded") /\ UNCHANGED <<mutations, down>>
  BY DEF HandleEnsureLoaded
<1>2. \/ unsent' = unsent
      \/ \E u, copies :
           unsent' = << [worker |-> w, answer |-> Answer("read", u, 0, copies)] >>
  BY DEF HandleEnsureLoaded
<1>3. /\ unsent = << >> /\ UNCHANGED <<tasks, writing>>
      /\ OneWriteOf(x) /\ CommitsMatch(x)'
  BY <1>1, RequestTaken
<1>4. Head(up[w]) \notin RequestTokens
  BY <1>1, RequestTaken, RequestToken
<1>5. RequestsKept(x)
  BY <1>1, <1>4, RequestTaken
<1>6. MutationsKept(x) /\ MessagesKept(x) /\ TasksKept(x)
  BY <1>1, <1>3, KeptSame DEF MutationsKept, MessagesKept, TasksKept
<1>7. UnsentKept(x)
  <2>1. CASE unsent' = unsent
    BY <2>1, KeptSame DEF UnsentKept
  <2>2. ASSUME NEW u, NEW copies,
               unsent' = << [worker |-> w,
                             answer |-> Answer("read", u, 0, copies)] >>
        PROVE  UnsentKept(x)
    <3> DEFINE a == [worker |-> w, answer |-> Answer("read", u, 0, copies)]
    <3>1. a.answer.kind = "read"
      BY DEF Answer
    <3>2. \A t \in UnsentTokens(x) : t.answer.kind = "write"
      BY DEF UnsentTokens, AnswerTokens
    <3>3. a \notin UnsentTokens(x)
      BY <3>1, <3>2
    <3>4. unsent' = << a >>
      BY <2>2
    <3> HIDE DEF a
    <3>5. Free(<< a >>, UnsentTokens(x)) /\ Alone(<< a >>, UnsentTokens(x))
      BY <3>3 DEF Free, Alone
    <3> QED
      BY <3>4, <3>5 DEF UnsentKept, Kept
  <2> QED
    BY <1>2, <2>1, <2>2
<1> QED
  BY <1>3, <1>5, <1>6, <1>7, TokenStays

LEMMA HandleSyncOneWrite ==
  ASSUME IInv, OneWrite, NEW w \in Workers, HandleSync(w)
  PROVE  OneWrite'
<1> SUFFICES ASSUME NEW x \in Workers
             PROVE  OneWriteOf(x)'
  BY DEF OneWrite
<1> DEFINE r == Head(up[w])
           m(whole) == [type |-> "sync", whole |-> whole, cause |-> r.cause,
                        from |-> r.from, to |-> Len(markers)]
<1>1. Handling(w, "getDeltaSince") /\ UNCHANGED <<mutations, unsent>>
  BY DEF HandleSync
<1>2. r \in Request /\ r.method = "getDeltaSince"
  BY <1>1, HandlingStep
<1>3. PICK whole \in BOOLEAN : down' = Send(down, w, m(whole))
  BY DEF HandleSync
<1>4. UNCHANGED <<tasks, writing>> /\ OneWriteOf(x) /\ CommitsMatch(x)'
  BY <1>1, RequestTaken
<1>5. MutationsKept(x) /\ UnsentKept(x) /\ TasksKept(x)
  BY <1>1, <1>4, KeptSame DEF MutationsKept, UnsentKept, TasksKept
<1>6. down \in [Workers -> Seq(Down)]
  BY QueueTypes
<1>7. down'[x] = IF x = w THEN Append(down[x], m(whole)) ELSE down[x]
  <2> HIDE DEF m
  <2> QED
    BY <1>3, <1>6, SendAt
<1>8. CASE x # w
  <2>1. RequestsKept(x)
    BY <1>1, <1>8, RequestTaken
  <2>2. MessagesKept(x)
    BY <1>7, <1>8, KeptSame DEF MessagesKept
  <2> QED
    BY <1>4, <1>5, <2>1, <2>2, TokenStays
<1>9. CASE x = w /\ r \in RequestTokens
  <2>1. Left(up[x], up'[x], RequestTokens)
    BY <1>1, <1>9, RequestTaken
  <2>2. down[x] \in Seq(Down)
    BY <1>6
  <2> HIDE DEF m
  <2>3. Came(down[x], down'[x], MessageTokens)
    BY <1>7, <1>9, <2>2, CameAppend
  <2> QED
    BY <1>4, <1>5, <2>1, <2>3, RequestToMessage
<1>10. CASE x = w /\ r \notin RequestTokens
  <2>1. RequestsKept(x)
    BY <1>1, <1>10, RequestTaken
  <2>2. r.cause.kind # "write"
    BY <1>2, <1>10, RequestToken
  <2>3. m(whole).cause.kind # "write" /\ m(whole).type # "answer"
    BY <2>2
  <2>4. \A t \in MessageTokens : t.type = "answer" \/ t.cause.kind = "write"
    BY DEF MessageTokens, AnswerTokens, WriteCauses
  <2>5. m(whole) \notin MessageTokens
    BY <2>3, <2>4
  <2>6. down[x] \in Seq(Down)
    BY <1>6
  <2> HIDE DEF m
  <2>7. MessagesKept(x)
    BY <1>7, <1>10, <2>5, <2>6, KeptAppend DEF MessagesKept
  <2> QED
    BY <1>4, <1>5, <2>1, <2>7, TokenStays
<1> QED
  BY <1>8, <1>9, <1>10

(* What running the first mutation does.                                    *)
LEMMA MutationRuns ==
  ASSUME IInv, RunMutation
  PROVE  \E m \in Mutations :
           /\ mutations # << >> /\ m = Head(mutations)
           /\ mutations' = Tail(mutations) /\ Idle
           /\ missed' = missed \ ({m.user} \X m.files)
           /\ UNCHANGED <<disk, scan, noticed, position, shards, up, tasks,
                          writing, acked>>
           /\ \/ /\ Touches(m.user, m.files)
                 /\ Replace(m.user, Synced(m.user, m.files), store[m.user].full)
                 /\ CommitMarker(m.user)
                 /\ unsent' = IF m.origin # Watcher
                              THEN Append(unsent,
                                     [worker |-> m.origin,
                                      answer |-> Answer("write", m.user, Len(markers'),
                                                        {Copy(store'[m.user])})])
                              ELSE unsent
                 /\ down' = IF m.origin # Watcher THEN down
                            ELSE Broadcast(MarkerMessage(Len(markers')))
              \/ /\ ~Touches(m.user, m.files)
                 /\ UNCHANGED <<store, counter, published, markers, down>>
                 /\ unsent' = IF m.origin # Watcher
                              THEN Append(unsent,
                                     [worker |-> m.origin,
                                      answer |-> Answer("write", m.user, 0, {})])
                              ELSE unsent
<1>1. mutations \in Seq(Mutations) /\ mutations # << >>
  BY QueueTypes DEF RunMutation
<1>2. Head(mutations) \in Mutations
  BY <1>1, HeadAndTail
<1> PICK m \in Mutations : m = Head(mutations)
  BY <1>2
<1>3. CASE Touches(m.user, m.files)
  <2>1. /\ Replace(m.user, Synced(m.user, m.files), store[m.user].full)
        /\ CommitMarker(m.user)
        /\ unsent' = IF m.origin # Watcher
                     THEN Append(unsent,
                            [worker |-> m.origin,
                             answer |-> Answer("write", m.user, Len(markers'),
                                               {Copy(store'[m.user])})])
                     ELSE unsent
        /\ down' = IF m.origin # Watcher THEN down
                   ELSE Broadcast(MarkerMessage(Len(markers')))
    BY <1>3 DEF RunMutation
  <2> QED
    BY <1>1, <1>3, <2>1 DEF RunMutation
<1>4. CASE ~Touches(m.user, m.files)
  <2>1. /\ UNCHANGED <<store, counter, published, markers, down>>
        /\ unsent' = IF m.origin # Watcher
                     THEN Append(unsent,
                            [worker |-> m.origin,
                             answer |-> Answer("write", m.user, 0, {})])
                     ELSE unsent
    BY <1>4 DEF RunMutation
  <2> QED
    BY <1>1, <1>4, <2>1 DEF RunMutation
<1> QED
  BY <1>3, <1>4

LEMMA RunMutationOneWrite ==
  ASSUME IInv, OneWrite, RunMutation
  PROVE  OneWrite'
<1> SUFFICES ASSUME NEW x \in Workers
             PROVE  OneWriteOf(x)'
  BY DEF OneWrite
<1>1. PICK m \in Mutations :
        /\ mutations # << >> /\ m = Head(mutations)
        /\ mutations' = Tail(mutations)
        /\ UNCHANGED <<up, tasks, writing>>
        /\ \/ down' = down
           \/ down' = Broadcast(MarkerMessage(Len(markers')))
        /\ \/ m.origin = Watcher /\ unsent' = unsent
           \/ /\ m.origin # Watcher
              /\ \E mark, copies :
                   unsent' = Append(unsent,
                               [worker |-> m.origin,
                                answer |-> Answer("write", m.user, mark, copies)])
  BY MutationRuns
<1>2. OneWriteOf(x) /\ mutations \in Seq(Mutations) /\ unsent \in Seq(Unsent)
  BY QueueTypes DEF OneWrite
<1>3. RequestsKept(x) /\ TasksKept(x)
  BY <1>1, KeptSame DEF RequestsKept, TasksKept
<1>4. CommitsMatch(x)'
  BY <1>1, <1>2, MatchKept DEF OneWriteOf
<1>5. MessagesKept(x)
  <2>1. CASE down' = down
    BY <2>1, KeptSame DEF MessagesKept
  <2>2. CASE down' = Broadcast(MarkerMessage(Len(markers')))
    <3>1. down'[x] = Append(down[x], MarkerMessage(Len(markers')))
      BY <2>2, BroadcastAt
    <3>2. MarkerMessage(Len(markers')) \notin MessageTokens
      BY NoTokens
    <3>3. down[x] \in Seq(Down)
      BY QueueTypes
    <3> QED
      BY <3>1, <3>2, <3>3, KeptAppend DEF MessagesKept
  <2> QED
    BY <1>1, <2>1, <2>2
<1>6. CASE m.origin = x
  <2>1. m \in MutationTokens(x)
    BY <1>6 DEF Mutations, MutationTokens
  <2>2. Left(mutations, mutations', MutationTokens(x))
    BY <1>1, <1>2, <2>1, LeftTail
  <2>3. m.origin # Watcher
    BY <1>6, BoundsAssumption DEF Watcher
  <2>4. PICK a : unsent' = Append(unsent, a)
    BY <1>1, <2>3
  <2>5. Came(unsent, unsent', UnsentTokens(x))
    BY <1>2, <2>4, CameAppend
  <2> QED
    BY <1>1, <1>2, <1>3, <1>4, <1>5, <2>2, <2>5, MutationToUnsent
<1>7. CASE m.origin # x
  <2>1. MutationsKept(x)
    BY <1>1, <1>2, KeptTail DEF MutationsKept
  <2>2. UnsentKept(x)
    <3>1. CASE unsent' = unsent
      BY <3>1, KeptSame DEF UnsentKept
    <3>2. ASSUME NEW mark, NEW copies,
                 unsent' = Append(unsent,
                             [worker |-> m.origin,
                              answer |-> Answer("write", m.user, mark, copies)])
          PROVE  UnsentKept(x)
      <4> DEFINE a == [worker |-> m.origin,
                       answer |-> Answer("write", m.user, mark, copies)]
      <4>1. a \notin UnsentTokens(x)
        BY <1>7 DEF UnsentTokens
      <4> HIDE DEF a
      <4>2. unsent' = Append(unsent, a)
        BY <3>2 DEF a
      <4> QED
        BY <1>2, <4>1, <4>2, KeptAppend DEF UnsentKept
    <3> QED
      BY <1>1, <3>1, <3>2
  <2> QED
    BY <1>1, <1>2, <1>3, <1>4, <1>5, <2>1, <2>2, TokenStays
<1> QED
  BY <1>6, <1>7

LEMMA FirstRemoved ==
  ASSUME NEW S, NEW q \in Seq(S), q # << >>
  PROVE  SubSeq(q, 1, 1 - 1) \o SubSeq(q, 1 + 1, Len(q)) = Tail(q)
OBVIOUS

(* What sending the first answer does.                                      *)
LEMMA AnswerSent ==
  ASSUME IInv, SendAnswer
  PROVE  \E a \in Unsent :
           /\ unsent # << >> /\ a = Head(unsent) /\ a = unsent[1]
           /\ unsent' = Tail(unsent)
           /\ \/ down' = Send(down, a.worker, a.answer)
              \/ /\ a.answer.kind = "write" /\ a.answer.mark > 0
                 /\ down' = Send(Broadcast(MarkerMessage(a.answer.mark)),
                                 a.worker, a.answer)
<1>1. unsent \in Seq(Unsent) /\ unsent # << >>
  BY QueueTypes DEF SendAnswer
<1>2. Head(unsent) \in Unsent /\ Head(unsent) = unsent[1]
  BY <1>1
<1> PICK a \in Unsent : a = Head(unsent)
  BY <1>2
<1>3. /\ \/ down' = Send(down, a.worker, a.answer)
         \/ /\ a.answer.kind = "write" /\ a.answer.mark > 0
            /\ down' = Send(Broadcast(MarkerMessage(a.answer.mark)),
                            a.worker, a.answer)
      /\ unsent' = SubSeq(unsent, 1, 1 - 1) \o SubSeq(unsent, 1 + 1, Len(unsent))
  BY <1>2 DEF SendAnswer, NextAnswer
<1>4. unsent' = Tail(unsent)
  BY <1>1, <1>3, FirstRemoved
<1> QED
  BY <1>1, <1>2, <1>3, <1>4

LEMMA SendAnswerOneWrite ==
  ASSUME IInv, OneWrite, SendAnswer
  PROVE  OneWrite'
<1> SUFFICES ASSUME NEW x \in Workers
             PROVE  OneWriteOf(x)'
  BY DEF OneWrite
<1>1. PICK a \in Unsent :
        /\ unsent # << >> /\ a = Head(unsent)
        /\ unsent' = Tail(unsent)
        /\ \/ down' = Send(down, a.worker, a.answer)
           \/ down' = Send(Broadcast(MarkerMessage(a.answer.mark)),
                           a.worker, a.answer)
  BY AnswerSent
<1>2. UNCHANGED <<up, mutations, tasks, writing>>
  BY DEF SendAnswer
<1>3. /\ OneWriteOf(x) /\ unsent \in Seq(Unsent) /\ a.worker \in Workers
      /\ down \in [Workers -> Seq(Down)] /\ a.answer \in TrueAnswer
  BY QueueTypes DEF OneWrite, Unsent
<1>4. RequestsKept(x) /\ MutationsKept(x) /\ TasksKept(x)
  BY <1>2, KeptSame DEF RequestsKept, MutationsKept, TasksKept
<1>5. CommitsMatch(x)'
  BY <1>2, <1>3, MatchKept DEF OneWriteOf
<1>6. PICK mid \in [Workers -> Seq(Down)] :
        /\ down' = Send(mid, a.worker, a.answer)
        /\ Kept(down[x], mid[x], MessageTokens)
  <2>1. CASE down' = Send(down, a.worker, a.answer)
    BY <1>3, <2>1, KeptSame
  <2>2. CASE down' = Send(Broadcast(MarkerMessage(a.answer.mark)), a.worker, a.answer)
    <3> DEFINE m == MarkerMessage(a.answer.mark)
               mid == Broadcast(m)
    <3>1. m \in Down
      BY <1>3 DEF TrueAnswer, Down, MarkerMessage, BroadcastMessage
    <3>2. m \notin MessageTokens
      BY NoTokens
    <3> HIDE DEF m
    <3>3. mid \in [Workers -> Seq(Down)]
      BY <1>3, <3>1, BroadcastType
    <3>4. mid[x] = Append(down[x], m) /\ down[x] \in Seq(Down)
      BY <1>3, BroadcastAt
    <3>5. Kept(down[x], mid[x], MessageTokens)
      BY <3>2, <3>4, KeptAppend
    <3>6. down' = Send(mid, a.worker, a.answer)
      BY <2>2 DEF m
    <3> QED
      BY <3>3, <3>5, <3>6
  <2> QED
    BY <1>1, <2>1, <2>2
<1>7. down'[x] = IF x = a.worker THEN Append(mid[x], a.answer) ELSE mid[x]
  <2>1. Send(mid, a.worker, a.answer)[x] =
          IF x = a.worker THEN Append(mid[x], a.answer) ELSE mid[x]
    BY <1>3, SendAt
  <2> QED
    BY <1>6, <2>1
<1>8. mid[x] \in Seq(Down)
  BY <1>6
<1>9. CASE a \in UnsentTokens(x)
  <2>1. x = a.worker
    BY <1>9 DEF UnsentTokens
  <2>2. Left(unsent, unsent', UnsentTokens(x))
    BY <1>1, <1>3, <1>9, LeftTail
  <2>3. Came(mid[x], Append(mid[x], a.answer), MessageTokens)
    BY <1>8, CameAppend
  <2>4. Came(down[x], down'[x], MessageTokens)
    BY <1>6, <1>7, <2>1, <2>3 DEF Came, Kept
  <2> QED
    BY <1>2, <1>3, <1>4, <1>5, <2>2, <2>4, UnsentToMessage
<1>10. CASE a \notin UnsentTokens(x)
  <2>1. UnsentKept(x)
    BY <1>1, <1>3, KeptTail DEF UnsentKept
  <2>2. MessagesKept(x)
    <3>1. CASE x # a.worker
      BY <1>6, <1>7, <3>1 DEF MessagesKept
    <3>2. CASE x = a.worker
      <4>1. a.answer \notin AnswerTokens
        BY <1>10, <3>2 DEF Unsent, UnsentTokens
      <4>2. a.answer.type = "answer"
        BY <1>3 DEF TrueAnswer
      <4>3. a.answer \notin MessageTokens
        BY <4>1, <4>2 DEF MessageTokens
      <4>4. Kept(mid[x], Append(mid[x], a.answer), MessageTokens)
        BY <1>8, <4>3, KeptAppend
      <4> QED
        BY <1>6, <1>7, <3>2, <4>4 DEF MessagesKept, Kept
    <3> QED
      BY <3>1, <3>2
  <2> QED
    BY <1>2, <1>3, <1>4, <1>5, <2>1, <2>2, TokenStays
<1> QED
  BY <1>9, <1>10
-----------------------------------------------------------------------------
LEMMA MessageTaken ==
  ASSUME IInv, OneWrite, NEW w \in Workers, NEW type, Receiving(w, type)
  PROVE  /\ down[w] # << >> /\ down[w] \in Seq(Down) /\ Head(down[w]) \in Down
         /\ Head(down[w]).type = type
         /\ \A x \in Workers : down'[x] = IF x = w THEN Tail(down[x]) ELSE down[x]
         /\ \A x \in Workers : OneWriteOf(x)
         /\ \A x \in Workers : MutationsKept(x) /\ UnsentKept(x) /\ MessagesKept(x)
         /\ UNCHANGED writing
<1>1. down[w] # << >> /\ down' = Drop(down, w) /\ UNCHANGED <<mutations, unsent, writing>>
  BY DEF Receiving
<1>2. down \in [Workers -> Seq(Down)] /\ down[w] \in Seq(Down)
  BY QueueTypes
<1>3. \A x \in Workers : down'[x] = IF x = w THEN Tail(down[x]) ELSE down[x]
  BY <1>1, <1>2, DropAt
<1>4. ASSUME NEW x \in Workers
      PROVE  MutationsKept(x) /\ UnsentKept(x) /\ MessagesKept(x)
  <2>1. MutationsKept(x) /\ UnsentKept(x)
    BY <1>1, KeptSame DEF MutationsKept, UnsentKept
  <2>2. CASE x = w
    <3>1. down'[x] = Tail(down[x])
      BY <1>3, <2>2
    <3> QED
      BY <1>1, <1>2, <2>1, <2>2, <3>1, KeptTail DEF MessagesKept
  <2>3. CASE x # w
    <3>1. down'[x] = down[x]
      BY <1>3, <2>3
    <3> QED
      BY <2>1, <3>1, KeptSame DEF MessagesKept
  <2> QED
    BY <2>2, <2>3
<1> QED
  BY <1>1, <1>2, <1>3, <1>4, ReceivingStep DEF OneWrite

LEMMA ReceiveMarkerOneWrite ==
  ASSUME IInv, OneWrite, NEW w \in Workers, ReceiveMarker(w)
  PROVE  OneWrite'
<1> SUFFICES ASSUME NEW x \in Workers
             PROVE  OneWriteOf(x)'
  BY DEF OneWrite
<1> DEFINE m == [method |-> "getDeltaSince", from |-> position[w],
                 cause |-> [kind |-> "handler"]]
<1>1. Receiving(w, "marker") /\ UNCHANGED tasks
  BY DEF ReceiveMarker
<1>2. up' = up \/ up' = Send(up, w, m)
  BY DEF ReceiveMarker, AskForDelta
<1>3. m \notin RequestTokens
  <2>1. \A r \in RequestTokens : r.method = "getDeltaSince" => r.cause.kind = "write"
    BY DEF RequestTokens, Commits, WriteCauses
  <2>2. m.method = "getDeltaSince" /\ m.cause.kind = "handler"
    OBVIOUS
  <2> QED
    BY <2>1, <2>2
<1> HIDE DEF m
<1>4. up'[x] = up[x] \/ up'[x] = Append(up[x], m)
  <2>1. up \in [Workers -> Seq(Request)]
    BY QueueTypes
  <2>2. Send(up, w, m)[x] = IF x = w THEN Append(up[x], m) ELSE up[x]
    BY <2>1, SendAt
  <2> QED
    BY <1>2, <2>2
<1>5. OneWriteOf(x) /\ MutationsKept(x) /\ UnsentKept(x) /\ MessagesKept(x)
      /\ UNCHANGED writing
  BY <1>1, MessageTaken
<1> QED
  BY <1>1, <1>3, <1>4, <1>5, Untouched

LEMMA ReceiveSnapshotOneWrite ==
  ASSUME IInv, OneWrite, NEW w \in Workers, ReceiveSnapshot(w)
  PROVE  OneWrite'
<1> SUFFICES ASSUME NEW x \in Workers
             PROVE  OneWriteOf(x)'
  BY DEF OneWrite
<1>1. Receiving(w, "snapshot") /\ UNCHANGED <<up, tasks>>
  BY DEF ReceiveSnapshot
<1>2. OneWriteOf(x) /\ MutationsKept(x) /\ UnsentKept(x) /\ MessagesKept(x)
      /\ UNCHANGED writing
  BY <1>1, MessageTaken
<1> QED
  BY <1>1, <1>2, Untouched

LEMMA ReceiveAnswerOneWrite ==
  ASSUME IInv, OneWrite, NEW w \in Workers, ReceiveAnswer(w)
  PROVE  OneWrite'
<1> SUFFICES ASSUME NEW x \in Workers
             PROVE  OneWriteOf(x)'
  BY DEF OneWrite
<1> DEFINE m == Head(down[w])
<1>1. PICK type \in {"answer", "sync"} : Receiving(w, type)
  BY DEF ReceiveAnswer
<1>2. tasks' = Send(tasks, w, m) /\ UNCHANGED <<up, position, shards>>
  BY DEF ReceiveAnswer
<1>3. /\ OneWriteOf(x) /\ MutationsKept(x) /\ UnsentKept(x) /\ MessagesKept(x)
      /\ UNCHANGED writing /\ down[w] # << >> /\ down[w] \in Seq(Down)
      /\ down'[x] = IF x = w THEN Tail(down[x]) ELSE down[x]
  BY <1>1, MessageTaken
<1>4. RequestsKept(x) /\ CommitsMatch(x)'
  BY <1>2, <1>3, MatchKept, KeptSame DEF RequestsKept, OneWriteOf
<1>5. tasks \in [Workers -> Seq(Task)] /\ tasks[x] \in Seq(Task)
  BY QueueTypes
<1>6. tasks'[x] = IF x = w THEN Append(tasks[x], m) ELSE tasks[x]
  <2> HIDE DEF m
  <2> QED
    BY <1>2, <1>5, SendAt
<1>7. CASE x # w
  <2>1. TasksKept(x)
    BY <1>6, <1>7, KeptSame DEF TasksKept
  <2> QED
    BY <1>3, <1>4, <2>1, TokenStays
<1>8. CASE x = w /\ m \in MessageTokens
  <2>1. Left(down[x], down'[x], MessageTokens)
    BY <1>3, <1>8, LeftTail
  <2> HIDE DEF m
  <2>2. Came(tasks[x], tasks'[x], MessageTokens)
    BY <1>5, <1>6, <1>8, CameAppend
  <2> QED
    BY <1>3, <1>4, <2>1, <2>2, MessageToTask
<1>9. CASE x = w /\ m \notin MessageTokens
  <2> HIDE DEF m
  <2>1. TasksKept(x)
    BY <1>5, <1>6, <1>9, KeptAppend DEF TasksKept
  <2> QED
    BY <1>3, <1>4, <2>1, TokenStays
<1> QED
  BY <1>7, <1>8, <1>9

LEMMA TaskTaken ==
  ASSUME IInv, OneWrite, NEW w \in Workers, NEW type, Resuming(w, type)
  PROVE  /\ tasks[w] # << >> /\ tasks[w] \in Seq(Task) /\ Head(tasks[w]) \in Task
         /\ Head(tasks[w]).type = type /\ Head(tasks[w]) \in Down
         /\ \A x \in Workers : tasks'[x] = IF x = w THEN Tail(tasks[x]) ELSE tasks[x]
         /\ \A x \in Workers : OneWriteOf(x)
         /\ \A x \in Workers : MutationsKept(x) /\ UnsentKept(x) /\ MessagesKept(x)
         /\ Head(tasks[w]) \in MessageTokens
              => Left(tasks[w], tasks'[w], MessageTokens)
<1>1. /\ tasks[w] # << >> /\ tasks' = Drop(tasks, w)
      /\ UNCHANGED <<mutations, unsent, down>>
  BY DEF Resuming
<1>2. tasks \in [Workers -> Seq(Task)] /\ tasks[w] \in Seq(Task)
  BY QueueTypes
<1>3. \A x \in Workers : tasks'[x] = IF x = w THEN Tail(tasks[x]) ELSE tasks[x]
  BY <1>1, <1>2, DropAt
<1>4. \A x \in Workers : MutationsKept(x) /\ UnsentKept(x) /\ MessagesKept(x)
  BY <1>1, KeptSame DEF MutationsKept, UnsentKept, MessagesKept
<1>5. Head(tasks[w]) \in MessageTokens => Left(tasks[w], tasks'[w], MessageTokens)
  <2>1. tasks'[w] = Tail(tasks[w])
    BY <1>3
  <2> QED
    BY <1>1, <1>2, <2>1, LeftTail
<1>6. Head(tasks[w]) \in Task /\ Head(tasks[w]).type = type
  BY ResumingStep
<1> QED
  BY <1>1, <1>2, <1>3, <1>4, <1>5, <1>6 DEF OneWrite, Task, Down

(* A worker whose answer is read has committed, or its task is no token.    *)
LEMMA TokenMeansCommitting ==
  ASSUME IInv, OneWrite, NEW w \in Workers, tasks[w] # << >>,
         Head(tasks[w]) \in MessageTokens
  PROVE  /\ writing[w].step = "committing"
         /\ NoRequest(w) /\ NoMutation(w) /\ NoUnsent(w) /\ NoMessage(w)
<1>1. OneWriteOf(w) /\ tasks[w] \in Seq(Task)
  BY QueueTypes DEF OneWrite
<1>2. 1 \in DOMAIN tasks[w] /\ tasks[w][1] = Head(tasks[w])
  BY <1>1
<1>3. ~NoTask(w)
  BY <1>2 DEF NoTask, Free
<1> QED
  BY <1>1, <1>3 DEF OneWriteOf, OnePlace, Nowhere

(* What reading the first answer does.                                      *)
LEMMA AnswerResumed ==
  ASSUME IInv, NEW w \in Workers, ResumeAnswer(w)
  PROVE  \E a \in TrueAnswer :
           /\ a = Head(tasks[w]) /\ Resuming(w, "answer")
           /\ \/ a.mark <= position[w] + 1 /\ up' = up
                 /\ Close(w, Cause(a.kind, a.user, a.mark))
                 /\ Acknowledge(w, Cause(a.kind, a.user, a.mark))
              \/ a.mark > position[w] + 1
                 /\ AskForDelta(w, Cause(a.kind, a.user, a.mark))
                 /\ UNCHANGED <<position, shards, writing, acked>>
<1>1. Resuming(w, "answer")
  BY DEF ResumeAnswer
<1>2. Head(tasks[w]) \in Task /\ Head(tasks[w]).type = "answer"
  BY <1>1, ResumingStep
<1>3. Head(tasks[w]) \in TrueAnswer
  BY <1>2 DEF Task, SyncMessage
<1> PICK a \in TrueAnswer : a = Head(tasks[w])
  BY <1>3
<1>4. a.mark \in Nat /\ position[w] \in Nat
  BY WorkerTypes DEF TrueAnswer, Marks
<1>5. CASE a.mark <= position[w] + 1
  BY <1>1, <1>5 DEF ResumeAnswer
<1>6. CASE a.mark > position[w] + 1
  BY <1>1, <1>4, <1>6 DEF ResumeAnswer
<1> QED
  BY <1>4, <1>5, <1>6

LEMMA ResumeAnswerOneWrite ==
  ASSUME IInv, OneWrite, NEW w \in Workers, ResumeAnswer(w)
  PROVE  OneWrite'
<1> SUFFICES ASSUME NEW x \in Workers
             PROVE  OneWriteOf(x)'
  BY DEF OneWrite
<1>1. PICK a \in TrueAnswer :
        /\ a = Head(tasks[w]) /\ Resuming(w, "answer")
        /\ \/ up' = up /\ Close(w, Cause(a.kind, a.user, a.mark))
           \/ AskForDelta(w, Cause(a.kind, a.user, a.mark)) /\ UNCHANGED writing
  BY AnswerResumed
<1> DEFINE cause == Cause(a.kind, a.user, a.mark)
           m == [method |-> "getDeltaSince", from |-> position[w],
                 cause |-> cause]
<1>2. /\ OneWriteOf(x) /\ MutationsKept(x) /\ UnsentKept(x) /\ MessagesKept(x)
      /\ tasks'[x] = IF x = w THEN Tail(tasks[x]) ELSE tasks[x]
      /\ tasks[w] # << >> /\ a \in Down /\ a.type = "answer"
  BY <1>1, TaskTaken
<1>3. \/ up' = up /\ Close(w, cause)
      \/ up' = Send(up, w, m) /\ UNCHANGED writing
  BY <1>1 DEF AskForDelta
<1>4. cause.kind = a.kind
  BY DEF Cause
<1>5. up \in [Workers -> Seq(Request)] /\ up[x] \in Seq(Request)
      /\ markers \in Seq([user : Users, version : Nat])
  BY QueueTypes DEF IInv, PrimaryOK
<1>6. a \in MessageTokens <=> a.kind = "write"
  BY <1>2, <1>5, MessageToken
<1>7. m \notin Commits /\ (a.kind # "write" => m \notin RequestTokens)
  <2>1. m.method = "getDeltaSince" /\ m.cause.kind = a.kind
    BY <1>4
  <2>2. \A r \in Commits : r.method = "commitProjectPaths"
    BY DEF Commits
  <2>3. \A r \in RequestTokens : r.method = "getDeltaSince" => r.cause.kind = "write"
    BY DEF RequestTokens, Commits, WriteCauses
  <2> QED
    BY <2>1, <2>2, <2>3
<1>8. x # w => tasks'[x] = tasks[x] /\ writing'[x] = writing[x]
  BY <1>2, <1>3, WorkerTypes DEF Close
<1> HIDE DEF m
<1>9. up' = Send(up, w, m) => up'[x] = IF x = w THEN Append(up[x], m) ELSE up[x]
  BY <1>5, SendAt
<1>10. CASE x # w
  <2>1. up'[x] = up[x]
    BY <1>3, <1>9, <1>10
  <2> QED
    BY <1>2, <1>8, <1>10, <2>1, Untouched
<1>11. CASE x = w /\ a.kind # "write"
  <2>1. writing'[x] = writing[x]
    BY <1>3, <1>4, <1>11 DEF Close
  <2>2. up'[x] = up[x] \/ up'[x] = Append(up[x], m)
    BY <1>3, <1>9, <1>11
  <2> QED
    BY <1>2, <1>7, <1>11, <2>1, <2>2, Untouched
<1>12. CASE x = w /\ a.kind = "write" /\ up' = up
  <2>1. Left(tasks[x], tasks'[x], MessageTokens)
    BY <1>1, <1>6, <1>12, TaskTaken
  <2>2. RequestsKept(x)
    BY <1>12, KeptSame DEF RequestsKept
  <2>3. NoRequest(x)
    BY <1>1, <1>2, <1>6, <1>12, TokenMeansCommitting
  <2>4. CommitsMatch(x)'
    BY <1>12, <2>3 DEF NoRequest, Free, CommitsMatch, RequestTokens
  <2> QED
    BY <1>2, <2>1, <2>2, <2>4, TokenEnds
<1>13. CASE x = w /\ a.kind = "write" /\ up' # up
  <2>1. Left(tasks[x], tasks'[x], MessageTokens)
    BY <1>1, <1>6, <1>13, TaskTaken
  <2>2. up'[x] = Append(up[x], m) /\ UNCHANGED writing
    BY <1>3, <1>9, <1>13
  <2>3. Came(up[x], up'[x], RequestTokens)
    BY <1>5, <2>2, CameAppend
  <2>4. CommitsMatch(x)'
    BY <1>2, <1>7, <2>2, MatchKept DEF OneWriteOf
  <2> QED
    BY <1>2, <2>1, <2>2, <2>3, <2>4, TaskToRequest
<1> QED
  BY <1>10, <1>11, <1>12, <1>13

LEMMA ResumeSyncOneWrite ==
  ASSUME IInv, OneWrite, NEW w \in Workers, ResumeSync(w)
  PROVE  OneWrite'
<1> SUFFICES ASSUME NEW x \in Workers
             PROVE  OneWriteOf(x)'
  BY DEF OneWrite
<1> DEFINE s == Head(tasks[w])
<1>1. Resuming(w, "sync") /\ up' = up
  BY DEF ResumeSync
<1>2. IF s.cause.kind = "handler" THEN UNCHANGED <<writing, reading>>
      ELSE Close(w, s.cause)
  BY DEF ResumeSync
<1>3. /\ OneWriteOf(x) /\ MutationsKept(x) /\ UnsentKept(x) /\ MessagesKept(x)
      /\ tasks'[x] = IF x = w THEN Tail(tasks[x]) ELSE tasks[x]
      /\ tasks[w] # << >> /\ s \in Down /\ s.type = "sync"
  BY <1>1, TaskTaken
<1>4. s \in MessageTokens <=> s.cause.kind = "write"
  <2>1. markers \in Seq([user : Users, version : Nat])
    BY DEF IInv, PrimaryOK
  <2> QED
    BY <1>3, <2>1, MessageToken
<1>5. CASE x # w \/ s.cause.kind # "write"
  <2>1. writing'[x] = writing[x]
    BY <1>2, <1>5, WorkerTypes DEF Close
  <2> QED
    BY <1>1, <1>3, <2>1, Untouched
<1>6. CASE x = w /\ s.cause.kind = "write"
  <2>1. Left(tasks[x], tasks'[x], MessageTokens)
    BY <1>1, <1>4, <1>6, TaskTaken
  <2>2. RequestsKept(x)
    BY <1>1, KeptSame DEF RequestsKept
  <2>3. NoRequest(x)
    BY <1>3, <1>4, <1>6, TokenMeansCommitting
  <2>4. CommitsMatch(x)'
    BY <1>1, <2>3 DEF NoRequest, Free, CommitsMatch, RequestTokens
  <2> QED
    BY <1>3, <2>1, <2>2, <2>4, TokenEnds
<1> QED
  BY <1>5, <1>6

LEMMA QuietOneWrite ==
  ASSUME IInv, OneWrite, UNCHANGED <<up, mutations, unsent, down, tasks, writing>>
  PROVE  OneWrite'
BY BroadcastOneWrite

LEMMA InitOneWrite == Init => OneWrite
<1> SUFFICES ASSUME Init, NEW w \in Workers
             PROVE  OneWriteOf(w)
  BY DEF OneWrite
<1>1. /\ up[w] = << >> /\ mutations = << >> /\ unsent = << >>
      /\ down[w] = << >> /\ tasks[w] = << >> /\ writing[w] = NoWrite
  BY DEF Init
<1>2. Once(w) /\ Nowhere(w) /\ CommitsMatch(w)
  BY <1>1 DEF Once, Nowhere, NoRequest, NoMutation, NoUnsent, NoMessage, NoTask,
              Free, Alone, CommitsMatch
<1>3. OnePlace(w)
  BY <1>2 DEF OnePlace, Nowhere
<1> QED
  BY <1>2, <1>3 DEF OneWriteOf

LEMMA NextOneWrite == IInv /\ OneWrite /\ [Next]_vars => OneWrite'
<1> SUFFICES ASSUME IInv, OneWrite, [Next]_vars
             PROVE  OneWrite'
  OBVIOUS
<1>1. CASE RunMutation
  BY <1>1, RunMutationOneWrite
<1>2. CASE FinishScan
  BY <1>2, FinishScanOneWrite
<1>3. CASE ReloadConfig
  BY <1>3, ReloadOneWrite
<1>4. CASE SendAnswer
  BY <1>4, SendAnswerOneWrite
<1>5. ASSUME NEW u \in Users, FireWatch(u) \/ StartScan(u)
      PROVE  OneWrite'
  <2>1. CASE FireWatch(u)
    BY <2>1, FireWatchOneWrite
  <2>2. CASE StartScan(u)
    BY <2>2, QuietOneWrite DEF StartScan
  <2> QED
    BY <1>5, <2>1, <2>2
<1>6. ASSUME NEW w \in Workers,
             HandleCommit(w) \/ HandleEnsureLoaded(w) \/ HandleSync(w)
      PROVE  OneWrite'
  BY <1>6, HandleCommitOneWrite, HandleEnsureLoadedOneWrite, HandleSyncOneWrite
<1>7. ASSUME NEW w \in Workers, Worker(w)
      PROVE  OneWrite'
  <2>1. CASE CommitWrite(w)
    BY <2>1, CommitWriteOneWrite
  <2>2. CASE ReceiveMarker(w) \/ ReceiveSnapshot(w) \/ ReceiveAnswer(w)
    BY <2>2, ReceiveMarkerOneWrite, ReceiveSnapshotOneWrite, ReceiveAnswerOneWrite
  <2>3. CASE ResumeAnswer(w) \/ ResumeSync(w)
    BY <2>3, ResumeAnswerOneWrite, ResumeSyncOneWrite
  <2>4. ASSUME NEW u \in Users, Read(w, u)
        PROVE  OneWrite'
    BY <2>4, ReadOneWrite
  <2>5. ASSUME NEW u \in Users, NEW f \in Files, WriteFile(w, u, f)
        PROVE  OneWrite'
    BY <2>5, WriteFileOneWrite
  <2> QED
    BY <1>7, <2>1, <2>2, <2>3, <2>4, <2>5 DEF Worker
<1>8. ASSUME NEW u \in Users, NEW f \in Files, ForeignChange(u, f)
      PROVE  OneWrite'
  BY <1>8, QuietOneWrite DEF ForeignChange
<1>9. CASE UNCHANGED vars
  BY <1>9, QuietOneWrite DEF vars
<1> QED
  BY <1>1, <1>2, <1>3, <1>4, <1>5, <1>6, <1>7, <1>8, <1>9 DEF Next, Primary
-----------------------------------------------------------------------------
(* Reports: a change stays reported on its way to the index.                *)
Queued(u, f) ==
  \E i \in DOMAIN mutations : mutations[i].user = u /\ f \in mutations[i].files

Sent(w, u, f) == \E i \in DOMAIN up[w] : up[w][i] = Commit(u, f)

LEMMA ReportForms ==
  ASSUME NEW u, NEW f
  PROVE  Reported(u, f) <=>
           \/ f \in noticed[u] \/ <<u, f>> \in missed \/ Queued(u, f)
           \/ \E w \in Workers : writing[w] = Write("written", u, f)
           \/ \E w \in Workers : Sent(w, u, f)
BY DEF Reported, Queued, Sent

LEMMA QueuedStays ==
  ASSUME IInv, NEW m, mutations' = Append(mutations, m), NEW u, NEW f, Queued(u, f)
  PROVE  Queued(u, f)'
<1>1. mutations \in Seq(Mutations)
  BY QueueTypes
<1>2. PICK i \in DOMAIN mutations : mutations[i].user = u /\ f \in mutations[i].files
  BY DEF Queued
<1>3. i \in DOMAIN mutations' /\ mutations'[i] = mutations[i]
  BY <1>1, StaysInAppend
<1> QED
  BY <1>2, <1>3 DEF Queued

LEMMA QueuedLast ==
  ASSUME IInv, NEW m, mutations' = Append(mutations, m), NEW f \in m.files
  PROVE  Queued(m.user, f)'
<1>1. mutations \in Seq(Mutations)
  BY QueueTypes
<1>2. /\ Len(mutations) + 1 \in DOMAIN mutations'
      /\ mutations'[Len(mutations) + 1] = m
  BY <1>1
<1> QED
  BY <1>2 DEF Queued

LEMMA SentStays ==
  ASSUME IInv, NEW w \in Workers, NEW u, NEW f, Sent(w, u, f),
         \/ up'[w] = up[w]
         \/ \E m : up'[w] = Append(up[w], m)
         \/ up[w] # << >> /\ up'[w] = Tail(up[w]) /\ Head(up[w]) # Commit(u, f)
  PROVE  Sent(w, u, f)'
<1>1. up[w] \in Seq(Request)
  BY QueueTypes
<1>2. PICK i \in DOMAIN up[w] : up[w][i] = Commit(u, f)
  BY DEF Sent
<1>3. CASE up'[w] = up[w]
  BY <1>2, <1>3 DEF Sent
<1>4. ASSUME NEW m, up'[w] = Append(up[w], m)
      PROVE  Sent(w, u, f)'
  <2>1. i \in DOMAIN up'[w] /\ up'[w][i] = up[w][i]
    BY <1>1, <1>4, StaysInAppend
  <2> QED
    BY <1>2, <2>1 DEF Sent
<1>5. CASE up[w] # << >> /\ up'[w] = Tail(up[w]) /\ Head(up[w]) # Commit(u, f)
  <2>1. i # 1
    BY <1>1, <1>2, <1>5
  <2>2. i - 1 \in DOMAIN up'[w] /\ up'[w][i - 1] = up[w][i]
    BY <1>1, <1>5, <2>1, StaysInTail
  <2> QED
    BY <1>2, <2>2 DEF Sent
<1> QED
  BY <1>3, <1>4, <1>5

(* A step that takes no report away.                                        *)
LEMMA ReportStays ==
  ASSUME IInv, NEW u, NEW f, Reported(u, f),
         f \in noticed[u] => f \in noticed'[u] \/ Queued(u, f)' \/ <<u, f>> \in missed',
         <<u, f>> \in missed => <<u, f>> \in missed',
         mutations' = mutations \/ \E m : mutations' = Append(mutations, m),
         \A w \in Workers : writing[w] = Write("written", u, f) =>
                              writing'[w] = writing[w] \/ Sent(w, u, f)',
         \A w \in Workers : \/ up'[w] = up[w]
                            \/ \E m : up'[w] = Append(up[w], m)
                            \/ /\ up[w] # << >> /\ up'[w] = Tail(up[w])
                               /\ Head(up[w]) = Commit(u, f) => Queued(u, f)'
  PROVE  Reported(u, f)'
<1>1. CASE Queued(u, f)
  <2>1. Queued(u, f)'
    BY <1>1, QueuedStays DEF Queued
  <2> QED
    BY <2>1 DEF Reported, Queued
<1>2. ASSUME NEW w \in Workers, writing[w] = Write("written", u, f)
      PROVE  Reported(u, f)'
  BY <1>2 DEF Reported, Sent
<1>3. ASSUME NEW w \in Workers, Sent(w, u, f)
      PROVE  Reported(u, f)'
  <2>1. Sent(w, u, f)' \/ Queued(u, f)'
    BY <1>3, SentStays
  <2> QED
    BY <2>1 DEF Reported, Sent, Queued
<1>4. CASE f \in noticed[u] \/ <<u, f>> \in missed
  BY <1>4 DEF Reported, Queued
<1> QED
  BY <1>1, <1>2, <1>3, <1>4, ReportForms

(* The primary never marks a shard of its own stale.                        *)
Owned == \A u \in Users : store[u].stale = FALSE

Indexed == Tracked /\ Touched /\ Owned

ReportsStay == \A u \in Users, f \in Files : Reported(u, f) => Reported(u, f)'

LEMMA IndexedStays ==
  ASSUME IInv, Indexed, ReportsStay, UNCHANGED <<store, disk, scan>>
  PROVE  Indexed'
<1>1. Tracked'
  BY DEF Tracked, Indexed, ReportsStay, Differs
<1>2. Touched'
  <2>1. CASE Idle
    BY <2>1 DEF Touched, Idle
  <2>2. CASE ~Idle
    <3>1. scan.user \in Users
      BY <2>2 DEF IInv, QueuesOK, Idle
    <3> QED
      BY <2>2, <3>1 DEF Touched, Indexed, ReportsStay, Idle
  <2> QED
    BY <2>1, <2>2
<1> QED
  BY <1>1, <1>2 DEF Indexed, Owned

LEMMA CommitWriteReports ==
  ASSUME IInv, NEW w \in Workers, CommitWrite(w)
  PROVE  ReportsStay
<1> DEFINE m == [method |-> "commitProjectPaths", user |-> writing[w].user,
                 file |-> writing[w].file]
<1>1. UNCHANGED <<noticed, missed, mutations>>
  BY DEF CommitWrite
<1>2. up' = Send(up, w, m) /\ up \in [Workers -> Seq(Request)]
  BY QueueTypes DEF CommitWrite
<1>3. \A x \in Workers : x # w => writing'[x] = writing[x]
  BY WorkerTypes DEF CommitWrite
<1>4. \A u, f : writing[w] = Write("written", u, f) => m = Commit(u, f)
  BY DEF Write, Commit
<1> HIDE DEF m
<1>5. \A x \in Workers : up'[x] = IF x = w THEN Append(up[x], m) ELSE up[x]
  BY <1>2, SendAt
<1> SUFFICES ASSUME NEW u \in Users, NEW f \in Files, Reported(u, f)
             PROVE  Reported(u, f)'
  BY DEF ReportsStay
<1>6. ASSUME writing[w] = Write("written", u, f)
      PROVE  Sent(w, u, f)'
  <2>1. up'[w] = Append(up[w], m) /\ up[w] \in Seq(Request)
    BY <1>2, <1>5
  <2>2. Len(up[w]) + 1 \in DOMAIN up'[w] /\ up'[w][Len(up[w]) + 1] = m
    BY <2>1
  <2> QED
    BY <1>4, <1>6, <2>2 DEF Sent
<1> QED
  BY <1>1, <1>3, <1>5, <1>6, ReportStays

LEMMA FireWatchReports ==
  ASSUME IInv, NEW v \in Users, FireWatch(v)
  PROVE  ReportsStay
<1> DEFINE m == [origin |-> Watcher, user |-> v, files |-> noticed[v]]
<1>1. UNCHANGED <<up, writing>> /\ noticed' = [noticed EXCEPT ![v] = {}]
  BY DEF FireWatch
<1>2. \/ mutations' = Append(mutations, m) /\ missed' = missed
      \/ mutations' = mutations /\ missed' = missed \union ({v} \X noticed[v])
  BY DEF FireWatch
<1>3. noticed \in [Users -> SUBSET Files]
  BY DEF IInv, QueuesOK
<1>4. m.user = v /\ m.files = noticed[v]
  OBVIOUS
<1> HIDE DEF m
<1> SUFFICES ASSUME NEW u \in Users, NEW f \in Files, Reported(u, f)
             PROVE  Reported(u, f)'
  BY DEF ReportsStay
<1>5. ASSUME f \in noticed[u]
      PROVE  f \in noticed'[u] \/ Queued(u, f)' \/ <<u, f>> \in missed'
  <2>1. CASE u # v
    BY <1>1, <1>3, <1>5, <2>1
  <2>2. CASE u = v
    BY <1>2, <1>4, <1>5, <2>2, QueuedLast
  <2> QED
    BY <2>1, <2>2
<1>6. mutations' = mutations \/ \E n : mutations' = Append(mutations, n)
  BY <1>2
<1>7. <<u, f>> \in missed => <<u, f>> \in missed'
  BY <1>2
<1> QED
  BY <1>1, <1>5, <1>6, <1>7, ReportStays

LEMMA HandledReports ==
  ASSUME IInv, OneWrite, NEW w \in Workers, NEW method, Handling(w, method),
         \/ method # "commitProjectPaths" /\ mutations' = mutations
         \/ HandleCommit(w)
  PROVE  ReportsStay
<1> DEFINE r == Head(up[w])
           m == [origin |-> w, user |-> r.user, files |-> {r.file}]
<1>1. /\ up[w] # << >> /\ r \in Request /\ r.method = method
      /\ \A x \in Workers : up'[x] = IF x = w THEN Tail(up[x]) ELSE up[x]
  BY RequestTaken
<1>2. UNCHANGED <<noticed, missed, writing>>
  BY DEF Handling
<1>3. \/ method # "commitProjectPaths" /\ mutations' = mutations
      \/ mutations' = Append(mutations, m)
  BY DEF HandleCommit
<1> SUFFICES ASSUME NEW u \in Users, NEW f \in Files, Reported(u, f)
             PROVE  Reported(u, f)'
  BY DEF ReportsStay
<1>4. r = Commit(u, f) => method = "commitProjectPaths" /\ m.user = u /\ f \in m.files
  BY <1>1 DEF Commit
<1> HIDE DEF m
<1>5. r = Commit(u, f) => Queued(u, f)'
  BY <1>3, <1>4, QueuedLast
<1>6. mutations' = mutations \/ \E n : mutations' = Append(mutations, n)
  BY <1>3
<1>7. ASSUME NEW x \in Workers
      PROVE  \/ up'[x] = up[x]
             \/ /\ up[x] # << >> /\ up'[x] = Tail(up[x])
                /\ Head(up[x]) = Commit(u, f) => Queued(u, f)'
  BY <1>1, <1>5
<1> QED
  BY <1>2, <1>6, <1>7, ReportStays

(* A step of another kind: the only reports it could take are those of a    *)
(* worker that has committed.                                               *)
LEMMA OtherReports ==
  ASSUME IInv, UNCHANGED <<noticed, missed, mutations>>,
         \A w \in Workers : \/ up'[w] = up[w]
                            \/ \E m : up'[w] = Append(up[w], m),
         \A w \in Workers : writing'[w] = writing[w] \/ writing[w].step # "written"
  PROVE  ReportsStay
<1> SUFFICES ASSUME NEW u \in Users, NEW f \in Files, Reported(u, f)
             PROVE  Reported(u, f)'
  BY DEF ReportsStay
<1>1. \A w \in Workers : writing[w] = Write("written", u, f) => writing'[w] = writing[w]
  BY DEF Write
<1> QED
  BY <1>1, ReportStays

LEMMA AnswerReports ==
  ASSUME IInv, OneWrite, NEW w \in Workers, ResumeAnswer(w) \/ ResumeSync(w)
  PROVE  ReportsStay /\ UNCHANGED <<store, disk, scan>>
<1>0. up \in [Workers -> Seq(Request)] /\ \A x \in Workers : up[x] \in Seq(Request)
  BY QueueTypes
<1>1. CASE ResumeAnswer(w)
  <2>1. PICK a \in TrueAnswer :
          /\ a = Head(tasks[w]) /\ Resuming(w, "answer")
          /\ \/ up' = up /\ Close(w, Cause(a.kind, a.user, a.mark))
             \/ AskForDelta(w, Cause(a.kind, a.user, a.mark)) /\ UNCHANGED writing
    BY <1>1, AnswerResumed
  <2>2. tasks[w] # << >> /\ a \in Down /\ a.type = "answer"
    BY <2>1, TaskTaken
  <2>3. \A x \in Workers : writing'[x] = writing[x] \/ writing[x].step # "written"
    <3>1. a.kind = "write" => writing[w].step = "committing"
      <4>1. markers \in Seq([user : Users, version : Nat])
        BY DEF IInv, PrimaryOK
      <4> QED
        BY <2>1, <2>2, <4>1, MessageToken, TokenMeansCommitting
    <3> QED
      BY <2>1, <3>1, WorkerTypes DEF Close, Cause
  <2>4. \A x \in Workers : up'[x] = up[x] \/ \E m : up'[x] = Append(up[x], m)
    <3>1. up' = up \/ \E m : up' = Send(up, w, m)
      BY <2>1 DEF AskForDelta
    <3>2. ASSUME NEW m, up' = Send(up, w, m), NEW x \in Workers
          PROVE  up'[x] = up[x] \/ up'[x] = Append(up[x], m)
      <4>1. Send(up, w, m)[x] = IF x = w THEN Append(up[x], m) ELSE up[x]
        BY <1>0, SendAt
      <4> QED
        BY <3>2, <4>1
    <3> QED
      BY <3>1, <3>2
  <2>5. UNCHANGED <<noticed, missed, mutations, store, disk, scan>>
    BY <2>1 DEF Resuming
  <2> QED
    BY <2>3, <2>4, <2>5, OtherReports
<1>2. CASE ResumeSync(w)
  <2> DEFINE s == Head(tasks[w])
  <2>1. Resuming(w, "sync") /\ up' = up
    BY <1>2 DEF ResumeSync
  <2>2. tasks[w] # << >> /\ s \in Down /\ s.type = "sync"
    BY <2>1, TaskTaken
  <2>3. IF s.cause.kind = "handler" THEN UNCHANGED <<writing, reading>>
        ELSE Close(w, s.cause)
    BY <1>2 DEF ResumeSync
  <2>4. \A x \in Workers : writing'[x] = writing[x] \/ writing[x].step # "written"
    <3>1. s.cause.kind = "write" => writing[w].step = "committing"
      <4>1. markers \in Seq([user : Users, version : Nat])
        BY DEF IInv, PrimaryOK
      <4> QED
        BY <2>2, <4>1, MessageToken, TokenMeansCommitting
    <3> QED
      BY <2>3, <3>1, WorkerTypes DEF Close
  <2>5. UNCHANGED <<noticed, missed, mutations, store, disk, scan>>
    BY <2>1 DEF Resuming
  <2> QED
    BY <2>1, <2>4, <2>5, OtherReports
<1> QED
  BY <1>1, <1>2

LEMMA ChangedReports ==
  ASSUME IInv, Indexed, NEW u \in Users, NEW f \in Files, ChangeFile(u, f),
         ReportsStay, Reported(u, f)', store' = store
  PROVE  Indexed'
<1>1. disk \in [Users -> SUBSET Files]
  BY DEF IInv, PrimaryOK
<1>2. \A v \in Users, g \in Files : <<v, g>> # <<u, f>> =>
        (g \in disk'[v] <=> g \in disk[v])
  BY <1>1 DEF ChangeFile
<1>3. Tracked'
  <2> SUFFICES ASSUME NEW v \in Users, NEW g \in Files,
                      Current(store'[v]), Differs(v, g)'
               PROVE  Reported(v, g)'
    BY DEF Tracked
  <2>1. CASE <<v, g>> = <<u, f>>
    BY <2>1
  <2>2. CASE <<v, g>> # <<u, f>>
    <3>1. Differs(v, g) /\ Current(store[v])
      BY <1>2, <2>2 DEF Differs
    <3> QED
      BY <3>1 DEF Indexed, Tracked, ReportsStay
  <2> QED
    BY <2>1, <2>2
<1>4. Touched'
  <2>1. CASE Idle'
    BY <2>1 DEF Touched
  <2>2. CASE ~Idle'
    <3>1. ~Idle
      BY <2>2 DEF ChangeFile, Idle
    <3>2. /\ scan'.user = scan.user /\ scan'.start = scan.start
          /\ scan'.touched = IF scan.user = u THEN scan.touched \union {f}
                             ELSE scan.touched
      BY <3>1 DEF ChangeFile, Walk
    <3> PICK v \in Users : v = scan.user
      BY <3>1 DEF IInv, QueuesOK, Idle
    <3>3. ASSUME NEW g \in Files
          PROVE  /\ g \in scan'.touched => Reported(v, g)'
                 /\ ~(g \in scan'.start <=> g \in disk'[v]) => g \in scan'.touched
      <4>1. /\ g \in scan.touched => Reported(v, g)
            /\ ~(g \in scan.start <=> g \in disk[v]) => g \in scan.touched
        BY <3>1 DEF Indexed, Touched
      <4>2. g \in scan.touched => Reported(v, g)'
        BY <4>1 DEF ReportsStay
      <4>3. CASE v = u /\ g = f
        BY <3>2, <4>3
      <4>4. CASE ~(v = u /\ g = f)
        <5>1. g \in disk'[v] <=> g \in disk[v]
          BY <1>2, <4>4
        <5> QED
          BY <3>2, <4>1, <4>2, <4>4, <5>1
      <4> QED
        BY <4>3, <4>4
    <3> QED
      BY <3>2, <3>3 DEF Touched, Reported
  <2> QED
    BY <2>1, <2>2
<1> QED
  BY <1>3, <1>4 DEF Indexed, Owned

LEMMA WriteFileReports ==
  ASSUME IInv, Indexed, NEW w \in Workers, NEW u \in Users, NEW f \in Files,
         WriteFile(w, u, f)
  PROVE  Indexed'
<1>1. UNCHANGED <<up, mutations, missed, store>> /\ ChangeFile(u, f)
  BY DEF WriteFile
<1>2. writing[w] = NoWrite /\ writing'[w] = Write("written", u, f)
      /\ \A x \in Workers : x # w => writing'[x] = writing[x]
  BY WorkerTypes DEF WriteFile
<1>3. noticed \in [Users -> SUBSET Files]
  BY DEF IInv, QueuesOK
<1>4. \A v \in Users : noticed[v] \subseteq noticed'[v]
  BY <1>1, <1>3 DEF ChangeFile
<1>5. ReportsStay
  <2> SUFFICES ASSUME NEW v \in Users, NEW g \in Files, Reported(v, g)
               PROVE  Reported(v, g)'
    BY DEF ReportsStay
  <2>1. \A x \in Workers : writing[x] = Write("written", v, g) => writing'[x] = writing[x]
    BY <1>2 DEF NoWrite, Write
  <2> QED
    BY <1>1, <1>4, <2>1, ReportStays
<1>6. Reported(u, f)'
  BY <1>2 DEF Reported
<1> QED
  BY <1>1, <1>5, <1>6, ChangedReports

LEMMA ForeignReports ==
  ASSUME IInv, Indexed, NEW u \in Users, NEW f \in Files, ForeignChange(u, f)
  PROVE  Indexed'
<1>1. UNCHANGED <<up, mutations, writing, store>> /\ ChangeFile(u, f)
  BY DEF ForeignChange
<1>2. missed' = IF u \in watched THEN missed ELSE missed \union {<<u, f>>}
  BY DEF ForeignChange
<1>3. noticed \in [Users -> SUBSET Files]
  BY DEF IInv, QueuesOK
<1>4. \A v \in Users : noticed[v] \subseteq noticed'[v]
  BY <1>1, <1>3 DEF ChangeFile
<1>5. ReportsStay
  <2> SUFFICES ASSUME NEW v \in Users, NEW g \in Files, Reported(v, g)
               PROVE  Reported(v, g)'
    BY DEF ReportsStay
  <2> QED
    BY <1>1, <1>2, <1>4, ReportStays
<1>6. Reported(u, f)'
  <2>1. u \in watched => f \in noticed'[u]
    BY <1>1, <1>3 DEF ChangeFile
  <2> QED
    BY <1>2, <2>1 DEF Reported
<1> QED
  BY <1>1, <1>5, <1>6, ChangedReports

LEMMA StartScanReports ==
  ASSUME IInv, Indexed, NEW u \in Users, StartScan(u)
  PROVE  Indexed'
<1>1. UNCHANGED <<store, disk, noticed, missed, mutations, writing, up>>
  BY DEF StartScan
<1>2. scan'.user = u /\ scan'.start = disk[u] /\ scan'.touched = {}
  BY DEF StartScan, Walk
<1>3. ReportsStay
  BY <1>1, OtherReports
<1>4. Tracked'
  BY <1>1, <1>3 DEF Tracked, Indexed, ReportsStay, Differs
<1>5. Touched'
  BY <1>1, <1>2 DEF Touched
<1> QED
  BY <1>1, <1>4, <1>5 DEF Indexed, Owned

(* The head of the queue runs: its own paths are read again, every other    *)
(* report is kept.                                                          *)
LEMMA RunMutationReports ==
  ASSUME IInv, Indexed, RunMutation
  PROVE  Indexed'
<1>1. PICK m \in Mutations :
        /\ mutations # << >> /\ m = Head(mutations)
        /\ mutations' = Tail(mutations) /\ Idle
        /\ missed' = missed \ ({m.user} \X m.files)
        /\ UNCHANGED <<disk, scan, noticed, up, writing>>
        /\ \/ Replace(m.user, Synced(m.user, m.files), store[m.user].full)
           \/ ~Touches(m.user, m.files) /\ store' = store
  BY MutationRuns
<1>2. mutations \in Seq(Mutations) /\ store \in [Users -> Shard]
      /\ disk \in [Users -> SUBSET Files]
  BY QueueTypes DEF IInv, PrimaryOK
<1>3. m.user \in Users /\ m.files \subseteq Files
  BY DEF Mutations
<1>4. ASSUME NEW v \in Users, NEW g \in Files, ~(v = m.user /\ g \in m.files),
             Reported(v, g)
      PROVE  Reported(v, g)'
  <2>1. Queued(v, g) => Queued(v, g)'
    <3> SUFFICES ASSUME NEW i \in DOMAIN mutations, mutations[i].user = v,
                        g \in mutations[i].files
                 PROVE  Queued(v, g)'
      BY DEF Queued
    <3>1. i # 1
      BY <1>1, <1>2, <1>4
    <3>2. i - 1 \in DOMAIN mutations' /\ mutations'[i - 1] = mutations[i]
      BY <1>1, <1>2, <3>1, StaysInTail
    <3> QED
      BY <3>2 DEF Queued
  <2>2. <<v, g>> \in missed => <<v, g>> \in missed'
    BY <1>1, <1>4
  <2>3. UNCHANGED <<noticed, up, writing>>
    BY <1>1
  <2> QED
    BY <1>4, <2>1, <2>2, <2>3 DEF Reported, Queued
<1>5. ASSUME NEW v \in Users, Current(store'[v])
      PROVE  /\ Current(store[v])
             /\ \A g \in Files :
                  ~(v = m.user /\ g \in m.files) =>
                    (g \in store'[v].files <=> g \in store[v].files)
             /\ v = m.user => \A g \in m.files : ~Differs(v, g)'
  <2>0. store[v].stale = FALSE
    BY DEF Indexed, Owned
  <2>1. CASE Replace(m.user, Synced(m.user, m.files), store[m.user].full)
    <3>1. store' = [store EXCEPT ![m.user] =
                      ShardOf(Synced(m.user, m.files),
                              Synced(m.user, m.files) # {} /\ store[m.user].full,
                              FALSE, counter + 1)]
      BY <2>1 DEF Replace
    <3>2. CASE v # m.user
      BY <1>2, <1>5, <3>1, <3>2
    <3>3. CASE v = m.user
      <4>1. store'[v] = ShardOf(Synced(v, m.files),
                              Synced(v, m.files) # {} /\ store[v].full,
                              FALSE, counter + 1)
        BY <1>2, <3>1, <3>3
      <4>2. /\ store'[v].full = (Synced(v, m.files) # {} /\ store[v].full)
            /\ store'[v].files = Synced(v, m.files)
        BY <4>1 DEF ShardOf
      <4>3. store'[v].full
        BY <1>5 DEF Current
      <4>4. store[v].full
        BY <4>2, <4>3
      <4>5. store[v].files \subseteq Files
        BY <1>2 DEF Shard
      <4>6. Current(store[v])
        BY <2>0, <4>4 DEF Current
      <4>7. \A g \in m.files : ~Differs(v, g)'
        BY <1>1, <4>2 DEF Synced, Differs
      <4> QED
        BY <3>3, <4>2, <4>6, <4>7 DEF Synced
    <3> QED
      BY <3>2, <3>3
  <2>2. CASE ~Touches(m.user, m.files) /\ store' = store
    BY <1>1, <1>5, <2>2 DEF Touches, Differs
  <2> QED
    BY <1>1, <2>1, <2>2
<1>6. Tracked'
  <2> SUFFICES ASSUME NEW v \in Users, NEW g \in Files,
                      Current(store'[v]), Differs(v, g)'
               PROVE  Reported(v, g)'
    BY DEF Tracked
  <2>1. ~(v = m.user /\ g \in m.files)
    BY <1>5
  <2>2. Current(store[v]) /\ Differs(v, g)
    BY <1>1, <1>5, <2>1 DEF Differs
  <2> QED
    BY <1>4, <2>1, <2>2 DEF Indexed, Tracked
<1>7. Touched'
  BY <1>1 DEF Touched, Idle
<1>8. Owned'
  <2>1. \/ store' = store
        \/ \E files, full : store' = [store EXCEPT ![m.user] =
                                        ShardOf(files, full, FALSE, counter + 1)]
    BY <1>1 DEF Replace
  <2>2. ASSUME NEW files, NEW full,
               store' = [store EXCEPT ![m.user] =
                           ShardOf(files, full, FALSE, counter + 1)],
               NEW v \in Users
        PROVE  store'[v].stale = FALSE
    <3>1. store[v].stale = FALSE
      BY DEF Indexed, Owned
    <3>2. ShardOf(files, full, FALSE, counter + 1).stale = FALSE
      BY DEF ShardOf
    <3> QED
      BY <1>2, <2>2, <3>1, <3>2
  <2> QED
    BY <2>1, <2>2 DEF Indexed, Owned
<1> QED
  BY <1>6, <1>7, <1>8 DEF Indexed

(* A walk ends: what it found agrees with the disk but for the files that   *)
(* changed under it, and only reports of other files are dropped.           *)
LEMMA FinishScanReports ==
  ASSUME IInv, Indexed, FinishScan
  PROVE  Indexed'
<1>1. PICK u \in Users, found \in SUBSET Files :
        /\ u = scan.user
        /\ \A f \in Files : f \notin scan.touched => (f \in found <=> f \in scan.start)
        /\ IF found # store[u].files \/ found = {}
           THEN Replace(u, found, TRUE)
           ELSE /\ store' = [store EXCEPT ![u] =
                               ShardOf(found, TRUE, FALSE, store[u].version)]
                /\ UNCHANGED <<counter, published>>
        /\ missed' = {m \in missed : m[1] = u => m[2] \in scan.touched}
  BY ScanEnds
<1>2. /\ UNCHANGED <<disk, mutations, noticed, up, writing>>
      /\ ~Idle /\ scan' = NoScan
  BY DEF FinishScan
<1>3. store \in [Users -> Shard]
  BY DEF IInv, PrimaryOK
<1>4. \E full, version :
        store' = [store EXCEPT ![u] = ShardOf(found, full, FALSE, version)]
  BY <1>1 DEF Replace
<1> PICK full, version :
      store' = [store EXCEPT ![u] = ShardOf(found, full, FALSE, version)]
  BY <1>4
<1>5. \A v \in Users : v # u => store'[v] = store[v]
  BY <1>3
<1>6. store'[u].files = found /\ store'[u].stale = FALSE
  BY <1>3 DEF ShardOf
<1>7. ASSUME NEW v \in Users, NEW g \in Files, Reported(v, g),
             v = u => g \in scan.touched
      PROVE  Reported(v, g)'
  <2>1. <<v, g>> \in missed => <<v, g>> \in missed'
    BY <1>1, <1>7
  <2> QED
    BY <1>2, <1>7, <2>1 DEF Reported
<1>8. Tracked'
  <2> SUFFICES ASSUME NEW v \in Users, NEW g \in Files,
                      Current(store'[v]), Differs(v, g)'
               PROVE  Reported(v, g)'
    BY DEF Tracked
  <2>1. CASE v # u
    <3>1. Current(store[v]) /\ Differs(v, g)
      BY <1>2, <1>5, <2>1 DEF Differs
    <3> QED
      BY <1>7, <2>1, <3>1 DEF Indexed, Tracked
  <2>2. CASE v = u
    <3>1. ~(g \in found <=> g \in disk[u])
      BY <1>2, <1>6, <2>2 DEF Differs
    <3>2. g \in scan.touched
      BY <1>1, <1>2, <3>1 DEF Indexed, Touched
    <3>3. Reported(v, g)
      BY <1>1, <1>2, <2>2, <3>2 DEF Indexed, Touched
    <3> QED
      BY <1>7, <3>2, <3>3
  <2> QED
    BY <2>1, <2>2
<1>9. Touched'
  BY <1>2 DEF Touched, Idle
<1>10. Owned'
  BY <1>5, <1>6 DEF Indexed, Owned
<1> QED
  BY <1>8, <1>9, <1>10 DEF Indexed

LEMMA InitIndexed == Init => Indexed
<1> SUFFICES ASSUME Init
             PROVE  Indexed
  OBVIOUS
<1>1. \A u \in Users : store[u].stale = FALSE /\ ~Current(store[u])
  BY DEF Init, NoShard, ShardOf, Current
<1> QED
  BY <1>1 DEF Init, Indexed, Owned, Tracked, Touched, Idle

LEMMA NextIndexed == IInv /\ OneWrite /\ Indexed /\ [Next]_vars => Indexed'
<1> SUFFICES ASSUME IInv, OneWrite, Indexed, [Next]_vars
             PROVE  Indexed'
  OBVIOUS
<1>1. CASE RunMutation
  BY <1>1, RunMutationReports
<1>2. CASE FinishScan
  BY <1>2, FinishScanReports
<1>3. CASE ReloadConfig \/ SendAnswer
  <2>1. UNCHANGED <<noticed, missed, mutations, up, writing, store, disk, scan>>
    BY <1>3 DEF ReloadConfig, SendAnswer
  <2>2. ReportsStay
    BY <2>1, OtherReports
  <2> QED
    BY <2>1, <2>2, IndexedStays
<1>4. ASSUME NEW u \in Users, FireWatch(u)
      PROVE  Indexed'
  <2>1. UNCHANGED <<store, disk, scan>>
    BY <1>4 DEF FireWatch
  <2> QED
    BY <1>4, <2>1, FireWatchReports, IndexedStays
<1>5. ASSUME NEW u \in Users, StartScan(u)
      PROVE  Indexed'
  BY <1>5, StartScanReports
<1>6. ASSUME NEW w \in Workers,
             HandleCommit(w) \/ HandleEnsureLoaded(w) \/ HandleSync(w)
      PROVE  Indexed'
  <2>1. PICK method : Handling(w, method) /\
               (\/ method # "commitProjectPaths" /\ mutations' = mutations
                \/ HandleCommit(w))
    <3>1. CASE HandleCommit(w)
      BY <3>1 DEF HandleCommit
    <3>2. CASE HandleEnsureLoaded(w)
      <4>1. Handling(w, "ensureFileIndexShardLoaded") /\ mutations' = mutations
        BY <3>2 DEF HandleEnsureLoaded
      <4> QED
        BY <4>1
    <3>3. CASE HandleSync(w)
      <4>1. Handling(w, "getDeltaSince") /\ mutations' = mutations
        BY <3>3 DEF HandleSync
      <4> QED
        BY <4>1
    <3> QED
      BY <1>6, <3>1, <3>2, <3>3
  <2>2. UNCHANGED <<store, disk, scan>>
    BY <2>1 DEF Handling
  <2>3. ReportsStay
    BY <2>1, HandledReports
  <2> QED
    BY <2>2, <2>3, IndexedStays
<1>7. ASSUME NEW w \in Workers, Worker(w)
      PROVE  Indexed'
  <2>1. CASE CommitWrite(w)
    <3>1. UNCHANGED <<store, disk, scan>>
      BY <2>1 DEF CommitWrite
    <3> QED
      BY <2>1, <3>1, CommitWriteReports, IndexedStays
  <2>2. CASE ReceiveMarker(w) \/ ReceiveSnapshot(w) \/ ReceiveAnswer(w)
    <3>1. \E type : Receiving(w, type)
      BY <2>2 DEF ReceiveMarker, ReceiveSnapshot, ReceiveAnswer
    <3>2. UNCHANGED <<noticed, missed, mutations, writing, store, disk, scan>>
      BY <3>1 DEF Receiving
    <3>3. \A x \in Workers : up'[x] = up[x] \/ \E m : up'[x] = Append(up[x], m)
      <4>1. up' = up \/ \E m : up' = Send(up, w, m)
        BY <2>2 DEF ReceiveMarker, ReceiveSnapshot, ReceiveAnswer, AskForDelta
      <4>2. ASSUME NEW m, up' = Send(up, w, m), NEW x \in Workers
            PROVE  up'[x] = up[x] \/ up'[x] = Append(up[x], m)
        <5>1. up \in [Workers -> Seq(Request)]
          BY QueueTypes
        <5>2. Send(up, w, m)[x] = IF x = w THEN Append(up[x], m) ELSE up[x]
          BY <5>1, SendAt
        <5> QED
          BY <4>2, <5>2
      <4> QED
        BY <4>1, <4>2
    <3>4. ReportsStay
      BY <3>2, <3>3, OtherReports
    <3> QED
      BY <3>2, <3>4, IndexedStays
  <2>3. CASE ResumeAnswer(w) \/ ResumeSync(w)
    BY <2>3, AnswerReports, IndexedStays
  <2>4. ASSUME NEW u \in Users, Read(w, u)
        PROVE  Indexed'
    <3>1. UNCHANGED <<noticed, missed, mutations, writing, store, disk, scan>>
      BY <2>4 DEF Read
    <3> DEFINE m == [method |-> "ensureFileIndexShardLoaded", user |-> u,
                     known |-> shards[w][u].version]
    <3>2. up' = Send(up, w, m)
      BY <2>4 DEF Read
    <3> HIDE DEF m
    <3>3. \A x \in Workers : up'[x] = up[x] \/ \E n : up'[x] = Append(up[x], n)
      <4>1. up \in [Workers -> Seq(Request)]
        BY QueueTypes
      <4>2. \A x \in Workers : Send(up, w, m)[x] = IF x = w THEN Append(up[x], m)
                                                   ELSE up[x]
        BY <4>1, SendAt
      <4> QED
        BY <3>2, <4>2
    <3>4. ReportsStay
      BY <3>1, <3>3, OtherReports
    <3> QED
      BY <3>1, <3>4, IndexedStays
  <2>5. ASSUME NEW u \in Users, NEW f \in Files, WriteFile(w, u, f)
        PROVE  Indexed'
    BY <2>5, WriteFileReports
  <2> QED
    BY <1>7, <2>1, <2>2, <2>3, <2>4, <2>5 DEF Worker
<1>8. ASSUME NEW u \in Users, NEW f \in Files, ForeignChange(u, f)
      PROVE  Indexed'
  BY <1>8, ForeignReports
<1>9. CASE UNCHANGED vars
  <2>1. UNCHANGED <<noticed, missed, mutations, up, writing, store, disk, scan>>
    BY <1>9 DEF vars
  <2>2. ReportsStay
    BY <2>1, OtherReports
  <2> QED
    BY <2>1, <2>2, IndexedStays
<1> QED
  BY <1>1, <1>2, <1>3, <1>4, <1>5, <1>6, <1>7, <1>8, <1>9 DEF Next, Primary

(* Every report is under way: a commit that the primary has not handled is  *)
(* one of a write that is open.                                             *)
LEMMA ReportedIsUnderWay ==
  ASSUME OneWrite, NEW u \in Users, NEW f \in Files, Reported(u, f)
  PROVE  UnderWay(u, f)
<1>1. ASSUME NEW w \in Workers, Sent(w, u, f)
      PROVE  writing[w] = Write("committing", u, f)
  <2>1. PICK i \in DOMAIN up[w] : up[w][i] = Commit(u, f)
    BY <1>1 DEF Sent
  <2>2. Commit(u, f) \in Commits /\ Commit(u, f).user = u /\ Commit(u, f).file = f
    BY DEF Commit, Commits
  <2> QED
    BY <2>1, <2>2 DEF OneWrite, OneWriteOf, CommitsMatch
<1> QED
  BY <1>1 DEF Reported, UnderWay, Sent, NoWrite, Write

(* A shard the primary serves as current lists a file otherwise than the    *)
(* disk only as long as a change of that file is noticed, queued, written   *)
(* and not yet answered, or was made where nobody watches.                  *)
THEOREM DiskIsTracked == Spec => []IndexTracksDisk
<1>1. Init => OneWrite /\ Indexed
  BY InitOneWrite, InitIndexed
<1>2. IInv /\ OneWrite /\ Indexed /\ [Next]_vars => OneWrite' /\ Indexed'
  BY NextOneWrite, NextIndexed
<1>3. OneWrite /\ Indexed => IndexTracksDisk
  <2> SUFFICES ASSUME OneWrite, Indexed, NEW u \in Users, NEW f \in Files,
                      Current(store[u]), ~(f \in store[u].files <=> f \in disk[u])
               PROVE  UnderWay(u, f)
    BY DEF IndexTracksDisk
  <2>1. Reported(u, f)
    BY DEF Indexed, Tracked, Differs
  <2> QED
    BY <2>1, ReportedIsUnderWay
<1> QED
  BY <1>1, <1>2, <1>3, ShardInvariance, PTL DEF Spec
-----------------------------------------------------------------------------
(* Copies on their way.  An answer carries the copies of one user's shard.  *)
Carries(m, u, v) ==
  m.type = "answer" /\ m.user = u /\ \E c \in m.copies : c.version = v

NotNewer(m, n) ==
  \A u \in Users, x, y \in Nat : Carries(m, u, x) /\ Carries(n, u, y) => x <= y

(* What is sent first is not newer than what is sent after it.              *)
Ascending(q) == \A i, j \in DOMAIN q : i < j => NotNewer(q[i], q[j])
Precedes(q, r) == \A i \in DOMAIN q, j \in DOMAIN r : NotNewer(q[i], r[j])

Answers(q) == [i \in DOMAIN q |-> q[i].answer]

InLine(t, d, a) ==
  /\ Ascending(t) /\ Ascending(d) /\ Ascending(a)
  /\ Precedes(t, d) /\ Precedes(t, a) /\ Precedes(d, a)

(* No message carries more than the primary has, a write's answer carries   *)
(* what its marker says, and a delta reaches the marker it was asked for.   *)
Sound(m, stored, marked) ==
  /\ \A u \in Users, x \in Nat : Carries(m, u, x) => x <= stored[u].version
  /\ m.type = "answer" /\ m.kind = "write" /\ m.mark > 0 =>
       /\ marked[m.mark].user = m.user
       /\ m.copies # {}
       /\ \A c \in m.copies : c.version = marked[m.mark].version
  /\ m.type = "sync" /\ m.cause.kind = "write" => m.cause.mark <= m.to

AllSound(q, stored, marked) == \A i \in DOMAIN q : Sound(q[i], stored, marked)

(* Nothing on its way to w is older than version v of u's shard.            *)
NoneOlder(q, u, v) ==
  \A i \in DOMAIN q, x \in Nat : Carries(q[i], u, x) => v <= x

NoneBehind(t, d, a, u, v) ==
  NoneOlder(t, u, v) /\ NoneOlder(d, u, v) /\ NoneOlder(a, u, v)

Reaches(w, u, v) ==
  /\ v <= store[u].version
  /\ NoneBehind(tasks[w], down[w], Answers(unsent), u, v)

Serves(w, u, v) == Current(shards[w][u]) => v <= shards[w][u].version

(* A write whose marker the replica lacked is open until its delta is here. *)
AskedOf(q, c) ==
  \E i \in DOMAIN q : q[i].method = "getDeltaSince" /\ q[i].cause = c
AnsweredIn(q, c) == \E i \in DOMAIN q : q[i].type = "sync" /\ q[i].cause = c

Asked(w, c) ==
  AskedOf(up[w], c) \/ AnsweredIn(down[w], c) \/ AnsweredIn(tasks[w], c)

Promised(w, c) ==
  c.kind = "write" /\ c.mark > 0 =>
    /\ markers[c.mark].user = c.user
    /\ Reaches(w, c.user, markers[c.mark].version)
    /\ c.mark <= position[w] => Serves(w, c.user, markers[c.mark].version)

Acked(w) ==
  \A u \in Users : /\ acked[w][u] \in Nat
                   /\ Reaches(w, u, acked[w][u]) /\ Serves(w, u, acked[w][u])

Listed(w) == \A u \in Users : shards[w][u].full => shards[w][u].files # {}

Flight(w) ==
  /\ InLine(tasks[w], down[w], Answers(unsent))
  /\ AllSound(tasks[w], store, markers) /\ AllSound(down[w], store, markers)
  /\ AllSound(Answers(unsent), store, markers)

Served(w) ==
  /\ Acked(w) /\ Listed(w)
  /\ \A c \in Causes : Asked(w, c) => Promised(w, c)

InFlight == \A w \in Workers : Flight(w)

AckedOK ==
  /\ acked \in [Workers -> [Users -> Nat]]
  /\ \A w \in Workers : Served(w)
-----------------------------------------------------------------------------
(* Queues of messages, in order.                                            *)
Quiet(m) == m.type # "answer"

LEMMA QuietCarries ==
  ASSUME NEW m, Quiet(m), NEW u, NEW v
  PROVE  ~Carries(m, u, v)
BY DEF Quiet, Carries

LEMMA AscendingTail ==
  ASSUME NEW S, NEW q \in Seq(S), q # << >>, Ascending(q)
  PROVE  /\ Ascending(Tail(q))
         /\ \A j \in DOMAIN Tail(q) : NotNewer(Head(q), Tail(q)[j])
<1>1. \A i \in DOMAIN Tail(q) : /\ i \in Nat /\ 1 < i + 1 /\ i + 1 \in DOMAIN q
                                /\ Tail(q)[i] = q[i + 1]
  OBVIOUS
<1>2. \A i, j \in DOMAIN Tail(q) : i < j => i + 1 < j + 1
  OBVIOUS
<1>3. 1 \in DOMAIN q /\ Head(q) = q[1]
  OBVIOUS
<1> QED
  BY <1>1, <1>2, <1>3 DEF Ascending

LEMMA AscendingAppend ==
  ASSUME NEW S, NEW q \in Seq(S), NEW m, Ascending(q),
         \A i \in DOMAIN q : NotNewer(q[i], m)
  PROVE  Ascending(Append(q, m))
<1>1. \A i \in DOMAIN Append(q, m) :
        /\ i \in Nat
        /\ \/ i \in DOMAIN q /\ Append(q, m)[i] = q[i]
           \/ i = Len(q) + 1 /\ Append(q, m)[i] = m
  OBVIOUS
<1>2. \A i \in DOMAIN q : i < Len(q) + 1 /\ i \in Nat
  OBVIOUS
<1>3. Len(q) \in Nat
  OBVIOUS
<1>4. ASSUME NEW i \in DOMAIN Append(q, m), NEW j \in DOMAIN Append(q, m), i < j
      PROVE  NotNewer(Append(q, m)[i], Append(q, m)[j])
  <2>1. i \in DOMAIN q /\ Append(q, m)[i] = q[i]
    BY <1>1, <1>2, <1>3, <1>4
  <2> QED
    BY <1>1, <1>4, <2>1 DEF Ascending
<1> QED
  BY <1>4 DEF Ascending

LEMMA PrecedesTail ==
  ASSUME NEW S, NEW q \in Seq(S), q # << >>, NEW r
  PROVE  /\ Precedes(q, r) => Precedes(Tail(q), r)
         /\ Precedes(r, q) => Precedes(r, Tail(q))
         /\ Precedes(q, r) => \A j \in DOMAIN r : NotNewer(Head(q), r[j])
         /\ Precedes(r, q) => \A i \in DOMAIN r : NotNewer(r[i], Head(q))
<1>1. \A i \in DOMAIN Tail(q) : i + 1 \in DOMAIN q /\ Tail(q)[i] = q[i + 1]
  OBVIOUS
<1>2. 1 \in DOMAIN q /\ Head(q) = q[1]
  OBVIOUS
<1> QED
  BY <1>1, <1>2 DEF Precedes

LEMMA PrecedesAppend ==
  ASSUME NEW S, NEW q \in Seq(S), NEW m, NEW r
  PROVE  /\ Precedes(q, r) /\ (\A j \in DOMAIN r : NotNewer(m, r[j]))
              => Precedes(Append(q, m), r)
         /\ Precedes(r, q) /\ (\A i \in DOMAIN r : NotNewer(r[i], m))
              => Precedes(r, Append(q, m))
<1>1. \A i \in DOMAIN Append(q, m) :
        \/ i \in DOMAIN q /\ Append(q, m)[i] = q[i]
        \/ Append(q, m)[i] = m
  OBVIOUS
<1> QED
  BY <1>1 DEF Precedes

LEMMA SoundTail ==
  ASSUME NEW S, NEW q \in Seq(S), q # << >>, NEW st, NEW ms, AllSound(q, st, ms)
  PROVE  AllSound(Tail(q), st, ms) /\ Sound(Head(q), st, ms)
<1>1. \A i \in DOMAIN Tail(q) : i + 1 \in DOMAIN q /\ Tail(q)[i] = q[i + 1]
  OBVIOUS
<1>2. 1 \in DOMAIN q /\ Head(q) = q[1]
  OBVIOUS
<1> QED
  BY <1>1, <1>2 DEF AllSound

LEMMA SoundAppend ==
  ASSUME NEW S, NEW q \in Seq(S), NEW st, NEW ms, NEW m,
         AllSound(q, st, ms), Sound(m, st, ms)
  PROVE  AllSound(Append(q, m), st, ms)
<1>1. \A i \in DOMAIN Append(q, m) :
        \/ i \in DOMAIN q /\ Append(q, m)[i] = q[i]
        \/ Append(q, m)[i] = m
  OBVIOUS
<1> QED
  BY <1>1 DEF AllSound

LEMMA OlderTail ==
  ASSUME NEW S, NEW q \in Seq(S), q # << >>, NEW u, NEW v, NoneOlder(q, u, v)
  PROVE  /\ NoneOlder(Tail(q), u, v)
         /\ \A x \in Nat : Carries(Head(q), u, x) => v <= x
<1>1. \A i \in DOMAIN Tail(q) : i + 1 \in DOMAIN q /\ Tail(q)[i] = q[i + 1]
  OBVIOUS
<1>2. 1 \in DOMAIN q /\ Head(q) = q[1]
  OBVIOUS
<1> QED
  BY <1>1, <1>2 DEF NoneOlder

LEMMA OlderAppend ==
  ASSUME NEW S, NEW q \in Seq(S), NEW m, NEW u, NEW v, NoneOlder(q, u, v),
         \A x \in Nat : Carries(m, u, x) => v <= x
  PROVE  NoneOlder(Append(q, m), u, v)
<1>1. \A i \in DOMAIN Append(q, m) :
        \/ i \in DOMAIN q /\ Append(q, m)[i] = q[i]
        \/ Append(q, m)[i] = m
  OBVIOUS
<1> QED
  BY <1>1 DEF NoneOlder

LEMMA AnswersForm ==
  ASSUME NEW T, NEW q \in Seq([worker : Workers, answer : T])
  PROVE  /\ Answers(q) \in Seq(T) /\ Len(Answers(q)) = Len(q)
         /\ \A i \in 1..Len(q) : Answers(q)[i] = q[i].answer
<1> DEFINE R == [worker : Workers, answer : T]
<1>0. q \in Seq(R) /\ \A r \in R : r.answer \in T
  OBVIOUS
<1> HIDE DEF R
<1>1. /\ DOMAIN q = 1..Len(q) /\ Len(q) \in Nat
      /\ \A i \in 1..Len(q) : q[i] \in R
  BY <1>0
<1>2. Answers(q) \in [1..Len(q) -> T]
  BY <1>0, <1>1 DEF Answers
<1> QED
  BY <1>1, <1>2 DEF Answers

LEMMA AnswersOf ==
  ASSUME NEW q \in Seq(Unsent)
  PROVE  /\ Answers(q) \in Seq(TrueAnswer) /\ Len(Answers(q)) = Len(q)
         /\ \A x \in Unsent : Answers(Append(q, x)) = Append(Answers(q), x.answer)
         /\ q # << >> => /\ Answers(q) # << >> /\ Head(Answers(q)) = Head(q).answer
                         /\ Answers(Tail(q)) = Tail(Answers(q))
<1>1. Answers(q) \in Seq(TrueAnswer) /\ Len(Answers(q)) = Len(q)
  BY AnswersForm DEF Unsent
<1>2. ASSUME NEW x \in Unsent
      PROVE  Answers(Append(q, x)) = Append(Answers(q), x.answer)
  <2>1. x.answer \in TrueAnswer
    BY DEF Unsent
  <2>2. Append(q, x) \in Seq(Unsent)
    OBVIOUS
  <2>3. Answers(Append(q, x)) \in Seq(TrueAnswer)
    BY <2>2, AnswersForm DEF Unsent
  <2>4. Append(Answers(q), x.answer) \in Seq(TrueAnswer)
    BY <1>1, <2>1
  <2>5. Len(Answers(Append(q, x))) = Len(q) + 1
        /\ Len(Append(Answers(q), x.answer)) = Len(q) + 1
    BY <1>1, <2>1 DEF Answers
  <2>6. \A i \in 1..(Len(q) + 1) : Answers(Append(q, x))[i] = Append(Answers(q), x.answer)[i]
    BY <1>1, <2>1 DEF Answers
  <2> QED
    BY <2>3, <2>4, <2>5, <2>6
<1>3. ASSUME q # << >>
      PROVE  /\ Answers(q) # << >> /\ Head(Answers(q)) = Head(q).answer
             /\ Answers(Tail(q)) = Tail(Answers(q))
  <2>1. Answers(q) # << >>
    BY <1>1, <1>3
  <2>2. Head(Answers(q)) = Head(q).answer
    BY <1>1, <1>3, <2>1 DEF Answers
  <2>3. Tail(q) \in Seq(Unsent) /\ Len(Tail(q)) = Len(q) - 1
    BY <1>3
  <2>4. Answers(Tail(q)) \in Seq(TrueAnswer) /\ Len(Answers(Tail(q))) = Len(q) - 1
    BY <2>3, AnswersForm DEF Unsent
  <2>5. Tail(Answers(q)) \in Seq(TrueAnswer) /\ Len(Tail(Answers(q))) = Len(q) - 1
    BY <1>1, <2>1
  <2>6. \A i \in 1..(Len(q) - 1) : Answers(Tail(q))[i] = Tail(Answers(q))[i]
    BY <1>1, <1>3, <2>1, <2>3 DEF Answers
  <2> QED
    BY <2>1, <2>2, <2>4, <2>5, <2>6
<1> QED
  BY <1>1, <1>2, <1>3
-----------------------------------------------------------------------------
(* The primary only adds versions and markers.                              *)
Advances ==
  /\ \A u \in Users : store[u].version <= store'[u].version
  /\ \A n \in 1..Len(markers) : markers'[n] = markers[n]

LEMMA StoredVersions ==
  ASSUME IInv
  PROVE  /\ store \in [Users -> Shard] /\ counter \in Nat
         /\ markers \in Seq([user : Users, version : Nat])
         /\ \A u \in Users : store[u].version \in Nat /\ store[u].version <= counter
<1>1. PrimaryOK
  BY DEF IInv
<1>2. \A u \in Users : store[u] \in TrueShard(u) /\ store[u].version \in Nat
  BY <1>1, ShardFields DEF PrimaryOK
<1>3. ASSUME NEW u \in Users
      PROVE  store[u].version <= counter
  <2>1. store[u].version > 0 => store[u].version <= counter
    BY <1>2 DEF TrueShard
  <2>2. counter \in Nat /\ store[u].version \in Nat
    BY <1>1, <1>2 DEF PrimaryOK
  <2> QED
    BY <2>1, <2>2
<1> QED
  BY <1>1, <1>2, <1>3 DEF PrimaryOK

LEMMA ReplaceAdvances ==
  ASSUME IInv, NEW u \in Users, NEW files, NEW full, Replace(u, files, full),
         CommitMarker(u) \/ markers' = markers
  PROVE  Advances /\ store'[u].version = counter + 1
<1>1. store' = [store EXCEPT ![u] = ShardOf(files, files # {} /\ full, FALSE,
                                            counter + 1)]
  BY DEF Replace
<1>2. \A v \in Users : store'[v].version = IF v = u THEN counter + 1
                                           ELSE store[v].version
  BY <1>1, StoredVersions DEF ShardOf
<1>3. \A v \in Users : store[v].version <= store'[v].version
  BY <1>2, StoredVersions
<1>4. \A n \in 1..Len(markers) : markers'[n] = markers[n]
  BY StoredVersions DEF CommitMarker
<1> QED
  BY <1>2, <1>3, <1>4 DEF Advances

LEMMA SoundStays ==
  ASSUME IInv, IInv', Advances, NEW m \in Down, Sound(m, store, markers)
  PROVE  Sound(m, store', markers')
<1>1. \A u \in Users : /\ store[u].version \in Nat /\ store'[u].version \in Nat
                       /\ store[u].version <= store'[u].version
  <2>1. \A u \in Users : store'[u].version \in Nat
    BY ShardFields DEF IInv, PrimaryOK, Shard
  <2> QED
    BY <2>1, StoredVersions DEF Advances
<1>2. m.type = "answer" /\ m.mark > 0 => markers'[m.mark] = markers[m.mark]
  <2>1. m.type = "answer" => m.mark \in Marks
    BY DEF Down, TrueAnswer, SyncMessage, BroadcastMessage
  <2> QED
    BY <2>1, StoredVersions DEF Advances, Marks
<1>3. \A u \in Users, x \in Nat : Carries(m, u, x) => x <= store'[u].version
  BY <1>1 DEF Sound
<1> QED
  BY <1>2, <1>3 DEF Sound

LEMMA AllSoundStays ==
  ASSUME IInv, IInv', Advances, NEW q \in Seq(Down), AllSound(q, store, markers)
  PROVE  AllSound(q, store', markers')
<1>1. \A i \in DOMAIN q : q[i] \in Down
  OBVIOUS
<1> QED
  BY <1>1, SoundStays DEF AllSound
-----------------------------------------------------------------------------
(* Three queues in line: what a step does to one of them keeps the order.   *)
LEMMA QuietNotNewer ==
  ASSUME NEW m, Quiet(m), NEW n
  PROVE  NotNewer(m, n) /\ NotNewer(n, m)
BY QuietCarries DEF NotNewer

LEMMA LineTail ==
  ASSUME NEW S, NEW t \in Seq(S), NEW d \in Seq(S), NEW a \in Seq(S), InLine(t, d, a)
  PROVE  /\ t # << >> => InLine(Tail(t), d, a)
         /\ d # << >> => InLine(t, Tail(d), a)
         /\ a # << >> => InLine(t, d, Tail(a))
BY AscendingTail, PrecedesTail DEF InLine

LEMMA LineQuiet ==
  ASSUME NEW S, NEW t \in Seq(S), NEW d \in Seq(S), NEW a \in Seq(S), InLine(t, d, a),
         NEW m, Quiet(m)
  PROVE  InLine(t, Append(d, m), a) /\ InLine(Append(t, m), d, a)
<1>1. \A n : NotNewer(m, n) /\ NotNewer(n, m)
  BY QuietNotNewer
<1> QED
  BY <1>1, AscendingAppend, PrecedesAppend DEF InLine

LEMMA LineSends ==
  ASSUME NEW S, NEW t \in Seq(S), NEW d \in Seq(S), NEW a \in Seq(S), InLine(t, d, a),
         a # << >>
  PROVE  InLine(t, Append(d, Head(a)), Tail(a))
<1>1. /\ Ascending(t) /\ Ascending(Tail(a)) /\ Precedes(t, Tail(a))
      /\ Precedes(d, Tail(a))
      /\ \A j \in DOMAIN Tail(a) : NotNewer(Head(a), Tail(a)[j])
      /\ \A i \in DOMAIN d : NotNewer(d[i], Head(a))
      /\ \A i \in DOMAIN t : NotNewer(t[i], Head(a))
  BY AscendingTail, PrecedesTail DEF InLine
<1>2. Ascending(Append(d, Head(a))) /\ Precedes(t, Append(d, Head(a)))
  BY <1>1, AscendingAppend, PrecedesAppend DEF InLine
<1>3. Precedes(Append(d, Head(a)), Tail(a))
  BY <1>1, PrecedesAppend
<1> QED
  BY <1>1, <1>2, <1>3 DEF InLine

LEMMA LineReceives ==
  ASSUME NEW S, NEW t \in Seq(S), NEW d \in Seq(S), NEW a \in Seq(S), InLine(t, d, a),
         d # << >>
  PROVE  InLine(Append(t, Head(d)), Tail(d), a)
<1>1. /\ Ascending(a) /\ Ascending(Tail(d)) /\ Precedes(t, Tail(d))
      /\ Precedes(Tail(d), a)
      /\ \A j \in DOMAIN Tail(d) : NotNewer(Head(d), Tail(d)[j])
      /\ \A i \in DOMAIN t : NotNewer(t[i], Head(d))
      /\ \A i \in DOMAIN a : NotNewer(Head(d), a[i])
  BY AscendingTail, PrecedesTail DEF InLine
<1>2. Ascending(Append(t, Head(d))) /\ Precedes(Append(t, Head(d)), a)
  BY <1>1, AscendingAppend, PrecedesAppend DEF InLine
<1>3. Precedes(Append(t, Head(d)), Tail(d))
  BY <1>1, PrecedesAppend
<1> QED
  BY <1>1, <1>2, <1>3 DEF InLine

LEMMA BehindSteps ==
  ASSUME NEW S, NEW t \in Seq(S), NEW d \in Seq(S), NEW a \in Seq(S), NEW u, NEW v,
         NoneBehind(t, d, a, u, v)
  PROVE  /\ t # << >> => NoneBehind(Tail(t), d, a, u, v)
         /\ d # << >> => NoneBehind(t, Tail(d), a, u, v)
         /\ a # << >> => NoneBehind(t, d, Tail(a), u, v)
         /\ \A m : Quiet(m) => NoneBehind(t, Append(d, m), a, u, v)
         /\ a # << >> => NoneBehind(t, Append(d, Head(a)), Tail(a), u, v)
         /\ d # << >> => NoneBehind(Append(t, Head(d)), Tail(d), a, u, v)
<1>1. \A m : Quiet(m) => \A x \in Nat : ~Carries(m, u, x)
  BY QuietCarries
<1>2. \A m : Quiet(m) => NoneBehind(t, Append(d, m), a, u, v)
  BY <1>1, OlderAppend DEF NoneBehind
<1>3. ASSUME a # << >>
      PROVE  NoneBehind(t, Append(d, Head(a)), Tail(a), u, v)
  BY <1>3, OlderAppend, OlderTail DEF NoneBehind
<1>4. ASSUME d # << >>
      PROVE  NoneBehind(Append(t, Head(d)), Tail(d), a, u, v)
  BY <1>4, OlderAppend, OlderTail DEF NoneBehind
<1> QED
  BY <1>2, <1>3, <1>4, OlderTail DEF NoneBehind
-----------------------------------------------------------------------------
(* The three queues of one worker after a step.                             *)
FlightOn(x) ==
  Flight(x)' /\ \A u \in Users, v \in Nat : Reaches(x, u, v) => Reaches(x, u, v)'

LEMMA LineTypes ==
  ASSUME IInv, NEW x \in Workers
  PROVE  /\ tasks[x] \in Seq(Down) /\ down[x] \in Seq(Down)
         /\ Answers(unsent) \in Seq(Down) /\ unsent \in Seq(Unsent)
<1>1. tasks[x] \in Seq(Task) /\ down[x] \in Seq(Down) /\ unsent \in Seq(Unsent)
  BY QueueTypes
<1>2. Task \subseteq Down /\ TrueAnswer \subseteq Down
  BY DEF Task, Down
<1>3. Answers(unsent) \in Seq(TrueAnswer)
  BY <1>1, AnswersForm DEF Unsent
<1> QED
  BY <1>1, <1>2, <1>3

LEMMA StoredGrows ==
  ASSUME IInv, IInv', Advances, NEW u \in Users, NEW v \in Nat, v <= store[u].version
  PROVE  v <= store'[u].version
<1>1. store[u].version \in Nat /\ store[u].version <= store'[u].version
  BY StoredVersions DEF Advances
<1>2. store'[u].version \in Nat
  BY ShardFields DEF IInv, PrimaryOK, Shard
<1> QED
  BY <1>1, <1>2

LEMMA FlightSound ==
  ASSUME IInv, IInv', Advances, NEW x \in Workers, Flight(x)
  PROVE  /\ AllSound(tasks[x], store', markers') /\ AllSound(down[x], store', markers')
         /\ AllSound(Answers(unsent), store', markers')
BY LineTypes, AllSoundStays DEF Flight

(* Messages are taken, or one without copies is sent.                       *)
LEMMA FlightTakes ==
  ASSUME IInv, IInv', Advances, NEW x \in Workers, Flight(x), unsent' = unsent,
         tasks'[x] = tasks[x] \/ (tasks[x] # << >> /\ tasks'[x] = Tail(tasks[x])),
         \/ down'[x] = down[x]
         \/ down[x] # << >> /\ down'[x] = Tail(down[x])
         \/ \E m : Quiet(m) /\ Sound(m, store', markers') /\ down'[x] = Append(down[x], m)
  PROVE  FlightOn(x)
<1> DEFINE a == Answers(unsent)
<1>1. tasks[x] \in Seq(Down) /\ down[x] \in Seq(Down) /\ a \in Seq(Down)
  BY LineTypes
<1>2. Answers(unsent') = a
  OBVIOUS
<1>3. /\ InLine(tasks[x], down[x], a) /\ AllSound(tasks[x], store', markers')
      /\ AllSound(down[x], store', markers') /\ AllSound(a, store', markers')
  BY FlightSound DEF Flight
<1> HIDE DEF a
<1>4. tasks'[x] \in Seq(Down)
  BY <1>1, HeadAndTail
<1>5. InLine(tasks'[x], down[x], a) /\ AllSound(tasks'[x], store', markers')
  BY <1>1, <1>3, LineTail, SoundTail
<1>6. InLine(tasks'[x], down'[x], a) /\ AllSound(down'[x], store', markers')
  <2>1. CASE down'[x] = down[x]
    BY <1>3, <1>5, <2>1
  <2>2. CASE down[x] # << >> /\ down'[x] = Tail(down[x])
    BY <1>1, <1>3, <1>4, <1>5, <2>2, LineTail, SoundTail
  <2>3. ASSUME NEW m, Quiet(m), Sound(m, store', markers'), down'[x] = Append(down[x], m)
        PROVE  InLine(tasks'[x], down'[x], a) /\ AllSound(down'[x], store', markers')
    BY <1>1, <1>3, <1>4, <1>5, <2>3, LineQuiet, SoundAppend
  <2> QED
    BY <2>1, <2>2, <2>3
<1>7. Flight(x)'
  BY <1>2, <1>3, <1>5, <1>6 DEF Flight
<1>8. ASSUME NEW u \in Users, NEW v \in Nat, Reaches(x, u, v)
      PROVE  Reaches(x, u, v)'
  <2>1. v <= store'[u].version /\ NoneBehind(tasks[x], down[x], a, u, v)
    BY <1>8, StoredGrows DEF Reaches, a
  <2>2. NoneBehind(tasks'[x], down[x], a, u, v)
    BY <1>1, <2>1, BehindSteps
  <2>3. NoneBehind(tasks'[x], down'[x], a, u, v)
    BY <1>1, <1>4, <2>2, BehindSteps
  <2> QED
    BY <1>2, <2>1, <2>3 DEF Reaches
<1> QED
  BY <1>7, <1>8 DEF FlightOn

(* A message becomes a task.                                                *)
LEMMA FlightMoves ==
  ASSUME IInv, IInv', Advances, NEW x \in Workers, Flight(x), unsent' = unsent,
         down[x] # << >>, down'[x] = Tail(down[x]),
         tasks'[x] = Append(tasks[x], Head(down[x]))
  PROVE  FlightOn(x)
<1> DEFINE a == Answers(unsent)
<1>1. tasks[x] \in Seq(Down) /\ down[x] \in Seq(Down) /\ a \in Seq(Down)
  BY LineTypes
<1>2. Answers(unsent') = a
  OBVIOUS
<1>3. /\ InLine(tasks[x], down[x], a) /\ AllSound(tasks[x], store', markers')
      /\ AllSound(down[x], store', markers') /\ AllSound(a, store', markers')
  BY FlightSound DEF Flight
<1> HIDE DEF a
<1>4. InLine(tasks'[x], down'[x], a)
  BY <1>1, <1>3, LineReceives
<1>5. AllSound(down'[x], store', markers') /\ AllSound(tasks'[x], store', markers')
  BY <1>1, <1>3, SoundTail, SoundAppend
<1>6. Flight(x)'
  BY <1>2, <1>3, <1>4, <1>5 DEF Flight
<1>7. ASSUME NEW u \in Users, NEW v \in Nat, Reaches(x, u, v)
      PROVE  Reaches(x, u, v)'
  <2>1. v <= store'[u].version /\ NoneBehind(tasks[x], down[x], a, u, v)
    BY <1>7, StoredGrows DEF Reaches, a
  <2>2. NoneBehind(tasks'[x], down'[x], a, u, v)
    BY <1>1, <2>1, BehindSteps
  <2> QED
    BY <1>2, <2>1, <2>2 DEF Reaches
<1> QED
  BY <1>6, <1>7 DEF FlightOn

(* The first answer is sent, to x or to another worker, after a marker or   *)
(* without.                                                                 *)
LEMMA FlightSends ==
  ASSUME IInv, IInv', Advances, NEW x \in Workers, Flight(x), tasks'[x] = tasks[x],
         unsent # << >>, unsent' = Tail(unsent),
         NEW d \in Seq(Down),
         \/ d = down[x]
         \/ \E m : Quiet(m) /\ Sound(m, store', markers') /\ d = Append(down[x], m),
         down'[x] = d \/ down'[x] = Append(d, Head(unsent).answer)
  PROVE  FlightOn(x)
<1> DEFINE a == Answers(unsent)
<1>1. tasks[x] \in Seq(Down) /\ down[x] \in Seq(Down) /\ a \in Seq(Down)
  BY LineTypes
<1>2. Answers(unsent') = Tail(a) /\ a # << >> /\ Head(unsent).answer = Head(a)
  BY LineTypes, AnswersOf
<1>3. /\ InLine(tasks[x], down[x], a) /\ AllSound(tasks[x], store', markers')
      /\ AllSound(down[x], store', markers') /\ AllSound(a, store', markers')
  BY FlightSound DEF Flight
<1> HIDE DEF a
<1>4. InLine(tasks[x], d, a) /\ AllSound(d, store', markers')
  BY <1>1, <1>3, LineQuiet, SoundAppend
<1>5. InLine(tasks[x], down'[x], Tail(a))
  BY <1>1, <1>2, <1>4, LineTail, LineSends
<1>6. AllSound(Tail(a), store', markers') /\ AllSound(down'[x], store', markers')
  BY <1>1, <1>2, <1>3, <1>4, SoundTail, SoundAppend
<1>7. Flight(x)'
  BY <1>2, <1>3, <1>5, <1>6 DEF Flight
<1>8. ASSUME NEW u \in Users, NEW v \in Nat, Reaches(x, u, v)
      PROVE  Reaches(x, u, v)'
  <2>1. v <= store'[u].version /\ NoneBehind(tasks[x], down[x], a, u, v)
    BY <1>8, StoredGrows DEF Reaches, a
  <2>2. NoneBehind(tasks[x], d, a, u, v)
    BY <1>1, <2>1, BehindSteps
  <2>3. NoneBehind(tasks[x], down'[x], Tail(a), u, v)
    BY <1>1, <1>2, <2>2, BehindSteps
  <2> QED
    BY <1>2, <2>1, <2>3 DEF Reaches
<1> QED
  BY <1>7, <1>8 DEF FlightOn

(* Answers join the queue with copies of what the store now holds.          *)
New(m, stored, marked) ==
  /\ Sound(m, stored, marked)
  /\ \A u \in Users, v \in Nat : Carries(m, u, v) => v = stored[u].version

LEMMA NewIsNewer ==
  ASSUME IInv, IInv', Advances, NEW m, NEW n, New(n, store', markers'),
         Sound(m, store', markers')
  PROVE  NotNewer(m, n)
BY DEF New, Sound, NotNewer

LEMMA FlightAdds ==
  ASSUME IInv, IInv', Advances, NEW x \in Workers, Flight(x), tasks'[x] = tasks[x],
         \/ down'[x] = down[x]
         \/ \E m : Quiet(m) /\ Sound(m, store', markers') /\ down'[x] = Append(down[x], m),
         \A i \in DOMAIN unsent' :
           \/ i \in DOMAIN unsent /\ unsent'[i] = unsent[i]
           \/ i > Len(unsent) /\ New(unsent'[i].answer, store', markers')
  PROVE  FlightOn(x)
<1> DEFINE a == Answers(unsent)
           b == Answers(unsent')
<1>1. tasks[x] \in Seq(Down) /\ down[x] \in Seq(Down) /\ a \in Seq(Down)
  BY LineTypes
<1>2. unsent \in Seq(Unsent) /\ unsent' \in Seq(Unsent')
  BY LineTypes DEF IInv, QueuesOK, Unsent
<1>3. \A i \in DOMAIN b : /\ i \in Nat
                          /\ \/ i \in DOMAIN a /\ b[i] = a[i] /\ i <= Len(unsent)
                             \/ i > Len(unsent) /\ New(b[i], store', markers')
  BY <1>2 DEF Answers
<1>4. /\ InLine(tasks[x], down[x], a) /\ AllSound(tasks[x], store', markers')
      /\ AllSound(down[x], store', markers') /\ AllSound(a, store', markers')
  BY FlightSound DEF Flight
<1>5. Len(unsent) \in Nat
  BY <1>2
<1>6. unsent' \in Seq(Unsent') => Answers(unsent') = b
  OBVIOUS
<1> HIDE DEF a, b
<1>7. AllSound(b, store', markers')
  BY <1>3, <1>4 DEF AllSound, New
<1>8. /\ \A i \in DOMAIN tasks[x] : Sound(tasks[x][i], store', markers')
      /\ \A i \in DOMAIN down[x] : Sound(down[x][i], store', markers')
      /\ \A i \in DOMAIN b : Sound(b[i], store', markers')
  BY <1>4, <1>7 DEF AllSound
<1>9. Precedes(tasks[x], b) /\ Precedes(down[x], b)
  BY <1>3, <1>4, <1>8, NewIsNewer DEF InLine, Precedes
<1>10. Ascending(b)
  <2> SUFFICES ASSUME NEW i \in DOMAIN b, NEW j \in DOMAIN b, i < j
               PROVE  NotNewer(b[i], b[j])
    BY DEF Ascending
  <2>1. CASE New(b[j], store', markers')
    BY <1>8, <2>1, NewIsNewer
  <2>2. CASE ~New(b[j], store', markers')
    <3>1. j \in DOMAIN a /\ b[j] = a[j] /\ j <= Len(unsent)
      BY <1>3, <2>2
    <3>2. i \in DOMAIN a /\ b[i] = a[i]
      BY <1>3, <1>5, <3>1
    <3> QED
      BY <1>4, <3>1, <3>2 DEF InLine, Ascending
  <2> QED
    BY <2>1, <2>2
<1>11. InLine(tasks[x], down[x], b)
  BY <1>4, <1>9, <1>10 DEF InLine
<1>12. InLine(tasks'[x], down'[x], b) /\ AllSound(down'[x], store', markers')
  <2>1. CASE down'[x] = down[x]
    BY <1>4, <1>11, <2>1
  <2>2. ASSUME NEW m, Quiet(m), Sound(m, store', markers'), down'[x] = Append(down[x], m)
        PROVE  InLine(tasks'[x], down'[x], b) /\ AllSound(down'[x], store', markers')
    <3>1. b \in Seq(Down')
      <4>1. TrueAnswer' \subseteq Down'
        BY DEF Down
      <4>2. Answers(unsent') \in Seq(TrueAnswer')
        BY <1>2, AnswersForm DEF Unsent
      <4> QED
        BY <4>1, <4>2 DEF b
    <3> DEFINE Z == Down \union Down'
    <3>2. tasks[x] \in Seq(Z) /\ down[x] \in Seq(Z) /\ b \in Seq(Z)
      BY <1>1, <3>1
    <3> HIDE DEF Z
    <3>3. InLine(tasks[x], Append(down[x], m), b)
      BY <1>11, <2>2, <3>2, LineQuiet
    <3> QED
      BY <1>1, <1>4, <2>2, <3>3, SoundAppend
  <2> QED
    BY <2>1, <2>2
<1>13. Flight(x)'
  BY <1>4, <1>7, <1>12 DEF Flight, b
<1>14. ASSUME NEW u \in Users, NEW v \in Nat, Reaches(x, u, v)
       PROVE  Reaches(x, u, v)'
  <2>1. v <= store'[u].version /\ NoneBehind(tasks[x], down[x], a, u, v)
    BY <1>14, StoredGrows DEF Reaches, a
  <2>2. NoneOlder(b, u, v)
    BY <1>3, <2>1 DEF NoneBehind, NoneOlder, New
  <2>3. NoneOlder(down'[x], u, v)
    <3>1. \A m : Quiet(m) => \A y \in Nat : ~Carries(m, u, y)
      BY QuietCarries
    <3> QED
      BY <1>1, <2>1, <3>1, OlderAppend DEF NoneBehind
  <2> QED
    BY <2>1, <2>2, <2>3 DEF Reaches, NoneBehind, b
<1> QED
  BY <1>13, <1>14 DEF FlightOn
-----------------------------------------------------------------------------
(* Each step keeps the order, and what the primary adds is newest.          *)
LEMMA QuietMessages ==
  ASSUME NEW n, NEW st, NEW ms
  PROVE  /\ Quiet(MarkerMessage(n)) /\ Sound(MarkerMessage(n), st, ms)
         /\ Quiet(SnapshotMessage(n)) /\ Sound(SnapshotMessage(n), st, ms)
<1>1. MarkerMessage(n).type = "marker" /\ SnapshotMessage(n).type = "snapshot"
  BY DEF MarkerMessage, SnapshotMessage
<1> QED
  BY <1>1, QuietCarries DEF Quiet, Sound

LEMMA NewAnswer ==
  ASSUME IInv', NEW u \in Users, NEW kind, NEW mark, NEW copies,
         \A c \in copies : c.version = store'[u].version,
         kind = "write" /\ mark > 0 =>
           /\ markers'[mark].user = u /\ copies # {}
           /\ markers'[mark].version = store'[u].version
  PROVE  New(Answer(kind, u, mark, copies), store', markers')
<1> DEFINE m == Answer(kind, u, mark, copies)
<1>1. /\ m.type = "answer" /\ m.kind = kind /\ m.user = u
      /\ m.mark = mark /\ m.copies = copies
  BY DEF Answer
<1> HIDE DEF m
<1>2. \A v \in Users, y \in Nat : Carries(m, v, y) => y = store'[v].version
  BY <1>1 DEF Carries
<1>3. \A v \in Users : store'[v].version \in Nat
  BY ShardFields DEF IInv, PrimaryOK, Shard
<1>4. Sound(m, store', markers')
  BY <1>1, <1>2, <1>3 DEF Sound
<1> QED
  BY <1>2, <1>4 DEF New, m

LEMMA AppendAdds ==
  ASSUME IInv, NEW r, unsent' = Append(unsent, r), New(r.answer, store', markers')
  PROVE  \A i \in DOMAIN unsent' :
           \/ i \in DOMAIN unsent /\ unsent'[i] = unsent[i]
           \/ i > Len(unsent) /\ New(unsent'[i].answer, store', markers')
<1>1. unsent \in Seq(Unsent)
  BY QueueTypes
<1>2. \A i \in DOMAIN Append(unsent, r) :
        \/ i \in DOMAIN unsent /\ Append(unsent, r)[i] = unsent[i]
        \/ i > Len(unsent) /\ Append(unsent, r)[i] = r
  BY <1>1
<1> QED
  BY <1>2

LEMMA ConcatAdds ==
  ASSUME IInv, NEW S, NEW r \in Seq(S), unsent' = unsent \o r,
         \A k \in DOMAIN r : New(r[k].answer, store', markers')
  PROVE  \A i \in DOMAIN unsent' :
           \/ i \in DOMAIN unsent /\ unsent'[i] = unsent[i]
           \/ i > Len(unsent) /\ New(unsent'[i].answer, store', markers')
<1>1. unsent \in Seq(Unsent)
  BY QueueTypes
<1>2. Len(unsent) \in Nat /\ Len(r) \in Nat /\ DOMAIN r = 1..Len(r)
      /\ DOMAIN unsent = 1..Len(unsent) /\ DOMAIN (unsent \o r) = 1..(Len(unsent) + Len(r))
  BY <1>1
<1> SUFFICES ASSUME NEW i \in DOMAIN (unsent \o r)
             PROVE  \/ i \in DOMAIN unsent /\ (unsent \o r)[i] = unsent[i]
                    \/ i > Len(unsent) /\ New((unsent \o r)[i].answer, store', markers')
  OBVIOUS
<1>3. CASE i <= Len(unsent)
  BY <1>1, <1>2, <1>3
<1>4. CASE i > Len(unsent)
  <2>1. i - Len(unsent) \in DOMAIN r /\ (unsent \o r)[i] = r[i - Len(unsent)]
    BY <1>1, <1>2, <1>4
  <2> QED
    BY <1>4, <2>1
<1> QED
  BY <1>2, <1>3, <1>4

LEMMA SameAdvances ==
  ASSUME IInv, UNCHANGED <<store, markers>>
  PROVE  Advances
BY StoredVersions DEF Advances

LEMMA MarkerLast ==
  ASSUME IInv, NEW u, CommitMarker(u)
  PROVE  /\ Len(markers') > 0 /\ Len(markers') = Len(markers) + 1
         /\ markers'[Len(markers')].user = u
         /\ markers'[Len(markers')].version = counter'
<1> DEFINE m == [user |-> u, version |-> counter']
<1>1. markers \in Seq([user : Users, version : Nat])
  BY StoredVersions
<1>2. markers' = Append(markers, m)
  BY DEF CommitMarker
<1> HIDE DEF m
<1>3. Len(markers') = Len(markers) + 1 /\ markers'[Len(markers) + 1] = m /\ Len(markers) \in Nat
  BY <1>1, <1>2
<1> QED
  BY <1>3 DEF m

LEMMA RunMutationFlight ==
  ASSUME IInv, IInv', InFlight, RunMutation
  PROVE  Advances /\ \A x \in Workers : FlightOn(x)
<1>1. PICK m \in Mutations :
        /\ UNCHANGED tasks
        /\ \/ /\ Replace(m.user, Synced(m.user, m.files), store[m.user].full)
              /\ CommitMarker(m.user)
              /\ unsent' = IF m.origin # Watcher
                           THEN Append(unsent,
                                  [worker |-> m.origin,
                                   answer |-> Answer("write", m.user, Len(markers'),
                                                     {Copy(store'[m.user])})])
                           ELSE unsent
              /\ down' = IF m.origin # Watcher THEN down
                         ELSE Broadcast(MarkerMessage(Len(markers')))
           \/ /\ UNCHANGED <<store, counter, published, markers, down>>
              /\ unsent' = IF m.origin # Watcher
                           THEN Append(unsent,
                                  [worker |-> m.origin,
                                   answer |-> Answer("write", m.user, 0, {})])
                           ELSE unsent
  BY MutationRuns
<1>2. m.user \in Users
  BY DEF Mutations
<1>3. Advances
  <2>1. CASE UNCHANGED <<store, markers>>
    BY <2>1, SameAdvances
  <2>2. CASE /\ Replace(m.user, Synced(m.user, m.files), store[m.user].full)
             /\ CommitMarker(m.user)
    BY <1>2, <2>2, ReplaceAdvances
  <2> QED
    BY <1>1, <2>1, <2>2
<1>4. \/ unsent' = unsent
      \/ \E r : unsent' = Append(unsent, r) /\ New(r.answer, store', markers')
  <2>1. CASE /\ Replace(m.user, Synced(m.user, m.files), store[m.user].full)
             /\ CommitMarker(m.user)
             /\ unsent' = Append(unsent,
                            [worker |-> m.origin,
                             answer |-> Answer("write", m.user, Len(markers'),
                                               {Copy(store'[m.user])})])
    <3>1. store'[m.user].version = counter + 1 /\ counter' = counter + 1
      BY <1>2, <2>1, ReplaceAdvances DEF Replace
    <3>2. Copy(store'[m.user]).version = store'[m.user].version
      BY DEF Copy, ShardOf
    <3>3. markers'[Len(markers')].user = m.user
          /\ markers'[Len(markers')].version = counter'
      BY <2>1, MarkerLast
    <3> DEFINE a == Answer("write", m.user, Len(markers'), {Copy(store'[m.user])})
               r == [worker |-> m.origin, answer |-> a]
    <3>4. New(a, store', markers')
      BY <1>2, <3>1, <3>2, <3>3, NewAnswer
    <3>5. unsent' = Append(unsent, r)
      BY <2>1
    <3>6. r.answer = a
      OBVIOUS
    <3> HIDE DEF a, r
    <3> QED
      BY <3>4, <3>5, <3>6
  <2>2. CASE unsent' = Append(unsent, [worker |-> m.origin,
                                       answer |-> Answer("write", m.user, 0, {})])
    <3>1. New(Answer("write", m.user, 0, {}), store', markers')
      BY <1>2, NewAnswer
    <3> QED
      BY <2>2, <3>1
  <2> QED
    BY <1>1, <2>1, <2>2
<1>5. \A i \in DOMAIN unsent' :
        \/ i \in DOMAIN unsent /\ unsent'[i] = unsent[i]
        \/ i > Len(unsent) /\ New(unsent'[i].answer, store', markers')
  BY <1>4, AppendAdds
<1>6. down' = down \/ down' = Broadcast(MarkerMessage(Len(markers')))
  BY <1>1
<1>7. ASSUME NEW x \in Workers
      PROVE  FlightOn(x)
  <2>1. \/ down'[x] = down[x]
        \/ down'[x] = Append(down[x], MarkerMessage(Len(markers')))
    BY <1>6, BroadcastAt
  <2> QED
    BY <1>1, <1>3, <1>5, <2>1, QuietMessages, FlightAdds DEF InFlight
<1> QED
  BY <1>3, <1>7

LEMMA FinishScanFlight ==
  ASSUME IInv, IInv', InFlight, FinishScan
  PROVE  Advances /\ \A x \in Workers : FlightOn(x)
<1>1. PICK u \in Users, found \in SUBSET Files :
        /\ IF found # store[u].files \/ found = {}
           THEN Replace(u, found, TRUE)
           ELSE /\ store' = [store EXCEPT ![u] =
                               ShardOf(found, TRUE, FALSE, store[u].version)]
                /\ UNCHANGED <<counter, published>>
        /\ IF found # store[u].files
           THEN /\ CommitMarker(u)
                /\ down' = Broadcast(MarkerMessage(Len(markers')))
           ELSE UNCHANGED <<markers, down>>
        /\ \/ unsent' = unsent
           \/ \E r : /\ unsent' = unsent \o r
                     /\ r = [i \in DOMAIN loaders[u] |->
                               [worker |-> loaders[u][i],
                                answer |-> Answer("read", u,
                                  IF found # store[u].files
                                  THEN Len(markers') ELSE 0,
                                  {Copy(store'[u])})]]
  BY ScanEnds
<1>2. CommitMarker(u) \/ markers' = markers
  BY <1>1
<1>3. Advances
  <2>1. CASE Replace(u, found, TRUE)
    BY <1>2, <2>1, ReplaceAdvances
  <2>2. CASE ~(found # store[u].files \/ found = {})
    <3>1. markers' = markers
      BY <1>1, <2>2
    <3>2. store' = [store EXCEPT ![u] = ShardOf(found, TRUE, FALSE, store[u].version)]
      BY <1>1, <2>2
    <3>3. \A v \in Users : store'[v].version = store[v].version
      BY <3>2, StoredVersions DEF ShardOf
    <3> QED
      BY <3>1, <3>3, StoredVersions DEF Advances
  <2> QED
    BY <1>1, <2>1, <2>2
<1>4. \A i \in DOMAIN unsent' :
        \/ i \in DOMAIN unsent /\ unsent'[i] = unsent[i]
        \/ i > Len(unsent) /\ New(unsent'[i].answer, store', markers')
  <2>1. CASE unsent' = unsent
    BY <2>1
  <2>2. ASSUME NEW r, unsent' = unsent \o r,
               r = [i \in DOMAIN loaders[u] |->
                      [worker |-> loaders[u][i],
                       answer |-> Answer("read", u,
                         IF found # store[u].files THEN Len(markers') ELSE 0,
                         {Copy(store'[u])})]]
        PROVE  \A i \in DOMAIN unsent' :
                 \/ i \in DOMAIN unsent /\ unsent'[i] = unsent[i]
                 \/ i > Len(unsent) /\ New(unsent'[i].answer, store', markers')
    <3> DEFINE mark == IF found # store[u].files THEN Len(markers') ELSE 0
               answer == Answer("read", u, mark, {Copy(store'[u])})
    <3>1. Copy(store'[u]).version = store'[u].version
      BY DEF Copy, ShardOf
    <3> HIDE DEF mark
    <3>2. New(answer, store', markers')
      BY <3>1, NewAnswer
    <3> HIDE DEF answer
    <3>3. r = [i \in DOMAIN loaders[u] |->
                 [worker |-> loaders[u][i], answer |-> answer]]
      BY <2>2 DEF answer, mark
    <3>4. \A k \in DOMAIN r : New(r[k].answer, store', markers')
      BY <3>2, <3>3
    <3>5. \E S : r \in Seq(S)
      <4>1. loaders[u] \in Seq(Workers)
        BY DEF IInv, QueuesOK
      <4> DEFINE Z == [worker : Workers, answer : {answer}]
      <4>2. r \in [1..Len(loaders[u]) -> Z] /\ Len(loaders[u]) \in Nat
        BY <3>3, <4>1
      <4> HIDE DEF Z
      <4>3. r \in Seq(Z)
        BY <4>2
      <4> QED
        BY <4>3
    <3> PICK S : r \in Seq(S)
      BY <3>5
    <3> QED
      BY <2>2, <3>4, ConcatAdds
  <2> QED
    BY <1>1, <2>1, <2>2
<1>5. down' = down \/ down' = Broadcast(MarkerMessage(Len(markers')))
  BY <1>1
<1>6. tasks' = tasks
  BY DEF FinishScan
<1>7. ASSUME NEW x \in Workers
      PROVE  FlightOn(x)
  <2>1. \/ down'[x] = down[x]
        \/ down'[x] = Append(down[x], MarkerMessage(Len(markers')))
    BY <1>5, BroadcastAt
  <2> QED
    BY <1>3, <1>4, <1>6, <2>1, QuietMessages, FlightAdds DEF InFlight
<1> QED
  BY <1>3, <1>7

LEMMA SendAnswerFlight ==
  ASSUME IInv, IInv', InFlight, SendAnswer
  PROVE  Advances /\ \A x \in Workers : FlightOn(x)
<1>1. PICK a \in Unsent :
        /\ unsent # << >> /\ a = Head(unsent)
        /\ unsent' = Tail(unsent)
        /\ \/ down' = Send(down, a.worker, a.answer)
           \/ /\ a.answer.kind = "write" /\ a.answer.mark > 0
              /\ down' = Send(Broadcast(MarkerMessage(a.answer.mark)),
                              a.worker, a.answer)
  BY AnswerSent
<1>2. UNCHANGED <<store, markers, tasks>> /\ Advances
  BY SameAdvances DEF SendAnswer
<1>3. down \in [Workers -> Seq(Down)]
  BY QueueTypes
<1>4. a.worker \in Workers /\ a.answer.mark \in Marks
  BY DEF Unsent, TrueAnswer
<1> DEFINE n == MarkerMessage(a.answer.mark)
           b == a.answer
<1>5. n \in Down
  BY <1>4 DEF MarkerMessage, Down, BroadcastMessage
<1>6. Quiet(n) /\ Sound(n, store', markers')
  BY QuietMessages
<1> HIDE DEF n, b
<1>7. ASSUME NEW x \in Workers
      PROVE  FlightOn(x)
  <2>1. CASE down' = Send(down, a.worker, b)
    <3>1. Send(down, a.worker, b)[x] = IF x = a.worker THEN Append(down[x], b)
                                       ELSE down[x]
      BY <1>3, <1>4, SendAt
    <3>2. down[x] \in Seq(Down) /\ (down'[x] = down[x] \/ down'[x] = Append(down[x], b))
      BY <1>3, <2>1, <3>1
    <3> QED
      BY <1>1, <1>2, <3>2, FlightSends DEF InFlight, b
  <2>2. CASE down' = Send(Broadcast(n), a.worker, b)
    <3> DEFINE c == Broadcast(n)
    <3>1. c \in [Workers -> Seq(Down)] /\ c[x] = Append(down[x], n)
      <4>1. \A y \in Workers : Append(down[y], n) \in Seq(Down)
        BY <1>3, <1>5, AppendElement
      <4> QED
        BY <4>1 DEF Broadcast
    <3>5. down' = Send(c, a.worker, b)
      BY <2>2
    <3> HIDE DEF c
    <3>2. Send(c, a.worker, b)[x] = IF x = a.worker THEN Append(c[x], b) ELSE c[x]
      BY <3>1 DEF Send
    <3>3. Append(down[x], n) \in Seq(Down)
      BY <1>3, <1>5, AppendElement
    <3>4. \/ down'[x] = Append(down[x], n)
          \/ down'[x] = Append(Append(down[x], n), b)
      BY <3>1, <3>2, <3>5
    <3> QED
      BY <1>1, <1>2, <1>6, <3>3, <3>4, FlightSends DEF InFlight, b
  <2> QED
    BY <1>1, <2>1, <2>2 DEF n, b
<1> QED
  BY <1>2, <1>7

LEMMA HandleEnsureLoadedFlight ==
  ASSUME IInv, IInv', OneWrite, InFlight, NEW w \in Workers, HandleEnsureLoaded(w)
  PROVE  Advances /\ \A x \in Workers : FlightOn(x)
<1>1. Handling(w, "ensureFileIndexShardLoaded") /\ UNCHANGED down
  BY DEF HandleEnsureLoaded
<1>2. /\ unsent = << >> /\ UNCHANGED <<tasks, store, markers>>
      /\ Head(up[w]) \in Request /\ Head(up[w]).method = "ensureFileIndexShardLoaded"
  BY <1>1, RequestTaken DEF Handling
<1>3. Advances
  BY <1>2, SameAdvances
<1> DEFINE u == Head(up[w]).user
           copies == IF store[u].version = Head(up[w]).known THEN {}
                     ELSE {Copy(store[u])}
           a == Answer("read", u, 0, copies)
           r == [worker |-> w, answer |-> a]
<1>4. unsent' = unsent \/ unsent' = << r >>
  BY DEF HandleEnsureLoaded
<1>5. u \in Users
  BY <1>2 DEF Request
<1>6. New(a, store', markers')
  <2>1. \A c \in copies : c.version = store'[u].version
    BY <1>2 DEF Copy, ShardOf
  <2> HIDE DEF copies, u
  <2> QED
    BY <1>5, <2>1, NewAnswer
<1>7. r.answer = a
  OBVIOUS
<1> HIDE DEF a, r
<1>8. unsent' = unsent \/ unsent' = Append(unsent, r)
  BY <1>2, <1>4
<1>9. \A i \in DOMAIN unsent' :
        \/ i \in DOMAIN unsent /\ unsent'[i] = unsent[i]
        \/ i > Len(unsent) /\ New(unsent'[i].answer, store', markers')
  BY <1>6, <1>7, <1>8, AppendAdds
<1> QED
  BY <1>1, <1>2, <1>3, <1>9, FlightAdds DEF InFlight

LEMMA HandleSyncFlight ==
  ASSUME IInv, IInv', OneWrite, InFlight, NEW w \in Workers, HandleSync(w)
  PROVE  Advances /\ \A x \in Workers : FlightOn(x)
<1> DEFINE r == Head(up[w])
           m(whole) == [type |-> "sync", whole |-> whole, cause |-> r.cause,
                        from |-> r.from, to |-> Len(markers)]
<1>1. Handling(w, "getDeltaSince") /\ UNCHANGED unsent
  BY DEF HandleSync
<1>2. /\ UNCHANGED <<tasks, store, markers>>
      /\ r \in Request /\ r.method = "getDeltaSince"
  BY <1>1, RequestTaken DEF Handling
<1>3. Advances
  BY <1>2, SameAdvances
<1>4. PICK whole \in BOOLEAN : down' = Send(down, w, m(whole))
  BY DEF HandleSync
<1>5. r.cause \in Causes
  BY <1>2 DEF Request
<1>6. r.cause.kind = "write" => r.cause.mark \in 0..Len(markers)
  BY <1>5 DEF Causes, Marks
<1>7. m(whole).type = "sync" /\ m(whole).cause = r.cause /\ m(whole).to = Len(markers)
  OBVIOUS
<1> HIDE DEF m
<1>8. Quiet(m(whole))
  BY <1>7 DEF Quiet
<1>9. Sound(m(whole), store', markers')
  BY <1>6, <1>7, <1>8, QuietCarries DEF Sound
<1>10. down \in [Workers -> Seq(Down)]
  BY QueueTypes
<1>11. ASSUME NEW x \in Workers
       PROVE  FlightOn(x)
  <2>1. down'[x] = IF x = w THEN Append(down[x], m(whole)) ELSE down[x]
    BY <1>4, <1>10, SendAt
  <2> QED
    BY <1>1, <1>2, <1>3, <1>8, <1>9, <2>1, FlightTakes DEF InFlight
<1> QED
  BY <1>3, <1>11

LEMMA ReceivingFlight ==
  ASSUME IInv, IInv', OneWrite, InFlight, NEW w \in Workers,
         ReceiveMarker(w) \/ ReceiveSnapshot(w) \/ ReceiveAnswer(w)
  PROVE  Advances /\ \A x \in Workers : FlightOn(x)
<1>1. PICK type : Receiving(w, type)
  BY DEF ReceiveMarker, ReceiveSnapshot, ReceiveAnswer
<1>2. UNCHANGED <<store, markers, unsent>> /\ down[w] # << >>
      /\ \A x \in Workers : down'[x] = IF x = w THEN Tail(down[x]) ELSE down[x]
  BY <1>1, MessageTaken DEF Receiving
<1>3. Advances
  BY <1>2, SameAdvances
<1> DEFINE m == Head(down[w])
<1>4. tasks' = tasks \/ tasks' = Send(tasks, w, m)
  BY DEF ReceiveMarker, ReceiveSnapshot, ReceiveAnswer
<1>5. tasks \in [Workers -> Seq(Task)]
  BY QueueTypes
<1>6. ASSUME NEW x \in Workers
      PROVE  FlightOn(x)
  <2>1. Send(tasks, w, m)[x] = IF x = w THEN Append(tasks[x], m) ELSE tasks[x]
    <3> HIDE DEF m
    <3> QED
      BY <1>5, SendAt
  <2>2. CASE x # w \/ tasks' = tasks
    <3>1. tasks'[x] = tasks[x]
      BY <1>4, <2>1, <2>2
    <3> QED
      BY <1>2, <1>3, <3>1, FlightTakes DEF InFlight
  <2>3. CASE x = w /\ tasks' = Send(tasks, w, m)
    <3>1. tasks'[x] = Append(tasks[x], Head(down[x]))
      BY <2>1, <2>3
    <3> QED
      BY <1>2, <1>3, <2>3, <3>1, FlightMoves DEF InFlight
  <2> QED
    BY <1>4, <2>2, <2>3
<1> QED
  BY <1>3, <1>6

LEMMA ResumingFlight ==
  ASSUME IInv, IInv', OneWrite, InFlight, NEW w \in Workers,
         ResumeAnswer(w) \/ ResumeSync(w)
  PROVE  Advances /\ \A x \in Workers : FlightOn(x)
<1>1. PICK type : Resuming(w, type)
  BY DEF ResumeAnswer, ResumeSync
<1>2. UNCHANGED <<store, markers, unsent, down>> /\ tasks[w] # << >>
      /\ \A x \in Workers : tasks'[x] = IF x = w THEN Tail(tasks[x]) ELSE tasks[x]
  BY <1>1, TaskTaken DEF Resuming
<1>3. Advances
  BY <1>2, SameAdvances
<1>4. ASSUME NEW x \in Workers
      PROVE  FlightOn(x)
  BY <1>2, <1>3, FlightTakes DEF InFlight
<1> QED
  BY <1>3, <1>4

LEMMA ReloadFlight ==
  ASSUME IInv, IInv', InFlight, ReloadConfig
  PROVE  Advances /\ \A x \in Workers : FlightOn(x)
<1>1. UNCHANGED <<store, markers, unsent, tasks>> /\ Advances
  BY SameAdvances DEF ReloadConfig
<1>2. \A x \in Workers : down'[x] = Append(down[x], SnapshotMessage(Len(markers)))
  BY BroadcastAt DEF ReloadConfig
<1>3. ASSUME NEW x \in Workers
      PROVE  FlightOn(x)
  BY <1>1, <1>2, QuietMessages, FlightTakes DEF InFlight
<1> QED
  BY <1>1, <1>3

LEMMA QuietFlight ==
  ASSUME IInv, IInv', InFlight, UNCHANGED <<store, markers, unsent, down, tasks>>
  PROVE  Advances /\ \A x \in Workers : FlightOn(x)
<1>1. Advances
  BY SameAdvances
<1> QED
  BY <1>1, FlightTakes DEF InFlight

LEMMA NextFlight ==
  ASSUME IInv, IInv', OneWrite, InFlight, [Next]_vars
  PROVE  Advances /\ \A x \in Workers : FlightOn(x)
<1>1. CASE RunMutation \/ FinishScan \/ ReloadConfig \/ SendAnswer
  BY <1>1, RunMutationFlight, FinishScanFlight, ReloadFlight, SendAnswerFlight
<1>2. ASSUME NEW u \in Users, FireWatch(u) \/ StartScan(u)
      PROVE  Advances /\ \A x \in Workers : FlightOn(x)
  <2>1. UNCHANGED <<store, markers, unsent, down, tasks>>
    BY <1>2 DEF FireWatch, StartScan
  <2> QED
    BY <2>1, QuietFlight
<1>3. ASSUME NEW w \in Workers,
             HandleCommit(w) \/ HandleEnsureLoaded(w) \/ HandleSync(w)
      PROVE  Advances /\ \A x \in Workers : FlightOn(x)
  <2>1. CASE HandleCommit(w)
    <3>1. UNCHANGED <<store, markers, unsent, down, tasks>>
      BY <2>1 DEF HandleCommit, Handling
    <3> QED
      BY <3>1, QuietFlight
  <2> QED
    BY <1>3, <2>1, HandleEnsureLoadedFlight, HandleSyncFlight
<1>4. ASSUME NEW w \in Workers, Worker(w)
      PROVE  Advances /\ \A x \in Workers : FlightOn(x)
  <2>1. CASE CommitWrite(w)
    <3>1. UNCHANGED <<store, markers, unsent, down, tasks>>
      BY <2>1 DEF CommitWrite
    <3> QED
      BY <3>1, QuietFlight
  <2>2. CASE ReceiveMarker(w) \/ ReceiveSnapshot(w) \/ ReceiveAnswer(w)
    BY <2>2, ReceivingFlight
  <2>3. CASE ResumeAnswer(w) \/ ResumeSync(w)
    BY <2>3, ResumingFlight
  <2>4. ASSUME NEW u \in Users, Read(w, u) \/ \E f \in Files : WriteFile(w, u, f)
        PROVE  Advances /\ \A x \in Workers : FlightOn(x)
    <3>1. UNCHANGED <<store, markers, unsent, down, tasks>>
      BY <2>4 DEF Read, WriteFile
    <3> QED
      BY <3>1, QuietFlight
  <2> QED
    BY <1>4, <2>1, <2>2, <2>3, <2>4 DEF Worker
<1>5. ASSUME NEW u \in Users, NEW f \in Files, ForeignChange(u, f)
      PROVE  Advances /\ \A x \in Workers : FlightOn(x)
  <2>1. UNCHANGED <<store, markers, unsent, down, tasks>>
    BY <1>5 DEF ForeignChange
  <2> QED
    BY <2>1, QuietFlight
<1>6. CASE UNCHANGED vars
  BY <1>6, QuietFlight DEF vars
<1> QED
  BY <1>1, <1>2, <1>3, <1>4, <1>5, <1>6 DEF Next, Primary
-----------------------------------------------------------------------------
(* What a worker serves: what it served, and no marker it has applied says  *)
(* otherwise, or the copy at the head of its tasks.                         *)
Copied(x, u) ==
  \/ ~Current(shards'[x][u])
  \/ tasks[x] # << >> /\ Carries(Head(tasks[x]), u, shards'[x][u].version)

Serving(x, u) ==
  \/ Copied(x, u)
  \/ /\ Current(shards[x][u]) /\ shards'[x][u].version = shards[x][u].version
     /\ \A n \in position[x] + 1 .. position'[x] :
          markers[n].user = u => markers[n].version <= shards[x][u].version

LEMMA MarkerAt ==
  ASSUME IInv, NEW n \in 1..Len(markers)
  PROVE  markers[n].user \in Users /\ markers[n].version \in Nat
<1> DEFINE M == [user : Users, version : Nat]
<1>1. markers \in Seq(M)
  BY StoredVersions
<1>2. \A m \in M : m.user \in Users /\ m.version \in Nat
  OBVIOUS
<1> HIDE DEF M
<1>3. markers[n] \in M
  BY <1>1
<1> QED
  BY <1>2, <1>3

LEMMA CopiedServes ==
  ASSUME IInv, IInv', NEW x \in Workers, NEW u \in Users, NEW v \in Nat,
         Copied(x, u), Reaches(x, u, v)
  PROVE  Serves(x, u, v)'
<1> SUFFICES ASSUME Current(shards'[x][u])
             PROVE  v <= shards'[x][u].version
  BY DEF Serves
<1>1. tasks[x] # << >> /\ Carries(Head(tasks[x]), u, shards'[x][u].version)
  BY DEF Copied
<1>2. shards'[x][u].version \in Nat
  BY DEF IInv, WorkersOK, Shard
<1>3. tasks[x] \in Seq(Down) /\ NoneOlder(tasks[x], u, v)
  BY LineTypes DEF Reaches, NoneBehind
<1> QED
  BY <1>1, <1>2, <1>3, OlderTail

LEMMA ServesStays ==
  ASSUME IInv, IInv', NEW x \in Workers, NEW u \in Users, NEW v \in Nat,
         Serving(x, u), Reaches(x, u, v), Serves(x, u, v)
  PROVE  Serves(x, u, v)'
<1>1. CASE Copied(x, u)
  BY <1>1, CopiedServes
<1>2. CASE ~Copied(x, u)
  BY <1>2 DEF Serving, Serves
<1> QED
  BY <1>1, <1>2

LEMMA PromiseStays ==
  ASSUME IInv, IInv', Advances, NEW x \in Workers, FlightOn(x),
         NEW c \in Causes, Promised(x, c),
         c.kind = "write" => Serving(x, c.user)
  PROVE  Promised(x, c)'
<1> SUFFICES ASSUME c.kind = "write", c.mark > 0
             PROVE  /\ markers'[c.mark].user = c.user
                    /\ Reaches(x, c.user, markers[c.mark].version)'
                    /\ c.mark <= position'[x]
                         => Serves(x, c.user, markers[c.mark].version)'
  BY DEF Promised
<1>1. c.user \in Users /\ c.mark \in 1..Len(markers)
  BY DEF Causes, Marks
<1>2. markers'[c.mark] = markers[c.mark] /\ markers[c.mark].version \in Nat
  <2>1. markers'[c.mark] = markers[c.mark]
    BY <1>1 DEF Advances
  <2>2. markers[c.mark].version \in Nat
    BY <1>1, MarkerAt
  <2> QED
    BY <2>1, <2>2
<1> PICK u \in Users : u = c.user
  BY <1>1
<1> PICK v \in Nat : v = markers[c.mark].version
  BY <1>2
<1>3. /\ markers[c.mark].user = u /\ Reaches(x, u, v)
      /\ c.mark <= position[x] => Serves(x, u, v)
  BY DEF Promised
<1>4. Reaches(x, u, v)'
  BY <1>3 DEF FlightOn
<1>5. position[x] \in Nat /\ position'[x] \in Nat /\ c.mark \in Nat
  BY <1>1 DEF IInv, WorkersOK, Marks
<1>6. ASSUME c.mark <= position'[x]
      PROVE  Serves(x, u, v)'
  <2>1. CASE c.mark <= position[x]
    BY <1>3, <2>1, ServesStays
  <2>2. CASE Copied(x, u)
    BY <1>3, <2>2, CopiedServes
  <2>3. CASE c.mark > position[x] /\ ~Copied(x, u)
    <3>1. c.mark \in position[x] + 1 .. position'[x]
      BY <1>5, <1>6, <2>3
    <3> QED
      BY <1>3, <2>3, <3>1 DEF Serving, Serves
  <2> QED
    BY <1>5, <2>1, <2>2, <2>3
<1> QED
  BY <1>2, <1>3, <1>4, <1>6

LEMMA AskedTypes ==
  ASSUME IInv, NEW x \in Workers, NEW c, Asked(x, c)
  PROVE  c \in Causes
<1>1. up[x] \in Seq(Request) /\ down[x] \in Seq(Down) /\ tasks[x] \in Seq(Down)
  BY QueueTypes, LineTypes
<1>2. \A r \in Request : r.method = "getDeltaSince" => r.cause \in Causes
  BY DEF Request
<1>3. \A m \in Down : m.type = "sync" => m.cause \in Causes
  BY DEF Down, TrueAnswer, SyncMessage, BroadcastMessage
<1> QED
  BY <1>1, <1>2, <1>3 DEF Asked, AskedOf, AnsweredIn

(* A worker keeps its promises through a step.                              *)
LEMMA ServedStays ==
  ASSUME IInv, IInv', Advances, NEW x \in Workers, FlightOn(x), Served(x),
         \A u \in Users : Serving(x, u),
         Listed(x)',
         \A u \in Users :
           \/ acked'[x][u] = acked[x][u]
           \/ \E v \in Nat : acked'[x][u] = v /\ Reaches(x, u, v)' /\ Serves(x, u, v)',
         \A c \in Causes' : Asked(x, c)' => Asked(x, c) \/ Promised(x, c)'
  PROVE  Served(x)'
<1>1. ASSUME NEW u \in Users
      PROVE  \E v \in Nat : acked'[x][u] = v /\ Reaches(x, u, v)' /\ Serves(x, u, v)'
  <2>1. CASE acked'[x][u] = acked[x][u]
    <3> PICK v \in Nat : v = acked[x][u]
      BY DEF Served, Acked
    <3>1. Reaches(x, u, v) /\ Serves(x, u, v)
      BY DEF Served, Acked
    <3>2. Reaches(x, u, v)'
      BY <3>1 DEF FlightOn
    <3>3. Serves(x, u, v)'
      BY <3>1, ServesStays
    <3> QED
      BY <2>1, <3>2, <3>3
  <2> QED
    BY <2>1
<1>2. Acked(x)'
  BY <1>1 DEF Acked
<1>3. ASSUME NEW c \in Causes', Asked(x, c)'
      PROVE  Promised(x, c)'
  <2>1. CASE Asked(x, c)
    <3>1. c \in Causes /\ Promised(x, c)
      BY <2>1, AskedTypes DEF Served
    <3>2. c.kind = "write" => Serving(x, c.user)
      BY <3>1 DEF Causes
    <3> QED
      BY <3>1, <3>2, PromiseStays
  <2> QED
    BY <1>3, <2>1
<1> QED
  BY <1>2, <1>3 DEF Served
-----------------------------------------------------------------------------
(* No step but an answer's gap opens a write again.                         *)
LEMMA AskedTail ==
  ASSUME NEW S, NEW q \in Seq(S), q # << >>, NEW c
  PROVE  /\ AskedOf(Tail(q), c) => AskedOf(q, c)
         /\ AnsweredIn(Tail(q), c) => AnsweredIn(q, c)
<1>1. \A i \in DOMAIN Tail(q) : i + 1 \in DOMAIN q /\ Tail(q)[i] = q[i + 1]
  OBVIOUS
<1> QED
  BY <1>1 DEF AskedOf, AnsweredIn

LEMMA AskedAppend ==
  ASSUME NEW S, NEW q \in Seq(S), NEW m, NEW c
  PROVE  /\ AskedOf(Append(q, m), c)
              => AskedOf(q, c) \/ (m.method = "getDeltaSince" /\ m.cause = c)
         /\ AnsweredIn(Append(q, m), c)
              => AnsweredIn(q, c) \/ (m.type = "sync" /\ m.cause = c)
<1>1. \A i \in DOMAIN Append(q, m) :
        \/ i \in DOMAIN q /\ Append(q, m)[i] = q[i]
        \/ Append(q, m)[i] = m
  OBVIOUS
<1> QED
  BY <1>1 DEF AskedOf, AnsweredIn

LEMMA AskedHead ==
  ASSUME NEW S, NEW q \in Seq(S), q # << >>
  PROVE  /\ Head(q).method = "getDeltaSince" => AskedOf(q, Head(q).cause)
         /\ Head(q).type = "sync" => AnsweredIn(q, Head(q).cause)
<1>1. 1 \in DOMAIN q /\ Head(q) = q[1]
  OBVIOUS
<1> QED
  BY <1>1 DEF AskedOf, AnsweredIn

LEMMA AskedStays ==
  ASSUME IInv, NEW x \in Workers, NEW c,
         \/ up'[x] = up[x]
         \/ up[x] # << >> /\ up'[x] = Tail(up[x])
         \/ \E m : /\ ~(m.method = "getDeltaSince" /\ m.cause = c)
                   /\ up'[x] = Append(up[x], m),
         \/ down'[x] = down[x]
         \/ down[x] # << >> /\ down'[x] = Tail(down[x])
         \/ \E m : m.type # "sync" /\ down'[x] = Append(down[x], m),
         tasks'[x] = tasks[x] \/ (tasks[x] # << >> /\ tasks'[x] = Tail(tasks[x])),
         Asked(x, c)'
  PROVE  Asked(x, c)
<1>1. up[x] \in Seq(Request) /\ down[x] \in Seq(Down) /\ tasks[x] \in Seq(Down)
  BY QueueTypes, LineTypes
<1>2. AskedOf(up'[x], c) => AskedOf(up[x], c)
  <2>1. ASSUME NEW m, ~(m.method = "getDeltaSince" /\ m.cause = c),
               up'[x] = Append(up[x], m)
        PROVE  AskedOf(up'[x], c) => AskedOf(up[x], c)
    BY <1>1, <2>1, AskedAppend
  <2>2. CASE up[x] # << >> /\ up'[x] = Tail(up[x])
    BY <1>1, <2>2, AskedTail
  <2> QED
    BY <2>1, <2>2
<1>3. AnsweredIn(down'[x], c) => AnsweredIn(down[x], c)
  <2>1. ASSUME NEW m, m.type # "sync", down'[x] = Append(down[x], m)
        PROVE  AnsweredIn(down'[x], c) => AnsweredIn(down[x], c)
    BY <1>1, <2>1, AskedAppend
  <2>2. CASE down[x] # << >> /\ down'[x] = Tail(down[x])
    BY <1>1, <2>2, AskedTail
  <2> QED
    BY <2>1, <2>2
<1>4. AnsweredIn(tasks'[x], c) => AnsweredIn(tasks[x], c)
  BY <1>1, AskedTail
<1> QED
  BY <1>2, <1>3, <1>4 DEF Asked

LEMMA SendAnswerAsks ==
  ASSUME IInv, SendAnswer, NEW x \in Workers, NEW c, Asked(x, c)'
  PROVE  Asked(x, c)
<1>1. PICK a \in Unsent :
        \/ down' = Send(down, a.worker, a.answer)
        \/ down' = Send(Broadcast(MarkerMessage(a.answer.mark)), a.worker, a.answer)
  BY AnswerSent
<1> DEFINE n == MarkerMessage(a.answer.mark)
           b == a.answer
<1>2. n.type # "sync" /\ b.type # "sync"
  BY DEF MarkerMessage, Unsent, TrueAnswer
<1>3. n \in Down /\ a.worker \in Workers
  BY DEF Unsent, TrueAnswer, MarkerMessage, Down, BroadcastMessage
<1>4. down \in [Workers -> Seq(Down)] /\ up' = up /\ tasks' = tasks
  BY QueueTypes DEF SendAnswer
<1> HIDE DEF n, b
<1>5. Append(down[x], n) \in Seq(Down) /\ down[x] \in Seq(Down)
  BY <1>3, <1>4, AppendElement
<1>6. \/ down'[x] = down[x] \/ down'[x] = Append(down[x], b)
      \/ down'[x] = Append(down[x], n) \/ down'[x] = Append(Append(down[x], n), b)
  <2>1. CASE down' = Send(down, a.worker, b)
    <3>1. Send(down, a.worker, b)[x] = IF x = a.worker THEN Append(down[x], b)
                                       ELSE down[x]
      BY <1>3, <1>4, SendAt
    <3> QED
      BY <2>1, <3>1
  <2>2. CASE down' = Send(Broadcast(n), a.worker, b)
    <3> DEFINE d == Broadcast(n)
    <3>1. d \in [Workers -> Seq(Down)] /\ d[x] = Append(down[x], n)
      <4>1. \A y \in Workers : Append(down[y], n) \in Seq(Down)
        BY <1>3, <1>4, AppendElement
      <4> QED
        BY <4>1 DEF Broadcast
    <3>2. down' = Send(d, a.worker, b)
      BY <2>2
    <3> HIDE DEF d
    <3>3. Send(d, a.worker, b)[x] = IF x = a.worker THEN Append(d[x], b) ELSE d[x]
      BY <3>1 DEF Send
    <3> QED
      BY <3>1, <3>2, <3>3
  <2> QED
    BY <1>1, <2>1, <2>2 DEF n, b
<1>7. AnsweredIn(down'[x], c) => AnsweredIn(down[x], c)
  <2>1. /\ AnsweredIn(Append(down[x], b), c) => AnsweredIn(down[x], c)
        /\ AnsweredIn(Append(down[x], n), c) => AnsweredIn(down[x], c)
    BY <1>2, <1>5, AskedAppend
  <2>2. AnsweredIn(Append(Append(down[x], n), b), c) => AnsweredIn(Append(down[x], n), c)
    BY <1>2, <1>5, AskedAppend
  <2> QED
    BY <1>6, <2>1, <2>2
<1> QED
  BY <1>4, <1>7 DEF Asked

LEMMA HandleSyncAsks ==
  ASSUME IInv, OneWrite, NEW w \in Workers, HandleSync(w), NEW x \in Workers, NEW c, Asked(x, c)'
  PROVE  Asked(x, c)
<1> DEFINE r == Head(up[w])
           m(whole) == [type |-> "sync", whole |-> whole, cause |-> r.cause,
                        from |-> r.from, to |-> Len(markers)]
<1>1. Handling(w, "getDeltaSince")
  BY DEF HandleSync
<1>2. /\ UNCHANGED tasks /\ up[w] # << >> /\ r.method = "getDeltaSince"
      /\ \A y \in Workers : up'[y] = IF y = w THEN Tail(up[y]) ELSE up[y]
  BY <1>1, RequestTaken DEF Handling
<1>3. PICK whole \in BOOLEAN : down' = Send(down, w, m(whole))
  BY DEF HandleSync
<1>4. m(whole).cause = r.cause
  OBVIOUS
<1>5. up[x] \in Seq(Request) /\ down \in [Workers -> Seq(Down)] /\ down[x] \in Seq(Down)
  BY QueueTypes
<1>6. x = w => AskedOf(up[x], r.cause)
  BY <1>2, <1>5, AskedHead
<1> HIDE DEF m, r
<1>7. down'[x] = IF x = w THEN Append(down[x], m(whole)) ELSE down[x]
  BY <1>3, <1>5, SendAt
<1>8. AnsweredIn(down'[x], c) => Asked(x, c)
  BY <1>4, <1>5, <1>6, <1>7, AskedAppend DEF Asked
<1>9. AskedOf(up'[x], c) => AskedOf(up[x], c)
  BY <1>2, <1>5, AskedTail
<1> QED
  BY <1>2, <1>8, <1>9 DEF Asked

LEMMA ReceiveAnswerAsks ==
  ASSUME IInv, OneWrite, NEW w \in Workers, ReceiveAnswer(w), NEW x \in Workers, NEW c,
         Asked(x, c)'
  PROVE  Asked(x, c)
<1> DEFINE m == Head(down[w])
<1>1. PICK type : Receiving(w, type)
  BY DEF ReceiveAnswer
<1>2. down[w] # << >> /\ \A y \in Workers : down'[y] = IF y = w THEN Tail(down[y]) ELSE down[y]
  BY <1>1, MessageTaken DEF Receiving
<1>3. tasks' = Send(tasks, w, m) /\ up' = up
  BY DEF ReceiveAnswer
<1>4. /\ tasks \in [Workers -> Seq(Task)] /\ tasks[x] \in Seq(Task)
      /\ down[x] \in Seq(Down)
  BY QueueTypes
<1>5. x = w /\ m.type = "sync" => AnsweredIn(down[x], m.cause)
  BY <1>2, <1>4, AskedHead
<1> HIDE DEF m
<1>6. tasks'[x] = IF x = w THEN Append(tasks[x], m) ELSE tasks[x]
  BY <1>3, <1>4, SendAt
<1>7. AnsweredIn(tasks'[x], c) => Asked(x, c)
  BY <1>4, <1>5, <1>6, AskedAppend DEF Asked
<1>8. AnsweredIn(down'[x], c) => AnsweredIn(down[x], c)
  BY <1>2, <1>4, AskedTail
<1> QED
  BY <1>3, <1>7, <1>8 DEF Asked
-----------------------------------------------------------------------------
LEMMA BroadcastAsks ==
  ASSUME IInv, NEW x \in Workers, NEW c, Asked(x, c)', UNCHANGED <<up, tasks>>,
         NEW m, m.type # "sync", down' = down \/ down' = Broadcast(m)
  PROVE  Asked(x, c)
<1>1. Broadcast(m)[x] = Append(down[x], m)
  BY BroadcastAt
<1>2. down'[x] = down[x] \/ down'[x] = Append(down[x], m)
  BY <1>1
<1> QED
  BY <1>2, AskedStays

LEMMA PrimaryAsks ==
  ASSUME IInv, OneWrite, NEW x \in Workers, NEW c, Asked(x, c)',
         RunMutation \/ FinishScan \/ ReloadConfig
  PROVE  Asked(x, c)
<1>1. UNCHANGED <<up, tasks>>
  BY DEF RunMutation, FinishScan, ReloadConfig
<1>2. \A n : MarkerMessage(n).type # "sync" /\ SnapshotMessage(n).type # "sync"
  BY DEF MarkerMessage, SnapshotMessage
<1>3. CASE RunMutation
  <2>1. down' = down \/ down' = Broadcast(MarkerMessage(Len(markers')))
    BY <1>3, MutationRuns
  <2> QED
    BY <1>1, <1>2, <2>1, BroadcastAsks
<1>4. CASE FinishScan
  <2>1. down' = down \/ down' = Broadcast(MarkerMessage(Len(markers')))
    BY <1>4, ScanEnds
  <2> QED
    BY <1>1, <1>2, <2>1, BroadcastAsks
<1>5. CASE ReloadConfig
  <2>1. down' = Broadcast(SnapshotMessage(Len(markers)))
    BY <1>5 DEF ReloadConfig
  <2> QED
    BY <1>1, <1>2, <2>1, BroadcastAsks
<1> QED
  BY <1>3, <1>4, <1>5

LEMMA HandlingAsks ==
  ASSUME IInv, OneWrite, NEW w \in Workers, HandleCommit(w) \/ HandleEnsureLoaded(w),
         NEW x \in Workers, NEW c, Asked(x, c)'
  PROVE  Asked(x, c)
<1>1. PICK method : Handling(w, method)
  BY DEF HandleCommit, HandleEnsureLoaded
<1>2. /\ UNCHANGED <<down, tasks>> /\ up[w] # << >>
      /\ \A y \in Workers : up'[y] = IF y = w THEN Tail(up[y]) ELSE up[y]
  BY <1>1, RequestTaken DEF HandleCommit, HandleEnsureLoaded
<1> QED
  BY <1>2, AskedStays

LEMMA SendAsks ==
  ASSUME IInv, NEW w \in Workers, NEW m, up' = up \/ up' = Send(up, w, m), NEW x \in Workers
  PROVE  up'[x] = up[x] \/ (x = w /\ up'[x] = Append(up[x], m))
<1>1. up \in [Workers -> Seq(Request)]
  BY QueueTypes
<1>2. Send(up, w, m)[x] = IF x = w THEN Append(up[x], m) ELSE up[x]
  BY <1>1, SendAt
<1> QED
  BY <1>2

LEMMA ReceivingAsks ==
  ASSUME IInv, OneWrite, NEW w \in Workers, ReceiveMarker(w) \/ ReceiveSnapshot(w),
         NEW x \in Workers, NEW c, c.kind # "handler", Asked(x, c)'
  PROVE  Asked(x, c)
<1> DEFINE h == [kind |-> "handler"]
           m == [method |-> "getDeltaSince", from |-> position[w], cause |-> h]
<1>1. PICK type : Receiving(w, type)
  BY DEF ReceiveMarker, ReceiveSnapshot
<1>2. /\ UNCHANGED tasks /\ down[w] # << >>
      /\ \A y \in Workers : down'[y] = IF y = w THEN Tail(down[y]) ELSE down[y]
  BY <1>1, MessageTaken DEF Receiving, ReceiveMarker, ReceiveSnapshot
<1>3. up' = up \/ up' = Send(up, w, m)
  BY DEF ReceiveMarker, ReceiveSnapshot, AskForDelta
<1>4. m.cause # c
  OBVIOUS
<1> HIDE DEF m
<1>5. up'[x] = up[x] \/ up'[x] = Append(up[x], m)
  BY <1>3, SendAsks
<1> QED
  BY <1>2, <1>4, <1>5, AskedStays

Gap(w) ==
  /\ ResumeAnswer(w) /\ ~(Head(tasks[w]).mark <= position[w] + 1)
  /\ UNCHANGED <<position, shards, writing, acked, reading>>

LEMMA ResumingAsks ==
  ASSUME IInv, OneWrite, NEW w \in Workers, ResumeAnswer(w) \/ ResumeSync(w),
         NEW x \in Workers, NEW c, Asked(x, c)'
  PROVE  \/ Asked(x, c)
         \/ /\ x = w /\ Gap(w)
            /\ c = Cause(Head(tasks[w]).kind, Head(tasks[w]).user, Head(tasks[w]).mark)
<1> DEFINE a == Head(tasks[w])
           d == Cause(a.kind, a.user, a.mark)
           m == [method |-> "getDeltaSince", from |-> position[w], cause |-> d]
<1>1. PICK type : Resuming(w, type)
  BY DEF ResumeAnswer, ResumeSync
<1>2. /\ UNCHANGED down /\ tasks[w] # << >>
      /\ \A y \in Workers : tasks'[y] = IF y = w THEN Tail(tasks[y]) ELSE tasks[y]
  BY <1>1, TaskTaken DEF Resuming
<1>3. up' = up \/ (up' = Send(up, w, m) /\ Gap(w))
  BY DEF ResumeAnswer, ResumeSync, AskForDelta, Gap
<1>4. m.cause = d
  OBVIOUS
<1> HIDE DEF m, d
<1>5. up'[x] = up[x] \/ (x = w /\ up'[x] = Append(up[x], m) /\ Gap(w))
  BY <1>3, SendAsks
<1>6. tasks'[x] = tasks[x] \/ (tasks[x] # << >> /\ tasks'[x] = Tail(tasks[x]))
  BY <1>2
<1>7. CASE up'[x] = up[x] \/ (up'[x] = Append(up[x], m) /\ c # d)
  BY <1>2, <1>4, <1>6, <1>7, AskedStays
<1> QED
  BY <1>5, <1>7 DEF d

LEMMA WorkerSendAsks ==
  ASSUME IInv, NEW w \in Workers, NEW x \in Workers, NEW c, Asked(x, c)',
         CommitWrite(w) \/ \E u \in Users : Read(w, u)
  PROVE  Asked(x, c)
<1>1. UNCHANGED <<down, tasks>>
  BY DEF CommitWrite, Read
<1>2. \E m : m.method # "getDeltaSince" /\ up' = Send(up, w, m)
  <2>1. CASE CommitWrite(w)
    BY <2>1 DEF CommitWrite
  <2>2. ASSUME NEW u \in Users, Read(w, u)
        PROVE  \E m : m.method # "getDeltaSince" /\ up' = Send(up, w, m)
    BY <2>2 DEF Read
  <2> QED
    BY <2>1, <2>2
<1> PICK m : m.method # "getDeltaSince" /\ up' = Send(up, w, m)
  BY <1>2
<1>3. up'[x] = up[x] \/ up'[x] = Append(up[x], m)
  BY SendAsks
<1> QED
  BY <1>1, <1>3, AskedStays

LEMMA NextAsks ==
  ASSUME IInv, OneWrite, [Next]_vars, NEW x \in Workers, NEW c, c.kind # "handler",
         Asked(x, c)'
  PROVE  \/ Asked(x, c)
         \/ /\ Gap(x)
            /\ c = Cause(Head(tasks[x]).kind, Head(tasks[x]).user, Head(tasks[x]).mark)
<1>1. CASE UNCHANGED <<up, down, tasks>>
  BY <1>1 DEF Asked
<1>2. CASE RunMutation \/ FinishScan \/ ReloadConfig \/ SendAnswer
  BY <1>2, PrimaryAsks, SendAnswerAsks
<1>3. ASSUME NEW u \in Users, FireWatch(u) \/ StartScan(u)
      PROVE  UNCHANGED <<up, down, tasks>>
  BY <1>3 DEF FireWatch, StartScan
<1>4. ASSUME NEW w \in Workers,
             HandleCommit(w) \/ HandleEnsureLoaded(w) \/ HandleSync(w)
      PROVE  Asked(x, c)
  BY <1>4, HandlingAsks, HandleSyncAsks
<1>5. ASSUME NEW w \in Workers, CommitWrite(w) \/ \E u \in Users : Read(w, u)
      PROVE  Asked(x, c)
  BY <1>5, WorkerSendAsks
<1>6. ASSUME NEW w \in Workers, ReceiveMarker(w) \/ ReceiveSnapshot(w) \/ ReceiveAnswer(w)
      PROVE  Asked(x, c)
  BY <1>6, ReceivingAsks, ReceiveAnswerAsks
<1>7. ASSUME NEW w \in Workers, ResumeAnswer(w) \/ ResumeSync(w)
      PROVE  \/ Asked(x, c)
             \/ /\ Gap(x)
                /\ c = Cause(Head(tasks[x]).kind, Head(tasks[x]).user, Head(tasks[x]).mark)
  BY <1>7, ResumingAsks
<1>8. ASSUME NEW w \in Workers, NEW u \in Users, NEW f \in Files,
             WriteFile(w, u, f) \/ ForeignChange(u, f)
      PROVE  UNCHANGED <<up, down, tasks>>
  BY <1>8 DEF WriteFile, ForeignChange
<1>9. ASSUME NEW u \in Users, NEW f \in Files, ForeignChange(u, f)
      PROVE  UNCHANGED <<up, down, tasks>>
  BY <1>9 DEF ForeignChange
<1>10. CASE UNCHANGED vars
  BY <1>1, <1>10 DEF vars
<1>11. CASE Primary
  BY <1>1, <1>2, <1>3, <1>4, <1>11 DEF Primary
<1>12. ASSUME NEW w \in Workers, Worker(w)
       PROVE  \/ Asked(x, c)
              \/ /\ Gap(x)
                 /\ c = Cause(Head(tasks[x]).kind, Head(tasks[x]).user, Head(tasks[x]).mark)
  BY <1>1, <1>5, <1>6, <1>7, <1>8, <1>12 DEF Worker
<1> QED
  BY <1>1, <1>9, <1>10, <1>11, <1>12 DEF Next
-----------------------------------------------------------------------------
(* What a step does to the shards one worker serves.                        *)
Holds(x) == Listed(x)' /\ \A u \in Users : Serving(x, u)

LEMMA StillServes ==
  ASSUME IInv, NEW x \in Workers, Listed(x),
         shards'[x] = shards[x], position'[x] = position[x]
  PROVE  Holds(x)
<1>1. position[x] \in Nat
  BY DEF IInv, WorkersOK, Marks
<1>2. \A n \in position[x] + 1 .. position'[x] : FALSE
  BY <1>1
<1>3. ASSUME NEW u \in Users
      PROVE  Serving(x, u)
  BY <1>2 DEF Serving, Copied
<1> QED
  BY <1>3 DEF Holds, Listed

LEMMA ShardTyped ==
  ASSUME IInv, NEW x \in Workers, NEW u \in Users
  PROVE  /\ shards[x][u].full \in BOOLEAN /\ shards[x][u].stale \in BOOLEAN
         /\ shards[x][u].version \in Nat
BY DEF IInv, WorkersOK, Shard

LEMMA StaleKeeps ==
  ASSUME IInv, NEW x \in Workers, NEW u \in Users, NEW from, NEW to
  PROVE  /\ Stale(x, from, to)[u].full = shards[x][u].full
         /\ Stale(x, from, to)[u].files = shards[x][u].files
         /\ Stale(x, from, to)[u].version = shards[x][u].version
         /\ Current(Stale(x, from, to)[u]) =>
              /\ Current(shards[x][u])
              /\ \A n \in from + 1 .. to :
                   markers[n].user = u =>
                     ~MarkStale(shards[x][u], markers[n].version).stale
<1> DEFINE E == \E n \in from + 1 .. to :
                  /\ markers[n].user = u
                  /\ MarkStale(shards[x][u], markers[n].version).stale
           s == ShardOf(shards[x][u].files, shards[x][u].full, TRUE, shards[x][u].version)
<1>1. Stale(x, from, to)[u] = IF E THEN s ELSE shards[x][u]
  BY DEF Stale
<1>2. /\ s.full = shards[x][u].full /\ s.files = shards[x][u].files
      /\ s.version = shards[x][u].version /\ s.stale = TRUE
  BY DEF ShardOf
<1> HIDE DEF s
<1>3. ~Current(s)
  BY <1>2 DEF Current
<1> QED
  BY <1>1, <1>2, <1>3

LEMMA NotStaled ==
  ASSUME IInv, NEW x \in Workers, NEW u \in Users, Listed(x), Current(shards[x][u]),
         NEW v \in Nat, ~MarkStale(shards[x][u], v).stale
  PROVE  v <= shards[x][u].version
<1> DEFINE s == shards[x][u]
<1>1. MarkStale(s, v).stale = (s.stale \/ (s.version < v /\ s.files # {}))
  BY DEF MarkStale, ShardOf
<1>2. s.files # {} /\ s.version \in Nat
  BY ShardTyped DEF Current, Listed
<1>3. ~(s.version < v)
  BY <1>1, <1>2
<1> QED
  BY <1>2, <1>3

LEMMA StaleServes ==
  ASSUME IInv, IInv', NEW x \in Workers, Listed(x), UNCHANGED markers,
         NEW from, NEW to, shards'[x] = Stale(x, from, to),
         \/ position'[x] = position[x]
         \/ from = position[x] /\ to = position'[x]
  PROVE  Holds(x)
<1>1. Listed(x)'
  BY StaleKeeps DEF Listed
<1>2. position[x] \in Nat /\ position'[x] \in 0..Len(markers)
  BY DEF IInv, WorkersOK, Marks
<1>3. ASSUME NEW u \in Users, Current(shards'[x][u]),
             NEW n \in position[x] + 1 .. position'[x], markers[n].user = u
      PROVE  markers[n].version <= shards[x][u].version
  <2>1. n \in from + 1 .. to
    BY <1>2
  <2>2. n \in 1..Len(markers)
    <3>1. Len(markers) \in Nat
      BY StoredVersions
    <3> QED
      BY <1>2, <3>1
  <2>3. Current(shards[x][u]) /\ ~MarkStale(shards[x][u], markers[n].version).stale
    BY <1>3, <2>1, StaleKeeps
  <2>4. markers[n].version \in Nat
    BY <2>2, MarkerAt
  <2> QED
    BY <2>3, <2>4, NotStaled
<1>4. ASSUME NEW u \in Users
      PROVE  Serving(x, u)
  <2>1. CASE ~Current(shards'[x][u])
    BY <2>1 DEF Serving, Copied
  <2>2. CASE Current(shards'[x][u])
    <3>1. Current(shards[x][u]) /\ shards'[x][u].version = shards[x][u].version
      BY <2>2, StaleKeeps
    <3> QED
      BY <1>3, <2>2, <3>1 DEF Serving
  <2> QED
    BY <2>1, <2>2
<1> QED
  BY <1>1, <1>4 DEF Holds

LEMMA NoShardHolds ==
  ASSUME NEW x \in Workers, shards'[x] = [u \in Users |-> NoShard]
  PROVE  Holds(x)
<1>1. NoShard.full = FALSE
  BY DEF NoShard, ShardOf
<1>2. \A u \in Users : shards'[x][u].full = FALSE
  BY <1>1
<1>3. \A u \in Users : ~Current(shards'[x][u])
  BY <1>2 DEF Current
<1>4. Listed(x)'
  BY <1>2 DEF Listed
<1> QED
  BY <1>3, <1>4 DEF Holds, Serving, Copied

LEMMA ReceiveMarkerHolds ==
  ASSUME IInv, IInv', NEW w \in Workers, ReceiveMarker(w), \A x \in Workers : Listed(x),
         NEW x \in Workers
  PROVE  Holds(x)
<1> DEFINE n == Head(down[w]).mark
<1>1. UNCHANGED markers /\ down[w] # << >> /\ Head(down[w]).type = "marker"
  BY DEF ReceiveMarker, Receiving
<1>2. position \in [Workers -> Nat] /\ shards \in [Workers -> [Users -> Shard]]
  BY DEF IInv, WorkersOK, Marks
<1>3. n \in Nat
  <2>1. down[w] \in Seq(Down)
    BY LineTypes
  <2>2. Head(down[w]) \in Down
    BY <1>1, <2>1, HeadAndTail
  <2> QED
    BY <1>1, <2>2 DEF Down, TrueAnswer, SyncMessage, BroadcastMessage, Marks
<1> HIDE DEF n
<1>4. CASE UNCHANGED <<position, shards>>
  BY <1>4, StillServes
<1>5. CASE /\ n <= position[w] + 1
           /\ position' = [position EXCEPT ![w] = IF n > @ THEN n ELSE @]
           /\ shards' = [shards EXCEPT ![w] = Stale(w, n - 1, n)]
  <2>1. CASE x # w
    <3>1. shards'[x] = shards[x] /\ position'[x] = position[x]
      BY <1>2, <1>5, <2>1
    <3> QED
      BY <3>1, StillServes
  <2>2. CASE x = w
    <3>1. shards'[w] = Stale(w, n - 1, n)
      BY <1>2, <1>5
    <3>2. position'[w] = IF n > position[w] THEN n ELSE position[w]
      BY <1>2, <1>5
    <3>3. position'[w] = position[w] \/ (n - 1 = position[w] /\ n = position'[w])
      <4>1. position[w] \in Nat /\ n <= position[w] + 1
        BY <1>2, <1>5
      <4>2. n > position[w] => n - 1 = position[w]
        BY <1>3, <4>1
      <4> QED
        BY <3>2, <4>2
    <3> QED
      BY <1>1, <2>2, <3>1, <3>3, StaleServes
  <2> QED
    BY <2>1, <2>2
<1> QED
  BY <1>4, <1>5 DEF ReceiveMarker, n

LEMMA RehydrateHolds ==
  ASSUME IInv, NEW w \in Workers, NEW n, Rehydrate(w, n), NEW x \in Workers, Listed(x)
  PROVE  Holds(x) /\ position'[x] = IF x = w THEN n ELSE position[x]
<1>1. position \in [Workers -> Nat] /\ shards \in [Workers -> [Users -> Shard]]
  BY DEF IInv, WorkersOK, Marks
<1>2. position'[x] = IF x = w THEN n ELSE position[x]
  BY <1>1 DEF Rehydrate
<1>3. shards'[x] = IF x = w THEN [u \in Users |-> NoShard] ELSE shards[x]
  BY <1>1 DEF Rehydrate
<1> QED
  BY <1>2, <1>3, NoShardHolds, StillServes
-----------------------------------------------------------------------------
(* What an answer's task carries reaches the worker first.                  *)
LEMMA AnswerReaches ==
  ASSUME IInv, NEW w \in Workers, Flight(w), tasks[w] # << >>,
         NEW u \in Users, NEW v \in Nat, Carries(Head(tasks[w]), u, v),
         \A x \in Nat : Carries(Head(tasks[w]), u, x) => v <= x
  PROVE  Reaches(w, u, v)
<1> DEFINE h == Head(tasks[w])
<1>1. tasks[w] \in Seq(Down) /\ down[w] \in Seq(Down) /\ Answers(unsent) \in Seq(Down)
  BY LineTypes
<1>2. v <= store[u].version
  <2>1. Sound(h, store, markers)
    BY <1>1, SoundTail DEF Flight
  <2> QED
    BY <2>1 DEF Sound
<1>3. 1 \in DOMAIN tasks[w] /\ h = tasks[w][1]
  BY <1>1
<1>4. NoneOlder(tasks[w], u, v)
  <2> SUFFICES ASSUME NEW i \in DOMAIN tasks[w], NEW x \in Nat, Carries(tasks[w][i], u, x)
               PROVE  v <= x
    BY DEF NoneOlder
  <2>1. CASE i = 1
    BY <1>3, <2>1
  <2>2. CASE i # 1
    <3>1. 1 < i
      BY <1>1, <2>2
    <3>2. NotNewer(h, tasks[w][i])
      BY <1>3, <3>1 DEF Flight, InLine, Ascending
    <3> QED
      BY <3>2 DEF NotNewer
  <2> QED
    BY <2>1, <2>2
<1>5. NoneOlder(down[w], u, v) /\ NoneOlder(Answers(unsent), u, v)
  <2>1. \A i \in DOMAIN down[w] : NotNewer(h, down[w][i])
    BY <1>3 DEF Flight, InLine, Precedes
  <2>2. \A i \in DOMAIN Answers(unsent) : NotNewer(h, Answers(unsent)[i])
    BY <1>3 DEF Flight, InLine, Precedes
  <2> QED
    BY <2>1, <2>2 DEF NoneOlder, NotNewer
<1> QED
  BY <1>2, <1>4, <1>5 DEF Reaches, NoneBehind

(* The answer to a write holds the shard its marker is of.                  *)
LEMMA WriteReaches ==
  ASSUME IInv, NEW w \in Workers, Flight(w), tasks[w] # << >>,
         NEW a, a = Head(tasks[w]), a.type = "answer", a.kind = "write", a.mark > 0
  PROVE  /\ a.user \in Users /\ a.mark \in 1..Len(markers)
         /\ markers[a.mark].user = a.user /\ markers[a.mark].version \in Nat
         /\ a.copies # {} /\ \A c \in a.copies : c.version = markers[a.mark].version
         /\ Reaches(w, a.user, markers[a.mark].version)
<1>1. tasks[w] \in Seq(Down)
  BY LineTypes
<1>2. a \in Down /\ Sound(a, store, markers)
  BY <1>1, HeadAndTail, SoundTail DEF Flight
<1>3. a.user \in Users /\ a.mark \in Marks
  BY <1>2 DEF Down, TrueAnswer, SyncMessage, BroadcastMessage
<1>4. a.mark \in 1..Len(markers)
  <2>1. Len(markers) \in Nat
    BY StoredVersions
  <2> QED
    BY <1>3, <2>1 DEF Marks
<1>5. /\ markers[a.mark].user = a.user /\ a.copies # {}
      /\ \A c \in a.copies : c.version = markers[a.mark].version
  BY <1>2 DEF Sound
<1>6. markers[a.mark].version \in Nat
  BY <1>4, MarkerAt
<1> PICK v \in Nat : v = markers[a.mark].version
  BY <1>6
<1>7. Carries(a, a.user, v) /\ \A x \in Nat : Carries(a, a.user, x) => v <= x
  BY <1>5 DEF Carries
<1>8. Reaches(w, a.user, v)
  BY <1>3, <1>7, AnswerReaches
<1> QED
  BY <1>3, <1>4, <1>5, <1>6, <1>8

(* What an accepted answer does to the shards.                              *)
LEMMA AnswerHolds ==
  ASSUME IInv, IInv', NEW w \in Workers, Listed(w), ResumeAnswer(w),
         Head(tasks[w]).mark <= position[w] + 1
  PROVE  /\ Holds(w)
         /\ Head(tasks[w]).copies # {} => Copied(w, Head(tasks[w]).user)
<1> DEFINE a == Head(tasks[w])
           marked == IF a.mark > 0 THEN Stale(w, a.mark - 1, a.mark) ELSE shards[w]
           copied == [u \in Users |->
                        IF \E c \in a.copies : u = a.user
                        THEN ApplyShard(marked[u], CHOOSE c \in a.copies : TRUE)
                        ELSE marked[u]]
           told == [u \in Users |->
                      IF a.mark > 0 /\ u = a.user
                      THEN MarkStale(copied[u], markers[a.mark].version)
                      ELSE copied[u]]
<1>1. /\ UNCHANGED markers /\ tasks[w] # << >> /\ a.type = "answer"
      /\ position' = [position EXCEPT ![w] = IF a.mark > @ THEN a.mark ELSE @]
      /\ shards' = [shards EXCEPT ![w] = told]
  BY DEF ResumeAnswer, Resuming
<1>2. position \in [Workers -> Nat] /\ shards \in [Workers -> [Users -> Shard]]
  BY DEF IInv, WorkersOK, Marks
<1>3. shards'[w] = told
  BY <1>1, <1>2
<1>4. position'[w] = IF a.mark > position[w] THEN a.mark ELSE position[w]
  BY <1>1, <1>2
<1>5. a \in TrueAnswer /\ a.mark \in Marks
  <2>1. tasks[w] \in Seq(Down)
    BY LineTypes
  <2>2. a \in Down
    BY <1>1, <2>1, HeadAndTail
  <2> QED
    BY <1>1, <2>2 DEF Down, TrueAnswer, SyncMessage, BroadcastMessage
<1>6. a.mark \in Nat /\ position[w] \in Nat /\ a.mark <= Len(markers) /\ Len(markers) \in Nat
  <2>1. Len(markers) \in Nat
    BY StoredVersions
  <2> QED
    BY <1>2, <1>5, <2>1 DEF Marks
<1>7. ASSUME NEW u \in Users, NEW c \in a.copies, u = a.user
      PROVE  Copied(w, u)
  <2> PICK d \in a.copies : d = CHOOSE e \in a.copies : TRUE
    BY <1>7
  <2>1. copied[u] = ApplyShard(marked[u], d)
    BY <1>7
  <2> HIDE DEF copied, marked
  <2>2. copied[u].version = d.version
    <3>1. \A s : ApplyShard(s, d).version = d.version
      BY DEF ApplyShard, ShardOf
    <3> QED
      BY <2>1, <3>1
  <2>3. told[u].version = d.version
    BY <2>2 DEF MarkStale, ShardOf
  <2> HIDE DEF told
  <2>4. shards'[w][u].version = d.version
    BY <1>3, <2>3
  <2>5. Carries(a, u, d.version)
    BY <1>1, <1>7 DEF Carries
  <2> QED
    BY <1>1, <2>4, <2>5 DEF Copied
<1>8. ASSUME NEW u \in Users
      PROVE  /\ marked[u].full = shards[w][u].full /\ marked[u].files = shards[w][u].files
             /\ marked[u].version = shards[w][u].version
             /\ Current(marked[u]) => Current(shards[w][u])
  BY StaleKeeps
<1>9. ASSUME NEW u \in Users
      PROVE  told[u].full => told[u].files # {}
  <2> HIDE DEF marked
  <2>1. marked[u].full => marked[u].files # {}
    BY <1>8 DEF Listed
  <2>2. \A c : ApplyShard(marked[u], c).full => ApplyShard(marked[u], c).files # {}
    BY DEF ApplyShard, ShardOf
  <2>3. copied[u].full => copied[u].files # {}
    BY <2>1, <2>2
  <2> HIDE DEF copied
  <2>4. \A v : MarkStale(copied[u], v).full = copied[u].full
               /\ MarkStale(copied[u], v).files = copied[u].files
    BY DEF MarkStale, ShardOf
  <2> QED
    BY <2>3, <2>4
<1>10. ASSUME NEW u \in Users, Current(told[u]), ~(\E c \in a.copies : u = a.user)
       PROVE  Current(marked[u]) /\ told[u].version = marked[u].version
  <2> HIDE DEF marked
  <2>1. copied[u] = marked[u]
    BY <1>10
  <2> HIDE DEF copied
  <2>2. told[u] = marked[u] \/ \E v : told[u] = MarkStale(marked[u], v)
    BY <2>1
  <2> HIDE DEF told
  <2>3. ASSUME NEW v, told[u] = MarkStale(marked[u], v)
        PROVE  Current(marked[u]) /\ told[u].version = marked[u].version
    <3>1. /\ told[u].full = marked[u].full /\ told[u].version = marked[u].version
          /\ told[u].stale = (marked[u].stale
                                \/ (marked[u].version < v /\ marked[u].files # {}))
      BY <2>3 DEF MarkStale, ShardOf
    <3>2. told[u].full /\ ~told[u].stale
      BY <1>10 DEF Current
    <3>3. marked[u].full
      BY <3>1, <3>2
    <3>4. ~marked[u].stale
      BY <3>1, <3>2
    <3> QED
      BY <3>1, <3>3, <3>4 DEF Current
  <2> QED
    BY <1>10, <2>2, <2>3
<1>11. ASSUME NEW u \in Users, Current(marked[u]),
              NEW n \in position[w] + 1 .. position'[w], markers[n].user = u
       PROVE  markers[n].version <= shards[w][u].version
  <2>1. a.mark > position[w] /\ n = a.mark /\ n \in a.mark - 1 + 1 .. a.mark
    BY <1>4, <1>6
  <2>2. Current(Stale(w, a.mark - 1, a.mark)[u])
    BY <1>6, <1>11, <2>1
  <2>3. Current(shards[w][u]) /\ ~MarkStale(shards[w][u], markers[n].version).stale
    BY <1>11, <2>1, <2>2, StaleKeeps
  <2>4. n \in 1..Len(markers)
    BY <1>6, <2>1
  <2>5. markers[n].version \in Nat
    BY <2>4, MarkerAt
  <2> QED
    BY <2>3, <2>5, NotStaled
<1> HIDE DEF told, marked, copied
<1>12. Listed(w)'
  BY <1>3, <1>9 DEF Listed
<1>13. ASSUME NEW u \in Users
       PROVE  Serving(w, u)
  <2>1. CASE \E c \in a.copies : u = a.user
    BY <1>7, <2>1 DEF Serving
  <2>2. CASE ~Current(shards'[w][u])
    BY <2>2 DEF Serving, Copied
  <2>3. CASE Current(shards'[w][u]) /\ ~(\E c \in a.copies : u = a.user)
    <3>1. Current(marked[u]) /\ told[u].version = marked[u].version
      BY <1>3, <1>10, <2>3
    <3>2. Current(shards[w][u]) /\ shards'[w][u].version = shards[w][u].version
      BY <1>3, <1>8, <3>1
    <3> QED
      BY <1>11, <3>1, <3>2 DEF Serving
  <2> QED
    BY <2>1, <2>2, <2>3
<1>14. a.copies # {} => Copied(w, a.user)
  <2>1. a.user \in Users
    BY <1>5 DEF TrueAnswer
  <2> QED
    BY <1>7, <2>1
<1> QED
  BY <1>12, <1>13, <1>14 DEF Holds
-----------------------------------------------------------------------------
(* A write whose answer met a gap stays promised, the marker being ahead.   *)
LEMMA GapPromises ==
  ASSUME IInv, IInv', NEW w \in Workers, Flight(w), FlightOn(w), Gap(w),
         NEW c, c = Cause(Head(tasks[w]).kind, Head(tasks[w]).user, Head(tasks[w]).mark)
  PROVE  Promised(w, c)'
<1> DEFINE a == Head(tasks[w])
<1>1. /\ tasks[w] # << >> /\ a.type = "answer" /\ UNCHANGED <<markers, position>>
      /\ ~(a.mark <= position[w] + 1)
  BY DEF Gap, ResumeAnswer, Resuming
<1>2. c.kind = a.kind /\ c.user = a.user /\ c.mark = a.mark
  BY DEF Cause
<1> SUFFICES ASSUME c.kind = "write", c.mark > 0
             PROVE  /\ markers'[c.mark].user = c.user
                    /\ Reaches(w, c.user, markers[c.mark].version)'
                    /\ ~(c.mark <= position'[w])
  BY DEF Promised
<1>3. /\ c.user \in Users /\ c.mark \in 1..Len(markers)
      /\ markers[c.mark].user = c.user /\ markers[c.mark].version \in Nat
      /\ Reaches(w, c.user, markers[c.mark].version)
  BY <1>1, <1>2, WriteReaches
<1> PICK v \in Nat : v = markers[c.mark].version
  BY <1>3
<1> PICK u \in Users : u = c.user
  BY <1>3
<1>4. Reaches(w, u, v)'
  <2>1. Reaches(w, u, v)
    BY <1>3
  <2> QED
    BY <2>1 DEF FlightOn
<1>5. position[w] \in Nat /\ c.mark \in Nat
  <2>1. position[w] \in Nat
    BY DEF IInv, WorkersOK, Marks
  <2>2. Len(markers) \in Nat
    BY StoredVersions
  <2>3. \A n \in 1..Len(markers) : n \in Nat
    BY <2>2
  <2>4. c.mark \in 1..Len(markers)
    BY <1>3
  <2> QED
    BY <2>1, <2>3, <2>4
<1>6. ~(c.mark <= position[w])
  BY <1>1, <1>2, <1>5
<1> QED
  BY <1>1, <1>3, <1>4, <1>6

LEMMA AskedKept ==
  ASSUME IInv, IInv', OneWrite, [Next]_vars, NEW x \in Workers, Flight(x), FlightOn(x)
  PROVE  \A c \in Causes' : Asked(x, c)' => Asked(x, c) \/ Promised(x, c)'
<1> TAKE c \in Causes'
<1>1. CASE c.kind = "handler"
  BY <1>1 DEF Promised
<1>2. CASE c.kind # "handler"
  BY <1>2, NextAsks, GapPromises
<1> QED
  BY <1>1, <1>2

(* A step that acknowledges nothing.                                        *)
LEMMA QuietServed ==
  ASSUME IInv, IInv', OneWrite, [Next]_vars, Advances, NEW x \in Workers, Flight(x),
         FlightOn(x), Served(x), Holds(x), acked' = acked
  PROVE  Served(x)'
<1>1. Listed(x)' /\ \A u \in Users : Serving(x, u)
  BY DEF Holds
<1>2. \A c \in Causes' : Asked(x, c)' => Asked(x, c) \/ Promised(x, c)'
  BY AskedKept
<1> QED
  BY <1>1, <1>2, ServedStays

LEMMA Acknowledged ==
  ASSUME acked \in [Workers -> [Users -> Nat]], NEW w \in Workers, NEW c, Acknowledge(w, c),
         c.kind = "write" /\ c.mark > 0 => markers[c.mark].version \in Nat
  PROVE  /\ acked' \in [Workers -> [Users -> Nat]]
         /\ \A x \in Workers, u \in Users :
              \/ acked'[x][u] = acked[x][u]
              \/ /\ x = w /\ u = c.user /\ c.kind = "write" /\ c.mark > 0
                 /\ acked'[x][u] = markers[c.mark].version
<1>1. CASE ~(c.kind = "write" /\ c.mark > 0)
  BY <1>1 DEF Acknowledge
<1>2. CASE c.kind = "write" /\ c.mark > 0
  <2> PICK v \in Nat : v = markers[c.mark].version
    BY <1>2
  <2> DEFINE row == [acked[w] EXCEPT ![c.user] = v]
  <2>1. acked' = [acked EXCEPT ![w] = row]
    BY <1>2 DEF Acknowledge
  <2>2. row \in [Users -> Nat]
        /\ \A u \in Users : row[u] = IF u = c.user THEN v ELSE acked[w][u]
    OBVIOUS
  <2> HIDE DEF row
  <2>3. \A x \in Workers : acked'[x] = IF x = w THEN row ELSE acked[x]
    BY <2>1
  <2>4. acked' \in [Workers -> [Users -> Nat]]
    BY <2>1, <2>2
  <2> QED
    BY <1>2, <2>2, <2>3, <2>4
<1> QED
  BY <1>1, <1>2

(* An accepted answer acknowledges what it copied.                          *)
LEMMA ResumeAnswerServed ==
  ASSUME IInv, IInv', OneWrite, InFlight, AckedOK, [Next]_vars, Advances,
         \A x \in Workers : FlightOn(x), NEW w \in Workers, ResumeAnswer(w)
  PROVE  AckedOK'
<1> DEFINE a == Head(tasks[w])
           c == Cause(a.kind, a.user, a.mark)
<1>1. /\ UNCHANGED markers /\ tasks[w] # << >> /\ a.type = "answer"
  BY DEF ResumeAnswer, Resuming
<1>2. /\ position \in [Workers -> Nat] /\ shards \in [Workers -> [Users -> Shard]]
      /\ acked \in [Workers -> [Users -> Nat]]
      /\ \A x \in Workers : Flight(x) /\ Served(x) /\ Listed(x)
  BY DEF IInv, WorkersOK, Marks, InFlight, AckedOK, Served
<1>3. ASSUME NEW x \in Workers, x # w
      PROVE  Holds(x)
  <2>1. shards'[x] = shards[x] /\ position'[x] = position[x]
    BY <1>2, <1>3 DEF ResumeAnswer
  <2> QED
    BY <1>2, <2>1, StillServes
<1>4. CASE ~(a.mark <= position[w] + 1)
  <2>1. UNCHANGED <<position, shards, acked>>
    BY <1>4 DEF ResumeAnswer
  <2>2. Holds(w)
    BY <1>2, <2>1, StillServes
  <2>3. \A x \in Workers : Served(x)'
    BY <1>2, <1>3, <2>1, <2>2, QuietServed
  <2> QED
    BY <1>2, <2>1, <2>3 DEF AckedOK
<1>5. CASE a.mark <= position[w] + 1
  <2>1. Holds(w) /\ (a.copies # {} => Copied(w, a.user))
    BY <1>2, <1>5, AnswerHolds
  <2>2. c.kind = a.kind /\ c.user = a.user /\ c.mark = a.mark
    BY DEF Cause
  <2>3. a.kind = "write" /\ a.mark > 0 =>
          /\ a.user \in Users /\ markers[a.mark].version \in Nat /\ a.copies # {}
          /\ Reaches(w, a.user, markers[a.mark].version)
    BY <1>1, <1>2, WriteReaches
  <2>4. Acknowledge(w, c)
    BY <1>5 DEF ResumeAnswer
  <2> HIDE DEF c
  <2>5. /\ acked' \in [Workers -> [Users -> Nat]]
        /\ \A x \in Workers, u \in Users :
             \/ acked'[x][u] = acked[x][u]
             \/ /\ x = w /\ u = a.user /\ a.kind = "write" /\ a.mark > 0
                /\ acked'[x][u] = markers[a.mark].version
    BY <1>2, <2>2, <2>3, <2>4, Acknowledged
  <2>6. ASSUME NEW x \in Workers, NEW u \in Users
        PROVE  \/ acked'[x][u] = acked[x][u]
               \/ \E v \in Nat : acked'[x][u] = v /\ Reaches(x, u, v)' /\ Serves(x, u, v)'
    <3>1. CASE acked'[x][u] = acked[x][u]
      BY <3>1
    <3>2. CASE /\ x = w /\ u = a.user /\ a.kind = "write" /\ a.mark > 0
               /\ acked'[x][u] = markers[a.mark].version
      <4> PICK v \in Nat : v = markers[a.mark].version
        BY <2>3, <3>2
      <4>1. Reaches(x, u, v) /\ Copied(x, u)
        BY <2>1, <2>3, <3>2
      <4>2. Reaches(x, u, v)'
        BY <4>1 DEF FlightOn
      <4>3. Serves(x, u, v)'
        BY <4>1, CopiedServes
      <4> QED
        BY <3>2, <4>2, <4>3
    <3> QED
      BY <2>5, <3>1, <3>2
  <2>7. ASSUME NEW x \in Workers
        PROVE  Served(x)'
    <3>1. Listed(x)' /\ \A u \in Users : Serving(x, u)
      BY <1>3, <2>1 DEF Holds
    <3>2. \A d \in Causes' : Asked(x, d)' => Asked(x, d) \/ Promised(x, d)'
      BY <1>2, AskedKept
    <3> QED
      BY <1>2, <2>6, <3>1, <3>2, ServedStays
  <2> QED
    BY <2>5, <2>7 DEF AckedOK
<1> QED
  BY <1>4, <1>5

(* What a synchronisation does to the shards.                               *)
LEMMA SyncHolds ==
  ASSUME IInv, IInv', OneWrite, NEW w \in Workers, \A x \in Workers : Listed(x),
         ResumeSync(w),
         NEW s, s = Head(tasks[w])
  PROVE  /\ \A x \in Workers : Holds(x)
         /\ s.to \in Nat /\ s.cause \in Causes /\ s.type = "sync" /\ tasks[w] # << >>
         /\ UNCHANGED markers
         /\ \/ acked' = acked
            \/ Acknowledge(w, s.cause) /\ s.to <= position'[w]
<1> DEFINE gap == ~s.whole /\ s.to > position[w] /\ s.from # position[w]
<1>1. Resuming(w, "sync") /\ UNCHANGED markers
  BY DEF ResumeSync, Resuming
<1>2. tasks[w] # << >> /\ s \in Task /\ s.type = "sync"
  BY <1>1, TaskTaken
<1>3. s.to \in Nat /\ s.cause \in Causes
  BY <1>2 DEF Task, TrueAnswer, SyncMessage, Marks
<1>4. position \in [Workers -> Nat] /\ shards \in [Workers -> [Users -> Shard]]
  BY DEF IInv, WorkersOK, Marks
<1>5. /\ IF s.to < position[w] \/ gap \/ (s.to = position[w] /\ ~s.whole)
         THEN UNCHANGED <<position, shards>>
         ELSE IF s.whole THEN Rehydrate(w, s.to)
         ELSE /\ position' = [position EXCEPT ![w] = s.to]
              /\ shards' = [shards EXCEPT ![w] = Stale(w, s.from, s.to)]
      /\ IF gap \/ s.cause.kind = "handler" THEN UNCHANGED acked
         ELSE Acknowledge(w, s.cause)
  BY DEF ResumeSync
<1>6. position[w] \in Nat
  BY <1>4
<1>7. CASE s.to < position[w] \/ gap \/ (s.to = position[w] /\ ~s.whole)
  <2>1. UNCHANGED <<position, shards>>
    BY <1>5, <1>7
  <2>2. \A x \in Workers : Holds(x)
    BY <2>1, StillServes
  <2>3. gap \/ s.to <= position'[w]
    BY <1>3, <1>6, <1>7, <2>1
  <2> QED
    BY <1>1, <1>2, <1>3, <1>5, <2>2, <2>3
<1>8. CASE s.whole /\ Rehydrate(w, s.to)
  <2>1. \A x \in Workers : Holds(x)
    BY <1>8, RehydrateHolds
  <2>2. position'[w] = s.to
    BY <1>8, RehydrateHolds
  <2> QED
    BY <1>1, <1>2, <1>3, <1>5, <2>1, <2>2
<1>9. CASE /\ s.from = position[w]
           /\ position' = [position EXCEPT ![w] = s.to]
           /\ shards' = [shards EXCEPT ![w] = Stale(w, s.from, s.to)]
  <2>1. position'[w] = s.to /\ shards'[w] = Stale(w, s.from, s.to)
    BY <1>4, <1>9
  <2>2. ASSUME NEW x \in Workers
        PROVE  Holds(x)
    <3>1. CASE x = w
      BY <1>1, <1>9, <2>1, <3>1, StaleServes
    <3>2. CASE x # w
      <4>1. shards'[x] = shards[x] /\ position'[x] = position[x]
        BY <1>4, <1>9, <3>2
      <4> QED
        BY <4>1, StillServes
    <3> QED
      BY <3>1, <3>2
  <2> QED
    BY <1>1, <1>2, <1>3, <1>5, <2>1, <2>2
<1>10. s.from = position[w] \/ s.whole \/ s.to < position[w] \/ gap
         \/ (s.to = position[w] /\ ~s.whole)
  BY <1>3, <1>6
<1> QED
  BY <1>5, <1>7, <1>8, <1>9, <1>10

LEMMA ResumeSyncServed ==
  ASSUME IInv, IInv', OneWrite, InFlight, AckedOK, [Next]_vars, Advances,
         \A x \in Workers : FlightOn(x), NEW w \in Workers, ResumeSync(w)
  PROVE  AckedOK'
<1> DEFINE s == Head(tasks[w])
<1> PICK c : c = s.cause
  OBVIOUS
<1>1. /\ acked \in [Workers -> [Users -> Nat]]
      /\ \A x \in Workers : Flight(x) /\ Served(x) /\ Listed(x)
  BY DEF InFlight, AckedOK, Served
<1>2. /\ \A x \in Workers : Holds(x)
      /\ s.to \in Nat /\ c \in Causes /\ s.type = "sync" /\ tasks[w] # << >>
      /\ UNCHANGED markers
      /\ acked' = acked \/ (Acknowledge(w, c) /\ s.to <= position'[w])
  BY <1>1, SyncHolds
<1>3. CASE acked' = acked
  BY <1>1, <1>2, <1>3, QuietServed DEF AckedOK
<1>4. CASE Acknowledge(w, c) /\ s.to <= position'[w]
  <2>1. Promised(w, c)
    <3>1. AnsweredIn(tasks[w], c)
      BY <1>2, LineTypes, AskedHead
    <3> QED
      BY <1>1, <1>2, <3>1 DEF Served, Asked
  <2>2. c.kind = "write" => c.mark <= s.to
    <3>1. Sound(s, store, markers)
      BY <1>1, <1>2, LineTypes, SoundTail DEF Flight
    <3> QED
      BY <1>2, <3>1 DEF Sound
  <2>3. c.kind = "write" /\ c.mark > 0 => c.user \in Users /\ c.mark \in 1..Len(markers)
    <3>1. Len(markers) \in Nat
      BY StoredVersions
    <3> QED
      BY <1>2, <3>1 DEF Causes, Marks
  <2>4. c.kind = "write" => Serving(w, c.user)
    BY <1>2 DEF Causes, Holds
  <2>5. Promised(w, c)'
    BY <1>1, <1>2, <2>1, <2>4, PromiseStays
  <2>6. c.kind = "write" /\ c.mark > 0 => markers[c.mark].version \in Nat
    BY <2>3, MarkerAt
  <2>7. /\ acked' \in [Workers -> [Users -> Nat]]
        /\ \A x \in Workers, u \in Users :
             \/ acked'[x][u] = acked[x][u]
             \/ /\ x = w /\ u = c.user /\ c.kind = "write" /\ c.mark > 0
                /\ acked'[x][u] = markers[c.mark].version
    BY <1>1, <1>4, <2>6, Acknowledged
  <2>8. ASSUME NEW x \in Workers, NEW u \in Users
        PROVE  \/ acked'[x][u] = acked[x][u]
               \/ \E v \in Nat : acked'[x][u] = v /\ Reaches(x, u, v)' /\ Serves(x, u, v)'
    <3>1. CASE acked'[x][u] = acked[x][u]
      BY <3>1
    <3>2. CASE /\ x = w /\ u = c.user /\ c.kind = "write" /\ c.mark > 0
               /\ acked'[x][u] = markers[c.mark].version
      <4> PICK v \in Nat : v = markers'[c.mark].version
        BY <1>2, <2>6, <3>2
      <4>1. position'[w] \in Nat /\ c.mark \in Nat
        BY <2>3, <3>2 DEF IInv, WorkersOK, Marks
      <4>2. c.mark <= position'[w]
        BY <1>2, <1>4, <2>2, <3>2, <4>1
      <4>3. Reaches(w, u, v)' /\ Serves(w, u, v)'
        <5>1. /\ Reaches(w, c.user, markers[c.mark].version)'
              /\ Serves(w, c.user, markers[c.mark].version)'
          BY <2>5, <3>2, <4>2 DEF Promised
        <5> QED
          BY <3>2, <5>1
      <4> QED
        BY <1>2, <3>2, <4>3
    <3> QED
      BY <2>7, <3>1, <3>2
  <2>9. ASSUME NEW x \in Workers
        PROVE  Served(x)'
    <3>1. Listed(x)' /\ \A u \in Users : Serving(x, u)
      BY <1>2 DEF Holds
    <3>2. \A d \in Causes' : Asked(x, d)' => Asked(x, d) \/ Promised(x, d)'
      BY <1>1, AskedKept
    <3> QED
      BY <1>1, <2>8, <3>1, <3>2, ServedStays
  <2> QED
    BY <2>7, <2>9 DEF AckedOK
<1> QED
  BY <1>2, <1>3, <1>4
-----------------------------------------------------------------------------
LEMMA ReceivingServed ==
  ASSUME IInv, IInv', OneWrite, InFlight, AckedOK, [Next]_vars, Advances,
         \A x \in Workers : FlightOn(x), NEW w \in Workers,
         ReceiveMarker(w) \/ ReceiveSnapshot(w)
  PROVE  AckedOK'
<1>1. /\ acked' = acked /\ acked \in [Workers -> [Users -> Nat]]
      /\ \A x \in Workers : Flight(x) /\ Served(x) /\ Listed(x)
  BY DEF InFlight, AckedOK, Served, ReceiveMarker, ReceiveSnapshot, Receiving
<1>2. ASSUME NEW x \in Workers
      PROVE  Holds(x)
  <2>1. CASE ReceiveMarker(w)
    BY <1>1, <2>1, ReceiveMarkerHolds
  <2>2. CASE UNCHANGED <<position, shards>>
    BY <1>1, <2>2, StillServes
  <2>3. CASE Rehydrate(w, Head(down[w]).mark)
    BY <1>1, <2>3, RehydrateHolds
  <2> QED
    BY <2>1, <2>2, <2>3 DEF ReceiveSnapshot
<1>3. \A x \in Workers : Served(x)'
  BY <1>1, <1>2, QuietServed
<1> QED
  BY <1>1, <1>3 DEF AckedOK

LEMMA OthersServed ==
  ASSUME IInv, IInv', OneWrite, InFlight, AckedOK, [Next]_vars, Advances,
         \A x \in Workers : FlightOn(x), UNCHANGED <<position, shards, acked>>
  PROVE  AckedOK'
<1>1. /\ acked \in [Workers -> [Users -> Nat]]
      /\ \A x \in Workers : Flight(x) /\ Served(x) /\ Listed(x)
  BY DEF InFlight, AckedOK, Served
<1>2. \A x \in Workers : Holds(x)
  BY <1>1, StillServes
<1>3. \A x \in Workers : Served(x)'
  BY <1>1, <1>2, QuietServed
<1> QED
  BY <1>1, <1>3 DEF AckedOK

LEMMA InitServed == Init => InFlight /\ AckedOK
<1> SUFFICES ASSUME Init
             PROVE  InFlight /\ AckedOK
  OBVIOUS
<1>1. /\ unsent = << >> /\ up = [w \in Workers |-> << >>]
      /\ down = [w \in Workers |-> << >>] /\ tasks = [w \in Workers |-> << >>]
      /\ acked = [w \in Workers |-> [u \in Users |-> 0]]
      /\ store = [u \in Users |-> NoShard]
      /\ shards = [w \in Workers |-> [u \in Users |-> NoShard]]
  BY DEF Init
<1>2. /\ DOMAIN << >> = {} /\ NoShard.full = FALSE /\ NoShard.version = 0
  BY DEF NoShard, ShardOf
<1>3. DOMAIN Answers(unsent) = {}
  BY <1>1, <1>2 DEF Answers
<1>4. ASSUME NEW x \in Workers
      PROVE  Flight(x)
  BY <1>1, <1>2, <1>3 DEF Flight, InLine, Ascending, Precedes, AllSound
<1>5. ASSUME NEW x \in Workers
      PROVE  Served(x)
  <2>1. \A u \in Users : Reaches(x, u, 0)
    BY <1>1, <1>2, <1>3 DEF Reaches, NoneBehind, NoneOlder
  <2>2. \A u \in Users : ~Current(shards[x][u]) /\ ~shards[x][u].full
    BY <1>1, <1>2 DEF Current
  <2>3. Acked(x) /\ Listed(x)
    BY <1>1, <2>1, <2>2 DEF Acked, Listed, Serves
  <2>4. \A c : ~Asked(x, c)
    BY <1>1, <1>2 DEF Asked, AskedOf, AnsweredIn
  <2> QED
    BY <2>3, <2>4 DEF Served
<1> QED
  BY <1>1, <1>4, <1>5 DEF InFlight, AckedOK

LEMMA NextServed ==
  IInv /\ IInv' /\ OneWrite /\ InFlight /\ AckedOK /\ [Next]_vars
    => InFlight' /\ AckedOK'
<1> SUFFICES ASSUME IInv, IInv', OneWrite, InFlight, AckedOK, [Next]_vars
             PROVE  InFlight' /\ AckedOK'
  OBVIOUS
<1>1. Advances /\ \A x \in Workers : FlightOn(x)
  BY NextFlight
<1>2. InFlight'
  BY <1>1 DEF InFlight, FlightOn
<1>3. CASE UNCHANGED <<position, shards, acked>>
  BY <1>1, <1>2, <1>3, OthersServed
<1>4. ASSUME NEW w \in Workers, ReceiveMarker(w) \/ ReceiveSnapshot(w)
      PROVE  AckedOK'
  BY <1>1, <1>4, ReceivingServed
<1>5. ASSUME NEW w \in Workers, ResumeAnswer(w) \/ ResumeSync(w)
      PROVE  AckedOK'
  BY <1>1, <1>5, ResumeAnswerServed, ResumeSyncServed
<1>6. CASE Primary
  <2>1. UNCHANGED <<position, shards, acked>>
    BY <1>6 DEF Primary, RunMutation, FinishScan, ReloadConfig, SendAnswer, FireWatch,
       StartScan, HandleCommit, HandleEnsureLoaded, HandleSync, Handling
  <2> QED
    BY <1>3, <2>1
<1>7. ASSUME NEW w \in Workers, Worker(w)
      PROVE  AckedOK'
  <2>1. CASE CommitWrite(w) \/ ReceiveAnswer(w)
    <3>1. UNCHANGED <<position, shards, acked>>
      BY <2>1 DEF CommitWrite, ReceiveAnswer, Receiving
    <3> QED
      BY <1>3, <3>1
  <2>2. ASSUME NEW u \in Users, Read(w, u) \/ \E f \in Files : WriteFile(w, u, f)
        PROVE  AckedOK'
    <3>1. UNCHANGED <<position, shards, acked>>
      BY <2>2 DEF Read, WriteFile
    <3> QED
      BY <1>3, <3>1
  <2> QED
    BY <1>4, <1>5, <1>7, <2>1, <2>2 DEF Worker
<1>8. ASSUME NEW u \in Users, NEW f \in Files, ForeignChange(u, f)
      PROVE  AckedOK'
  <2>1. UNCHANGED <<position, shards, acked>>
    BY <1>8 DEF ForeignChange
  <2> QED
    BY <1>3, <2>1
<1>9. CASE UNCHANGED vars
  BY <1>3, <1>9 DEF vars
<1> QED
  BY <1>2, <1>6, <1>7, <1>8, <1>9 DEF Next

(* A worker that has answered a request's write never serves that user's    *)
(* index as it was before: it holds the written shard or a later one, or    *)
(* knows that its copy is stale (watchdog.js applies the copies of an       *)
(* answer with its delta, and a gap is synchronised before the answer).     *)
THEOREM WritersServe == Spec => []WritersSeeTheirWrites
<1>1. Init => IInv /\ OneWrite /\ InFlight /\ AckedOK
  BY InitIInv, InitOneWrite, InitServed
<1>2. IInv /\ OneWrite /\ InFlight /\ AckedOK /\ [Next]_vars
        => (IInv /\ OneWrite /\ InFlight /\ AckedOK)'
  BY NextIInv, NextOneWrite, NextServed
<1>3. IInv /\ AckedOK => WritersSeeTheirWrites
  <2> SUFFICES ASSUME IInv, AckedOK, NEW w \in Workers, NEW u \in Users,
                      Current(shards[w][u])
               PROVE  shards[w][u].version >= acked[w][u]
    BY DEF WritersSeeTheirWrites
  <2>1. acked[w][u] \in Nat /\ Serves(w, u, acked[w][u])
    BY DEF AckedOK, Served, Acked
  <2> QED
    BY <2>1, ShardTyped DEF Serves
<1> QED
  BY <1>1, <1>2, <1>3, PTL DEF Spec
=============================================================================
