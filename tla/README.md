# Formal model of Space Agent

These TLA+ modules model the parts of Space Agent whose correctness depends on
the order in which processes, messages, timers and callbacks run. Every
definition is translated from the code; `PROJECT.json` names, under `map`, the
source lines it stands for, and under `hazards` the places in the code the
properties are aimed at.

Contents: 1 inventory, 2 plan, 3 modules and code, 4 runs, 5 fairness,
6 proofs, 7 what the checks found, 8 what is not modelled.

## 1. Inventory

Space Agent is a Node.js server (`server/`), a browser frontend
(`app/L0/_all/mod/_core`), a command line with a zero-downtime supervisor
(`commands/`) and a desktop package (`packaging/`). With `WORKERS=1` one process
does everything. With more, a primary owns the authoritative state and forks
HTTP workers that hold replicas of it.

| Component | State | Operations | Hard part | What makes it correct | Model |
|---|---|---|---|---|---|
| State system (`server/runtime/state_system.js`) | entries per area, `replicatedVersion`, `deltaLog`, version waiters, locks, expiring entries | `commitEntries`, `getDeltaSince`, `applyDelta`, `applySnapshot`, `setEntry`, `takeEntry`, `acquireLock`, `releaseLock`, `waitForVersion` | retention of deltas, version gaps, an entry that expires as it is taken | a delta answer leads to the present state; a replica holds a state that was committed | `StateReplication`, parts in `JobRunner`, `Logins` |
| Cluster (`server/runtime/cluster.js`) | IPC channels, pending requests, worker startup | ready, broadcasts, state requests, fork and exit | broadcasts overtaking answers, startup synchronisation, exits | a worker's version never goes back and ends up current | `StateReplication`, parts in every other server module |
| Watchdog (`server/lib/file_watch/watchdog.js`) | operation queue, path index, pending paths, timers | refresh, path sync, commit, replica apply, shard load | one operation at a time, continuations after it | the index is what the disk is, but for what is under way | `StateReplication`, `LazyShards` |
| File index store (`server/lib/file_watch/file_index_store.js`) | shards with loaded and stale marks and versions | apply, load, mark stale, forget | an answer that crosses an invalidation | a copy is what the primary had as that version | `LazyShards` |
| Router (`server/router/`) | none of its own | version fence, authentication, dispatch | a request on a worker that lags | a response is not older than what the client has seen | the fence, in `StateReplication` |
| Jobs (`server/jobs/`) | in every process, a timer, a due time and a lock per job | guest cleanup and collection | every process runs the job, judging by indexes of its own, beside requests and other runs | runs keep their distance; a deleted guest is forgotten everywhere, an inactive one is deleted | `JobRunner` |
| Auth (`server/lib/auth/`, the browser's `user_crypto`) | login challenges, `logins.json`, password, key record and share | challenge, login, logout, change and reset of the password | a challenge used twice, two processes rewriting one file, a crash between two files | a challenge admits one login; no session is lost or comes back; the key opens with the password of now | `Logins` |
| Git history (`server/lib/customware/git_history.js`, `server/lib/git/`) | pending commits with debounce timers, suppression depth, a queue per repository | schedule, flush, commit, rollback, revert, preview | a rollback beside a commit, shutdown | every write ends up in a commit, a rollback loses none | `GitHistory` |
| Quota (`server/lib/customware/user_quota.js`) | cached folder sizes per process | plan before a write, apply after it | an index that lags behind the disk, other workers' writes | the folder stays within its limit | `UserQuota` |
| Customware (`server/lib/customware/`) | trees of layers, users, groups, modules | file access, inheritance, module installation | permissions over the index | pure functions of index and user | file operations and installs, in `UserQuota` |
| Share, tmp, utils, API (`server/lib/share`, `server/lib/tmp`, `server/api`) | files | endpoints | file I/O | | |
| Supervisor (`commands/lib/supervisor/`) | children, active and draining, timers | start, check, promote, drain, fall back, restart, stop | flows with awaits meeting in `activeChild` | the proxy's child serves, none is forgotten, outages end | `Supervisor` |
| On-screen agent (`app/L0/_all/mod/_core/onscreen_agent`) | conversation, queue, flags, saves | submit, queue, stop, compact, clear, rerun | calls that meet at awaits, a stop beside a queued message | a message is asked once and none is lost; stops are answered | `AgentConversation` |
| Spaces, framework, other browser modules (`app/L0/_all/mod/_core`) | state of a browser tab | widgets, API client | version floor | reads follow writes | |
| Desktop (`packaging/desktop`) | Electron process | windows, updates | an external updater | | |

Interactions: requests enter the router of a worker, which awaits the version
the client names; handlers change files and call `commitProjectPaths`; in a
worker that is a request to the primary, which indexes the paths in its
watchdog's queue, commits them in the state system, broadcasts the delta to
all workers and schedules a Git commit of the owner roots that were written.
Indexes of `L2/<user>` stay with the primary, and only a marker with the
shard's version is replicated: a worker copies the shard on demand, and judges
the user's quota by it. Login challenges are expiring entries of the primary's
state system, reached over the same channel: only `auth` is given that system.
The rest of a worker uses its own, so each process has job locks of its own, and
its jobs judge guests by its own indexes. Sessions, passwords and keys are files
that every process rewrites for itself. The supervisor knows
none of this: it starts `serve` processes, asks their health endpoint and
points its proxy to one of them. The agent lives in a browser tab and sees the
server as requests that succeed or fail.

## 2. Plan

The order is by how much of the system depends on the component and how far
beyond a unit test its failures lie. Each module composes what it needs of the
others at the interface the code has: a process's locks are part of `JobRunner`,
the primary's expiring entries of `Logins`, commits and broadcasts of
`LazyShards`, `JobRunner`, `GitHistory` and `UserQuota`.

1. `StateReplication`, implementing `AbstractReplica`: done, proved.
2. `LazyShards`, on top of the replicated sequence of markers: done, safety
   proved.
3. `JobRunner`, over locks, indexes and the commits of deleted guests: done,
   safety proved.
4. `Supervisor`: done, safety proved.
5. `GitHistory`: done, safety proved.
6. `Logins`: done, safety proved.
7. `AgentConversation`: done, safety proved.
8. `UserQuota`: done, safety proved.
9. Not written: `VersionFence` (the client's floor in `state-version.js`, the
   router's time limit and 503), `StateLocks` (the queue of waiters of
   `acquireLock`, which has no caller yet), `OperationQueue` (the four
   priorities of the watchdog's queue), partial shards in `LazyShards`, and the
   pure algorithms (group inheritance, overrides, layout of spaces) against
   reference definitions.

Every safety property of a passing run is a theorem. Still worth proving: what
the modules not written yet will state. Modules to be proved about declare no
RECURSIVE operator; the disks of a batch in `UserQuota` are a recursive function.

## 3. Modules and code

Each `MC` module instantiates its specification for TLC (symmetry sets), each
`Proofs` module extends it with theorems.

**AbstractReplica** promises a log of committed states, and workers that show
one of them while they serve, never an older one than before.

**StateReplication** models `state_system.js`, `cluster.js` and the replica side
of `watchdog.js`. An area and id is a key, a delta a function from the keys it
touches. Primary: `CommitAndEmit` (an operation that commits and emits),
`RunCommit` and `FinishCommit` (a `commitProjectPaths` operation that commits
with `emit:false` and the continuation that broadcasts), the answers to
requests. Worker: `AnnounceReady` to `StartInstallSnapshot` are the steps of
`startClusterWorker()` and of `watchdog.start()`; a message of the channel is
received (`Receive*`), an awaited answer resumes later (`Resume*`, the queue
`tasks`), and both put operations into the replica's queue `ops`, which runs
them one at a time (`ApplyDelta`, `ApplySnapshot`, `Gap*`). `Exit` and `Restart`
are a worker's end and its successor. Between a commit with `emit:false` and its
broadcast only operations of the queue can run, because both are microtasks;
the variable `unsent` states that window. `history` and `based` are ghosts.

**LazyShards** models the shards of users: `StartScan`, `Walk` and `FinishScan`
are the walk of a tree, which yields while requests write and watchers fire;
`RunMutation` is the incremental index of changed paths and the commit of a
marker; the worker side asks for a shard, gets its answer, and resumes in a
continuation that may run after newer markers. Which replicated version a
worker has is a position in the sequence of markers, which is what
`StateReplication` shows of it. A shard is the set of paths it lists; the
reconcile visits one user at a time; a worker applies a replicated change in
the turn its message arrives.

**JobRunner** models the job that deletes inactive guests in every runtime, for
each worker's `createAgentServer()` makes a runner too, over the worker's own
state system and watchdog. `Fire` is the timer, which takes the lock of its
process or reschedules, `Remove` the deletion of the next guest with the commit
the run then awaits, `FinishRun` and `FailRun` the end with its `finally` block.
Beside them guests sign up, write and visit (`SignUp`, `Write`, `Visit`), and
what they send is an operation of the primary's queue (`Handle`), whose delta of
the user index goes to every worker (`Tell`) and whose answer, with the shard,
to the one that asked (`Reply`); `Receive` is the worker's side. `Crash` ends a
worker with its run, its lock and what it had to say; `Start` is its successor,
with the primary's user index and no shard. The changes of a guest's files are
numbered: `latest` is the newest on disk, `cutoff` the newest that is too old,
`seen` the newest in a process's index, 0 without the shard. Time is relative,
and a timer may fire late.

**Supervisor** models `supervisor.js` and `child_process.js`. Three flows start
children: `boot` is where `start()` is, `update` where `checkForUpdates()` is,
`restart` where `restartFromTarget()` is; each is a record of the place it
awaits at, the child it holds and its target. They meet in `active` and
`draining`. A process is starting, serving, ending (told to stop) or gone. Until
it serves its failure is the failure of the start (`Discard`); a serving child
crashes with `Crash`, whose three cases are those of the exit handler. The
traffic that keeps an old child draining is abstracted to when draining is
over. A child is a name, used again once it is gone and nobody lists it.

**GitHistory** models the debounced commits of owner roots. `Write` is a request
that writes and records (in a worker it mails the primary, `Publish`), `Tick`
and `TimerFires` the shrinking debounce of `scheduleOwnerCommit`. A repository
has one queue of native Git tasks per process (`queue`), whose first runs: a
commit is `RunAdd` and `RunCommit`, a rollback `RunKeep` and `RunReset`, a revert
`RunRevert`. `Ask` is the rollback, revert or preview endpoint: it flushes the
owner's pending commit, waits for it, and queues its own task under suppression,
with the sign-in files in a snapshot. `Init` chooses between one process and a
cluster, where the primary has the timers and a worker runs the rollbacks, each
with queues of its own. `BeginClose`, `FlushNext` and `Exit` are `close()`.
Faults: a Git command fails, a handler throws after it wrote, a process is
killed. One change of one owner (`Watched`) is followed through working tree,
index, head and what a preserved ref keeps; other owners only schedule.

**Logins** models one user's files and browsers. `AskChallenge` to `Answer` is a
login: the challenge is taken in the primary (`TakeChallenge`), the proof checked
and the files written in one turn of the worker, one file operation per step, so
that two processes (two workers, or the user command) interleave inside it and a
crash falls between two files. A first login writes the key record and the
server's share. `SendChange` to `WrapRecord` is a change of the password by the
user, `BeginReset` to `InvalidateRecord` the administrator's command, which
writes an invalidated record of an account without a key too. Faults: a
process ends, a request is sent twice, the server restarts on a machine without
the shares' directory. Cryptography is what it must do: a record opens with the
password and the share it was wrapped with.

**AgentConversation** models the agent's loop in one tab. A flow is a call of
`submitMessage`, compact, clear or rerun, and its place the await it stands at;
code between two awaits is one step. The user types, queues, stops and clicks at
any await; a request, an execution, a compaction or a save may throw.
`BoundaryAfter` is the decision between a stop, a queued message and the code of
a reply. Replies are text, code, nothing, or cut off. The history is a sequence
of kinds, and saves are coalesced as in the code (`pending`, `saving`, `stored`).

**UserQuota** models a user's folder: its cached size in each process, the plan
of a request from the index (`Delta`, `Accepts`), its file operations one after
the other with the point where one fails (`Stop`), and how the index learns of
it later: `Report` tells the primary, which makes a version, and `Deliver`,
`HearGap` and `Fill` are the worker's side; `Commit` forgets the size because
`.git` has grown. Batches of writes, copies, moves and
deletes, sign-in files the backend writes without asking, and the install of a
module with its await between plan and move. With one process the primary's
index holds the folder from the start.

## 4. Runs

| Run | Shows | Bounds |
|---|---|---|
| `replication_one_worker` | `Coherent`, `ServedVersionsGrow`, `EventuallyCaughtUp` | one worker with one exit, two keys, three versions, one retained delta |
| `replication_config_reload` | `DeltaSinceIsComplete`, `ImplementsAbstract` | one worker with one exit, one key, three versions, two retained deltas, one reload of the configuration |
| `lazy_shards` | `ShardsAreTrue`, `IndexTracksDisk`, `WritersSeeTheirWrites` | one worker that reads and writes, two files, one write, one foreign change, two walks, one full snapshot |
| `lazy_shards_stale_copy` | counterexample to `CurrentMeansFresh` | two workers |
| `job_runs` | `RunsSpaced`, `GoneIsForgotten`, `InactiveGuestsGo` | a primary and a worker, two guests, two requests, one failed run or exit, a job every tick |
| `jobs_active_guests` | counterexample to `ActiveGuestsKept` | a primary and two workers, one guest, one request |
| `supervisor` | `ActiveServes`, `NoChildLost`, `RestartsSucceed`, `UpdateArrives` | four children, one published revision, three failures |
| `supervisor_lost_restart` | counterexample to `OutageEnds` | three children, one revision, two failures |
| `agent_conversation` | `OneAtATime`, `MessagesKept`, `AskedOnce`, `StoredWhenQuiet`, `QueuedAfterOutput`, `SeriesDrainsQueue`, `StopIsAnswered` | two messages, one reply with code, one click, one fault, no click inside another's first awaits |
| `git_history` | `WaitIsBounded`, `WritesStayReachable`, `UncommittedIsScheduled`, `AuthFilesStay`, `FlushedAtClose`, `EventuallyCommitted` | two owners, one request at a time, two tasks waiting per queue, one fault, a debounce of three ticks that shrinks to two, to one and to none |
| `logins` | `ChallengeUsedOnce`, `SessionsAreKept`, `PasswordEndsSessions`, `KeyOpens`, `BrowsersShareKey`, `KeyIsKept` | two browsers, three challenges, two requests under way, two workers, one new password, one fault |
| `user_quota` | types, `CacheIsExact`, `CachesSettle`, `LimitHolds`, `MovesReplaceNothing` | two files in the folder and one outside, sizes to two, limit three, batches of two, three changes in one server and two in a cluster of two, one fault |

Why the bounds are enough: versions start at 1, and one or two retained deltas
with three versions make the log forget a delta a worker still needs, so the
snapshot fallback, the gap and the stale answer all happen; one exit reaches
every place of a worker's startup, and its writes run on as nobody's, beside its
successor, as another worker's would. Workers do not talk to each other: two of
them with three versions are beyond two million states and are left to the
proofs, which hold for any number. Two walks and one snapshot let a copy be
loaded, forgotten, loaded again and crossed by both kinds of change. In
`job_runs` two guests let a run fail or wait at one and go on to the other, and
a worker beside the primary lets two runs delete the same guest, with one of two
requests loading it between the removal and its commit. Four children let an active one, two old ones and
a starting one coexist, and three failures a crash, a failed restart and the
crash of a fallback. Two messages of the agent are one that is asked and one
that is queued behind it. In `git_history` one owner is followed and the other's
rollback suppresses; waits go through all four debounces. Three challenges are
two first logins that overlap and one after them; browsers, requests and
challenges are symmetric, workers only but for the first. Two workers of
`user_quota` are the one that writes and the one that has not heard; changes are
bounded tighter in a cluster because each change there is told in four steps.

Each property has a mutant in `PROJECT.json`: a definition of the model changed
the way a bug would change the code, which the run then finds. `MaxVersion`,
`MaxExits`, `MaxReloads`, `MaxWrites`, `MaxForeign`, `MaxScans`, `MaxRequests`,
`MaxRevision`, `MaxFailures`, `MaxMessages`, `MaxCode`, `MaxClicks`, `MaxFaults`,
`MaxQueue`, `MaxPasswords`, `MaxSize`, `MaxBatch`, `MaxChanges` and
`MaxClusterChanges` bound the counters. Two constants choose what is explored:
`Overlap` whether a click may fall inside another's first awaits, `Settings`
which pairs of `WORKERS > 1` and a relocated `CUSTOMWARE_PATH` there are. The
type invariant is a conjunct of every inductive invariant that is proved; `UserQuota`
also runs its own, where a clamp keeps a size a number. Deadlock is not checked where the bounds
let a system stop: `LazyShards`, `AgentConversation`, `GitHistory` (which
closes), `Logins`, `UserQuota`, and `Supervisor`, which stops.

## 5. Fairness

- `StateReplication.FairSpec`: event loops take their messages, continuations
  and operations (weak fairness per worker), a worker that exited is replaced,
  and clients repeat a fenced request until the worker is current, which is
  what a 503 asks of them. The primary answers every worker: its event loop
  reads each channel in turn, so one worker's request is not put off for ever
  by another's (strong fairness). Writes need no fairness, they are bounded.
- `JobRunner.FairSpec`: time passes, timers fire and runs go on to their end, the
  primary handles its queue, messages arrive and exited workers are replaced.
  Requests, failures and exits are owed by nobody, nor is growing old.
- `Supervisor.FairSpec`: timers fire; a start becomes healthy or fails by its
  startup timeout, and failures are bounded, so one succeeds; the drain has
  `drainTimeoutMs`; a child told to stop ends, by SIGKILL after its grace. A
  child whose start failed gets SIGTERM alone: its end is assumed, and only
  matters to the supply of names.
- `AgentConversation.FairSpec`: an await ends, well or badly, and a save too.
  The user owes nothing.
- `GitHistory.FairSpec`: time passes and timers fire, the tasks of a repository
  run in turn in the server, and the primary reads a worker's mail. Neither
  writes, rollbacks, closes nor the worker's tasks are owed.
- `Logins` and `UserQuota` state safety only.

## 6. Proofs

`tlapm` checks all of them, for every value of the constants that satisfies the
`ASSUME`s (positive retention, natural bounds, distinct null values, finite sets
of processes and files, `Ttl >= Every > 0`, which `normalizeSchedule` enforces).

**StateReplicationProofs.** `IInv` is `TypeOK` and: the log can rebuild the
present from any version it starts at (`LogOK`), every delta and snapshot in a
channel, task or queue is true of the history (`InFlightOK`), a replica is a
state of the history and not ahead (`ReplicasOK`). `Coherent` alone is not
inductive: a replica's next state depends on the delta on its way, which is
true only because the log it was flattened from was complete. From `IInv`
follow `TypeCorrect`, `ReplicasCoherent`, `DeltaSinceComplete`, the action
property `VersionsGrow`, and `Refinement`: every step is a step of
`AbstractReplica` or a stutter under the mapping given there.

**LazyShardsProofs.** `IInv` says that everything a store, a queue or a channel
holds as version v of a shard is what `published[v]` records. `CopiesAreTrue`
and `ShardTypes` follow. `DiskIsTracked` rests on two more invariants.
`OneWrite`: a worker's open write is one token, at one place at a time among the
commit, the mutation, the answer, its ways down and the question a gap asks; so
an answer never closes a write whose commit is still on its way, and `writing`
can stand for it. `Indexed`: a file the index has wrong is noticed, missed,
queued, or written and not yet queued, and so is what a walk under way may have
seen otherwise than it is. `WritersServe` needs the order of the three queues
between the primary and a worker: what is sent first is not newer than what is
sent after it (`InFlight`); and, for each write a worker answered, that nothing
on its way to the worker is older than that write and that the worker serves
the written shard, a later one, or none (`AckedOK`). Neither half is inductive
alone: a late answer replaces a copy without comparing versions, so only the
order of the channel keeps it from bringing back an older one; and a write that
met a gap is answered after a delta that reaches its marker (`Promised`).

**JobRunnerProofs.** `IInv` adds to the types five facts. `CountersOK`: no
change is too old that was not made. `TimersWait`: a scheduled timer waits for
what is left of the period, with the lock free; it gives `RunsAreSpaced`. `RemovalsOK`: a
guest who is gone and listed by the primary has a removal in some process's
queue: what else is handled of the guest unlists it, too, or does not list it
again. `DeltasOK`: the last a worker will hear of a guest the primary does not
list is that it is gone. `DownIsEmpty`: nothing is sent to a worker that is down,
so a successor misses nothing. `GoneGuestsAreForgotten` follows from these:
`GoneIsForgotten` alone is not inductive because a delta that lists the guest may
be on its way to a worker that does not know it, and it is the order of the
channel that puts the other behind it.

**SupervisorProofs.** `IInv` adds to `ActiveServes` and `NoChildLost`: a starting
child belongs to exactly one flow; `drainingChildren` lists a child once and
never the active one; until `stop()` none of the listed was told to stop. The
last is what makes a fallback serve, the second what keeps a drain that ends
from stopping the active child.

**GitHistoryProofs.** `Shape` adds to the types that a queue's first task alone has
begun, that only the server adds and commits, and that a request in a queue has
exactly one task there, in the process that runs rollbacks (`QueuesOK`): without
it the end of a task could leave a request behind or release another's
suppression. From it follow `TypeCorrect`, `CommitsDoNotWaitForever` (the
debounce times shrink as the assumption says, so age and what is left are
bounded together) and, with `SnapshotsOK`, `RollbacksKeepAuthFiles`: as long as
no sign-in file changed inside a window, every snapshot waiting in a queue is of
the files of now. `NoWriteIsForgotten` needs `StagedOK` (a change in the tree and
in the head is in the index) and `ScheduledOK`: an uncommitted write has a timer,
a mail, an add, or a commit with the change staged, or, in one process, the
rollback that suppressed it, whose end records it. `NoWriteIsLost` needs
`ReachableOK`: in one process a request's task waits behind one that commits the
followed write and no such task comes behind it, so a reset never runs over an
uncommitted tree, and one that begins has its head kept first.
`CloseFlushesWrites` follows the flush of `close()` (`FlushOK`: a write it must
save that is not committed has an entry still to be flushed, or a task that will
commit it); such a write is in no kept head (`NotKeptYet`), so no rollback beside
the flush can take it for committed.

**LoginsProofs.** `Shape` adds to the types which requests and browsers there
are and what the files may hold. From it, `ChallengesInv` (a challenge is fresh,
in its area, held by one login, or spent) gives `ChallengesAreUsedOnce`.
`SessionsInv` says that, unless two processes were at the files at once
(`"overlap"`), one turn runs at a time and what it read is what is there, so the
file lists the logins begun and not ended (`SessionsAreNotLost`); and, unless a
process ended within a change (`"torn"`), sessions and checked logins are of the
password of now except while a change is on its last step
(`NewPasswordEndsSessions`). `KeysInv` tells two worlds apart: the keys that were
there before, and those that came with a login asked for when there was no
record (`KeysAreKept`).

In the second half of the module `KeyInv`, for as long as nothing was harmed, has five parts
over the invariants above. `RecordKept`: the share is sealed in the record, the
share's file holds no other, and outside the last steps of a change the record
is wrapped with the password of now. `RequestsSeen`: what the one request at the
files relies on (a change that rewraps began when the key could be opened, a
reset that gives up the record ended the sessions first). `BrowsersHold`: a key
held or sent is the record's, and who is logged in has it, if it can be opened,
or is one of `Excused`. `Unprovided`: before the first record no one is logged
in. `TooLate`: after a reset that gave up a key no login that was asked for when
there was no record is still believed, because a password that is to come is not
yet anyone's (`PasswordsInv`): without it a first key could be written over one
that browsers still hold. The record a reset writes of an account without a key
has none to give up, and a first login asked for within that reset does make it
ready: nobody holds another key then, and who had logged in is in the ghost
`keyless`. From these follow `TheKeyOpens` and `BrowsersHoldTheKey`.

**AgentConversationProofs.** Four invariants over the types, each for runs in
which no click fell inside another's first awaits. `OneInv`: one flow at most is
under way, a flow that waits for a save counting where it returns to, and
`isSending` says so; only a stream can be aborted (`OneSeriesAtATime`).
`KeepInv`: a turn's message is in its request, then in the history, and what an
empty or aborted reply restores holds every message of the history
(`NoMessageVanishes`). `StoreInv`: the newest of the pending, travelling and
stored snapshots is the history, unless a flow is at a place from which a save
must follow or a save failed, and a pending snapshot has a flow waiting for it
(`FileFollowsHistory`). `HistInv`: a message is in one of history, queue and
composer, and there once, and each place of a turn knows the end of the history:
the message it asks with, the reply it streams, the kind it got, or no code
(`EachMessageAskedOnce`, `OutputComesFirst`). `AskedOnce` alone is not inductive
because the history is replaced by a request put together several awaits before.
`QueueIsDrained` needs the types only.

**UserQuotaProofs.** The theorems hold for every finite set of processes and of
files, every limit and bound, and rest on three things.

*Sums and batches.* A folder's size is a sum over a finite set, the community
modules' `MapThenSumSet`, and a batch is a recursive function of disks: both
need an induction. The library's induction theorems take an operator, which no
installed prover instantiates, but its well-foundedness of `<` on the naturals
does not: `NaturalsBySet` and `SubsetsBySet` are the two inductions stated over
a *set* of numbers or of subsets, refuted at a least member. From them `SumStep`
and `SumRemove` (what one element adds), `AfterIs` (the disks of a batch exist
and follow one from the other), `BatchApart` (its items do not meet, so each
operation finds its files as they were, `EachSeesDisk`) and `BatchTotal`: when
the sizes a plan reckons with are those on disk, its delta is exactly what the
whole batch adds to the folder.

*Who knows what.* `VersionsOK`: a process that is behind has the newest version
in its mail or has asked for it. `ReportsOK`: a file the index has wrong is to
be reported, or was torn by a request that failed. Together they say what a plan
made "in spite of nothing" knows (`SpitelessIndex`): the newest index, and the
disk for every path it names.

*What a cached size is.* `CacheIsExact` is not inductive: a process's own
requests move its size away from the index before the index hears of them, and
another's move the disk away from both. `SizedOK` says what holds in between: a
size computed in spite of nothing is the sum of a *view* in which each file
stands as the index has it or as this process changed it, and as on disk unless
another has changed it. `SettledOK` ties the size to the newest index for a
process that has read its mail and has no report to come. `FirstOK` says that
while there is only the first version no file has been made and removed again (a
delete and a move ask the index for their source), so that the first report does
make a second version. From these
follow `SizesAreExact`, `SizesSettle`, `NothingIsReplaced` and, with `InstallOK`
(an install planned in spite of nothing still fits until another request
changes a file), the action property `QuotaHolds`. `QuotaTypes` is the type
invariant.

Only model-checked: the liveness properties (`EventuallyCaughtUp`,
`InactiveGuestsGo`, `RestartsSucceed`, `UpdateArrives`, `StopIsAnswered`,
`EventuallyCommitted`). Liveness under fairness and `ENABLED`
are outside what the prover does.

## 7. What the checks found

Three are runs that TLC ends with a counterexample, and findings in
`PROJECT.json` with the line of the documentation they contradict.

- A worker's job deletes a guest who is active on another worker. The worker's
  `createAgentServer()` is given neither a state system nor a job runner
  (`cluster.js:652`), so it makes one over its own (`app.js:192`): its lock is its
  own, and a guest's shard that no request loaded there counts as no change since
  ever (`jobs_active_guests`). The documentation says that "workers never execute
  jobs" (`jobs-and-maintenance.md:42`, also `request-flow-and-pages.md:50`), that
  runs do not overlap (`:45`), and who is deleted (`:72`).
- An answer that resumes after a newer marker was applied installs an older
  shard and clears its stale mark; the version fence then passes on an index
  without the write (`lazy_shards_stale_copy`).
- A crash while a restart is stopping its surplus child is never answered: an
  outage without end (`supervisor_lost_restart`).

Others were met while modelling. Where the model has the behaviour, the
properties except it by name; no run is kept for them.

- Startup: a worker can listen without its startup snapshot: a commit between the
  answer with the snapshot and `watchdog.start()` makes the snapshot stale, and it
  is dropped, though `request-flow-and-pages.md:48` says that snapshots include
  the indexes of L0 and L1. `StartInstallSnapshot` can also move the replica's
  version back, before the worker listens.
- Jobs: since every process runs the job under a lock of its own, the lock keeps
  no two processes apart; the primary, too, may judge a guest by the sign-in files
  alone when no request has loaded the others; a worker that exits between a
  removal and its commit leaves the guest listed until somebody reads the files.
- Supervisor: a restart keeps the target it began with after a newer one was
  promoted and crashed (`supervisor.js:226`); `stop()` during an awaited start
  leaves the child that becomes active after it; a `proxy.listen()` that fails
  leaves the first child running; a failed start gets SIGTERM without SIGKILL;
  a health answer may be read after the child has exited.
- Agent: a turn given up before its request drops the series' message from the
  composer and the history alike (`store.js:5255`); a stop hidden by a queued
  message is not reset when the series completes; messages queued during a rerun
  or a series that fails wait for the next series; two clicks within the first
  awaits start two loops over one history (`raced`).
- Git history: in a cluster the worker's rollbacks run beside the primary's
  commits of the same repository; suppression is one counter for all owners, so
  other owners' writes during a rollback are not scheduled; a failed commit is
  not retried; a handler that throws after writing drops the paths it captured;
  a kill loses the timers, and `serve` has no SIGTERM handler that would close; a
  rollback schedules a commit of its own although the documentation says
  suppressed.
- Logins: two first logins that overlap replace each other's key
  (`service.js:847`); a reset writes an
  invalidated record even of an account without a key, because the share's
  deletion is forced and the early return behind it (`user_crypto.js:559`) never
  taken, and a first login asked for within the reset makes that record ready: who
  logged in meanwhile has no key until the next sign-in; two processes that meet in `logins.json` lose a session or
  bring one back; a change of the password is four files, and a crash within
  leaves old sessions or a key wrapped with the old one; the login's payload
  reads the share without the runtime parameters (`service.js:614`), so with
  `CUSTOMWARE_PATH` as a launch argument and the share's file lost the browser
  stays without a key although the sealed copy is there; the bootstrap endpoint
  for a key is reached only when a record was removed by hand.
- Quota: deltas of requests that overlap in the index drift the single server's
  cached size until the next backend write; an administrator's request is judged
  by a sum over a partial copy; a batch that fails halfway is never told to the
  index; an install reserves nothing over its await; a worker that finds a gap
  forgets its size before it has the missing deltas and may sum the old index
  again; `fs.renameSync` replaces a file the index does not know yet; a copy of
  a file rewritten a moment ago is charged its old size; over the limit not even
  an empty file can be deleted.
- Groups: members of an inheritance cycle depend on the order of evaluation
  (`group_index.js:304`); a hydrated index answers nothing for users it does not
  list (`group_index.js:135`).
- Watchdog and state system: versions start at `Date.now()`, so a restart with a
  clock set back goes below its clients; a steady stream of mutations starves
  the lower priorities of the queue; a partial shard that replaces a full one
  keeps the loaded mark; a lock's expiry wakes no waiter
  (`state_system.js:163`).

## 8. Not modelled

Contents of files, parsing, encryption, HTTP details and Git itself; `close()`
of the cluster beyond what it does to the Git history; the primary's restart
(all workers end with it, and its versions start from the clock); partial shards
of a directory in `LazyShards`; the priorities of the operation queue; the
lock's waiters; the job that deletes oversized guests, which differs in the
measure only; time limits of requests, except as answers that may come late.
In the supervisor: a child that dies between its health answer and the end of
that response.

`Logins` has one user, no creation or deletion of users, no age of sessions, and
no migration of older files. `AgentConversation` leaves out how prompts are put
together and trimmed, the sandbox and the overlay. `GitHistory` follows one
change of one owner; listing and diffing commits, nested repositories and the
JavaScript and command-line Git backends are left out. `UserQuota` takes a
directory for the set of its files, leaves out requests that do not touch the
folder and the decision who may write, and merges an answer to the writer with
the broadcast of the same commit and equal reports of one process.

The frontend beyond the agent, command line, packaging and vendored code
(`web-llm.js`, `marked.esm.js`) are most of the repository's lines. They are
user interface, file I/O and pure functions without an order of events a model
would explore, or third-party code; `PROJECT.json` lists them as
`not_modelled` with the reason.
