--------------------------- MODULE StateReplication ---------------------------
(***************************************************************************)
(* The clustered runtime's replicated state: one primary process commits   *)
(* changes and broadcasts them, every worker process keeps a replica.      *)
(*                                                                         *)
(*   server/runtime/state_system.js     versions, deltas, snapshots        *)
(*   server/runtime/cluster.js          the IPC protocol, both sides       *)
(*   server/lib/file_watch/watchdog.js  the replica's operation queue and  *)
(*                                      its bootstrap                      *)
(*                                                                         *)
(* Data abstraction: an area/id pair is a key of Keys, its value a member  *)
(* of Values, Absent when the entry does not exist.  The changes of a      *)
(* delta are a function from the keys they touch.  The deltaLog array is a *)
(* set of deltas: every delta has its own version range, so the order of   *)
(* the array is the order of toVersion.                                    *)
(*                                                                         *)
(* Bounds: MaxVersion caps commits, MaxExits worker exits, MaxReloads      *)
(* watch-config reloads; a worker has at most one client write and one     *)
(* version-fenced request open at a time.                                  *)
(***************************************************************************)
EXTENDS Integers, Sequences, FiniteSets

CONSTANTS
  Workers,        \* worker processes
  Keys, Values,   \* replicated entries and what they hold
  Absent,         \* no entry
  NoDelta,        \* JavaScript's null where a delta was asked for
  Nobody,         \* the origin of a write whose worker has exited
  DeltaRetention, \* how many deltas the primary remembers
  MaxVersion, MaxExits, MaxReloads

ASSUME ConstantsAssumption ==
  /\ DeltaRetention \in Nat \ {0}
  /\ MaxVersion \in Nat /\ MaxExits \in Nat /\ MaxReloads \in Nat
  /\ Absent \notin Values
  /\ Nobody \notin Workers

VARIABLES
  version,     \* replicatedVersion of the primary's state system
  entries,     \* its replicated entries
  deltaLog,    \* its retained deltas
  history,     \* ghost: history[v] is what entries held at version v
  accepted,    \* commitProjectPaths operations queued on the primary
  unsent,      \* committed with emit:false, the continuation still to run
  phase,       \* where each worker's startClusterWorker() stands
  boot,        \* the worker's initialSnapshot
  replicaVersion, replicaEntries,  \* the worker's replica state system
  based,       \* ghost: some snapshot has been installed in the replica
  up, down,    \* the IPC channel, worker to primary and back
  ops,         \* the replica watchdog's operation queue
  tasks,       \* settled promises whose continuation has not run yet
  open,        \* client requests in progress on the worker
  exits, reloads  \* counters of the bounds

primaryVars == <<version, entries, deltaLog, history>>
commitVars  == <<accepted, unsent>>
replicaVars == <<replicaVersion, replicaEntries, based>>
startVars   == <<phase, boot>>
boundVars   == <<exits, reloads>>
vars == <<version, entries, deltaLog, history, accepted, unsent, phase, boot,
          replicaVersion, replicaEntries, based, up, down, ops, tasks, open,
          exits, reloads>>
-----------------------------------------------------------------------------
(* Data.                                                                    *)
State    == [Keys -> Values \union {Absent}]
Changes  == UNION {[K -> Values \union {Absent}] : K \in SUBSET Keys}
Delta    == [fromVersion : Nat, toVersion : Nat, changes : Changes]
Snapshot == [version : Nat, state : State]

ASSUME NoDeltaAssumption == NoDelta \notin Delta

Empty     == [k \in Keys |-> Absent]
NoChanges == [k \in {} |-> Absent]
NoSnapshot == [version |-> 0, state |-> Empty]

Phases == {"forked", "awaiting", "resolved", "syncing", "synced",
           "starting", "listening"}

(* Who awaits an operation: startup, a version-fenced request, a client     *)
(* write, or a message handler, which only logs a failure.                  *)
Owners == {"boot", "fence", "write", "handler"}

Request(versions) ==
  [method : {"WORKER_READY", "getDeltaSince", "getSnapshot",
             "commitProjectPaths"},
   fromVersion : versions, owner : Owners]

Message(deltas, snapshots) ==
  [type : {"STATE_DELTA"}, body : deltas, owner : Owners]
  \union
  [type : {"getDeltaSince", "commitProjectPaths", "gap"},
   body : deltas \union {NoDelta}, owner : Owners]
  \union
  [type : {"STATE_SNAPSHOT", "getSnapshot"}, body : snapshots, owner : Owners]

Op(deltas, snapshots) ==
  [type : {"delta"}, body : deltas, owner : Owners, payload : BOOLEAN]
  \union
  [type : {"snapshot"}, body : snapshots, owner : Owners, payload : BOOLEAN]

Unsent(deltas) ==
  [origin : Workers \union {Nobody}, delta : deltas \union {NoDelta}]

Apply(state, changes) ==
  [k \in Keys |-> IF k \in DOMAIN changes THEN changes[k] ELSE state[k]]

(* Only keys whose entry really changes make it into the delta.             *)
Effective(state, changes) ==
  [k \in {j \in DOMAIN changes : changes[j] # state[j]} |-> changes[k]]

Req(method, from, owner) ==
  [method |-> method, fromVersion |-> from, owner |-> owner]
Msg(type, body, owner) == [type |-> type, body |-> body, owner |-> owner]

Send(queues, w, m) == [queues EXCEPT ![w] = Append(@, m)]
Drop(queues, w)    == [queues EXCEPT ![w] = Tail(@)]
Broadcast(m)       == [w \in Workers |-> Append(down[w], m)]
-----------------------------------------------------------------------------
(* The primary's state system.                                              *)

(* getDeltaSince: the retained deltas after v in one delta, the last change *)
(* of a key winning, or null when the log no longer starts at v.            *)
Later(v) == {d \in deltaLog : d.toVersion > v}

LastChange(deltas, k) ==
  (CHOOSE d \in deltas :
     /\ k \in DOMAIN d.changes
     /\ \A e \in deltas :
          k \in DOMAIN e.changes => e.toVersion <= d.toVersion).changes[k]

Flatten(deltas) ==
  [k \in UNION {DOMAIN d.changes : d \in deltas} |-> LastChange(deltas, k)]

StartsAt(deltas, v) ==
  \E d \in deltas : /\ d.fromVersion = v
                    /\ \A e \in deltas : d.toVersion <= e.toVersion

LastVersion(deltas) ==
  (CHOOSE d \in deltas :
     \A e \in deltas : e.toVersion <= d.toVersion).toVersion

DeltaSince(v) ==
  IF v >= version
  THEN [fromVersion |-> v, toVersion |-> version, changes |-> NoChanges]
  ELSE IF StartsAt(Later(v), v)
       THEN [fromVersion |-> v, toVersion |-> LastVersion(Later(v)),
             changes |-> Flatten(Later(v))]
       ELSE NoDelta

GetSnapshot == [version |-> version, state |-> entries]

(* Mutant: the trim keeps one delta too few.                                *)
TrimDeltaLogOffByOne(log, last) ==
  {d \in log : d.toVersion > last - DeltaRetention + 1}

TrimDeltaLog(log, last) == {d \in log : d.toVersion > last - DeltaRetention}

CommittedDelta(changes) ==
  IF DOMAIN Effective(entries, changes) = {} THEN NoDelta
  ELSE [fromVersion |-> version, toVersion |-> version + 1,
        changes |-> Effective(entries, changes)]

(* commitEntries with changes that amount to delta, NoDelta when to nothing. *)
CommitEntries(delta) ==
  IF delta = NoDelta THEN UNCHANGED primaryVars
  ELSE /\ version < MaxVersion
       /\ version' = delta.toVersion
       /\ entries' = Apply(entries, delta.changes)
       /\ deltaLog' = TrimDeltaLog(deltaLog \union {delta}, delta.toVersion)
       /\ history' = [v \in 0..delta.toVersion |->
                        IF v <= version THEN history[v]
                        ELSE Apply(entries, delta.changes)]

Init ==
  /\ version = 1
  /\ entries \in State \ {Empty}
  /\ deltaLog = {[fromVersion |-> 0, toVersion |-> 1,
                  changes |-> Effective(Empty, entries)]}
  /\ history = [v \in 0..1 |-> IF v = 0 THEN Empty ELSE entries]
  /\ accepted = << >> /\ unsent = << >>
  /\ phase = [w \in Workers |-> "forked"]
  /\ boot = [w \in Workers |-> NoSnapshot]
  /\ replicaVersion = [w \in Workers |-> 0]
  /\ replicaEntries = [w \in Workers |-> Empty]
  /\ based = [w \in Workers |-> FALSE]
  /\ up = [w \in Workers |-> << >>]
  /\ down = [w \in Workers |-> << >>]
  /\ ops = [w \in Workers |-> << >>]
  /\ tasks = [w \in Workers |-> << >>]
  /\ open = [w \in Workers |-> {}]
  /\ exits = 0 /\ reloads = 0
-----------------------------------------------------------------------------
(* The primary process.                                                     *)

(* A watched file change, a job, an auth write or a shard load commits and  *)
(* emits: the subscriber broadcasts the delta in the same turn.             *)
CommitAndEmit ==
  /\ \E changes \in Changes :
       /\ CommittedDelta(changes) # NoDelta
       /\ CommitEntries(CommittedDelta(changes))
       /\ down' = Broadcast(Msg("STATE_DELTA", CommittedDelta(changes),
                                "handler"))
  /\ UNCHANGED <<accepted, unsent, phase, boot, replicaVersion,
                 replicaEntries, based, up, ops, tasks, open, exits, reloads>>

(* A refresh that reloaded the watch configuration forces a snapshot.       *)
RefreshWithNewConfig ==
  /\ reloads < MaxReloads
  /\ reloads' = reloads + 1
  /\ \E changes \in Changes : CommitEntries(CommittedDelta(changes))
  /\ down' = Broadcast(Msg("STATE_SNAPSHOT",
                           [version |-> version', state |-> entries'],
                           "handler"))
  /\ UNCHANGED <<accepted, unsent, phase, boot, replicaVersion,
                 replicaEntries, based, up, ops, tasks, open, exits>>

(* commitProjectPaths runs as a queued operation that does not emit; its    *)
(* handler broadcasts and answers in a later microtask.  Messages are       *)
(* handled between microtasks, so only when no such continuation is left.   *)
RunCommit ==
  /\ accepted # << >>
  /\ \E changes \in Changes :
       /\ CommitEntries(CommittedDelta(changes))
       /\ unsent' = Append(unsent, [origin |-> Head(accepted),
                                    delta |-> CommittedDelta(changes)])
  /\ accepted' = Tail(accepted)
  /\ UNCHANGED <<phase, boot, replicaVersion, replicaEntries, based, up, down,
                 ops, tasks, open, exits, reloads>>

FinishCommit ==
  /\ unsent # << >>
  /\ LET commit == Head(unsent)
         told   == IF commit.delta = NoDelta THEN down
                   ELSE Broadcast(Msg("STATE_DELTA", commit.delta, "handler"))
     IN down' = IF commit.origin = Nobody THEN told
                ELSE Send(told, commit.origin,
                          Msg("commitProjectPaths", commit.delta, "write"))
  /\ unsent' = Tail(unsent)
  /\ UNCHANGED <<version, entries, deltaLog, history, accepted, phase, boot,
                 replicaVersion, replicaEntries, based, up, ops, tasks, open,
                 exits, reloads>>

(* handleWorkerMessage, one case per kind of message.                       *)
AnswerRequest(w, method, answer) ==
  /\ unsent = << >>
  /\ up[w] # << >>
  /\ Head(up[w]).method = method
  /\ up' = Drop(up, w)
  /\ down' = Send(down, w, answer)
  /\ UNCHANGED <<version, entries, deltaLog, history, accepted, unsent, phase,
                 boot, replicaVersion, replicaEntries, based, ops, tasks, open,
                 exits, reloads>>

HandleReady(w) ==
  AnswerRequest(w, "WORKER_READY", Msg("STATE_SNAPSHOT", GetSnapshot, "handler"))

HandleGetDeltaSince(w) ==
  AnswerRequest(w, "getDeltaSince",
                Msg("getDeltaSince", DeltaSince(Head(up[w]).fromVersion),
                    Head(up[w]).owner))

HandleGetSnapshot(w) ==
  AnswerRequest(w, "getSnapshot",
                Msg("getSnapshot", GetSnapshot, Head(up[w]).owner))

HandleCommit(w) ==
  /\ unsent = << >>
  /\ up[w] # << >>
  /\ Head(up[w]).method = "commitProjectPaths"
  /\ up' = Drop(up, w)
  /\ accepted' = Append(accepted, w)
  /\ UNCHANGED <<version, entries, deltaLog, history, unsent, phase, boot,
                 replicaVersion, replicaEntries, based, down, ops, tasks, open,
                 exits, reloads>>
-----------------------------------------------------------------------------
(* A worker process: its IPC handler.                                       *)
AnnounceReady(w) ==
  /\ phase[w] = "forked"
  /\ phase' = [phase EXCEPT ![w] = "awaiting"]
  /\ up' = Send(up, w, Req("WORKER_READY", 0, "boot"))
  /\ UNCHANGED <<version, entries, deltaLog, history, accepted, unsent, boot,
                 replicaVersion, replicaEntries, based, down, ops, tasks, open,
                 exits, reloads>>

HasWatchdog(w) == phase[w] \in {"syncing", "synced", "starting", "listening"}

Receiving(w, types) ==
  /\ phase[w] # "forked"
  /\ down[w] # << >>
  /\ Head(down[w]).type \in types
  /\ down' = Drop(down, w)

(* The first snapshot resolves the bootstrap promise.                       *)
ReceiveInitialSnapshot(w) ==
  /\ phase[w] = "awaiting"
  /\ Receiving(w, {"STATE_SNAPSHOT"})
  /\ phase' = [phase EXCEPT ![w] = "resolved"]
  /\ boot' = [boot EXCEPT ![w] = Head(down[w]).body]
  /\ UNCHANGED <<version, entries, deltaLog, history, accepted, unsent,
                 replicaVersion, replicaEntries, based, up, ops, tasks, open,
                 exits, reloads>>

(* A broadcast that arrives before the watchdog exists is dropped.          *)
DropEarlyBroadcast(w) ==
  /\ ~HasWatchdog(w)
  /\ \/ Receiving(w, {"STATE_DELTA"})
     \/ phase[w] = "resolved" /\ Receiving(w, {"STATE_SNAPSHOT"})
  /\ UNCHANGED <<version, entries, deltaLog, history, accepted, unsent, phase,
                 boot, replicaVersion, replicaEntries, based, up, ops, tasks,
                 open, exits, reloads>>

OpOf(message, payload) ==
  [type |-> IF message.type \in {"STATE_SNAPSHOT", "getSnapshot"}
            THEN "snapshot" ELSE "delta",
   body |-> message.body, owner |-> message.owner, payload |-> payload]

(* A broadcast is enqueued as soon as its message is handled.               *)
ReceiveBroadcast(w) ==
  /\ HasWatchdog(w)
  /\ Receiving(w, {"STATE_DELTA", "STATE_SNAPSHOT"})
  /\ ops' = Send(ops, w, OpOf(Head(down[w]), TRUE))
  /\ UNCHANGED <<version, entries, deltaLog, history, accepted, unsent, phase,
                 boot, replicaVersion, replicaEntries, based, up, tasks, open,
                 exits, reloads>>

(* A response settles its promise; the awaiting code resumes later.         *)
ReceiveResponse(w) ==
  /\ Receiving(w, {"getDeltaSince", "getSnapshot", "commitProjectPaths"})
  /\ tasks' = Send(tasks, w, Head(down[w]))
  /\ UNCHANGED <<version, entries, deltaLog, history, accepted, unsent, phase,
                 boot, replicaVersion, replicaEntries, based, up, ops, open,
                 exits, reloads>>
-----------------------------------------------------------------------------
(* A worker process: continuations.                                         *)
Resuming(w, types) ==
  /\ tasks[w] # << >>
  /\ Head(tasks[w]).type \in types
  /\ tasks' = Drop(tasks, w)

Closed(w, owner) == [open EXCEPT ![w] = @ \ {owner}]

(* syncWatchdogFromPrimary asks for a snapshot when there is no delta.      *)
ResumeWithoutDelta(w) ==
  /\ Resuming(w, {"getDeltaSince"})
  /\ Head(tasks[w]).body = NoDelta
  /\ up' = Send(up, w, Req("getSnapshot", 0, Head(tasks[w]).owner))
  /\ UNCHANGED <<version, entries, deltaLog, history, accepted, unsent, phase,
                 boot, replicaVersion, replicaEntries, based, down, ops, open,
                 exits, reloads>>

(* A delta or a snapshot that was asked for joins the operation queue.      *)
ResumeWithPayload(w) ==
  /\ Resuming(w, {"getDeltaSince", "getSnapshot", "commitProjectPaths"})
  /\ Head(tasks[w]).body # NoDelta
  /\ ops' = Send(ops, w, OpOf(Head(tasks[w]),
                              Head(tasks[w]).type = "commitProjectPaths"))
  /\ UNCHANGED <<version, entries, deltaLog, history, accepted, unsent, phase,
                 boot, replicaVersion, replicaEntries, based, up, down, open,
                 exits, reloads>>

ResumeUnchangedWrite(w) ==
  /\ Resuming(w, {"commitProjectPaths"})
  /\ Head(tasks[w]).body = NoDelta
  /\ open' = Closed(w, "write")
  /\ UNCHANGED <<version, entries, deltaLog, history, accepted, unsent, phase,
                 boot, replicaVersion, replicaEntries, based, up, down, ops,
                 exits, reloads>>

(* applyPrimarySyncPayload caught a version gap: synchronise.               *)
ResumeAfterGap(w) ==
  /\ Resuming(w, {"gap"})
  /\ up' = Send(up, w, Req("getDeltaSince", replicaVersion[w],
                           Head(tasks[w]).owner))
  /\ UNCHANGED <<version, entries, deltaLog, history, accepted, unsent, phase,
                 boot, replicaVersion, replicaEntries, based, down, ops, open,
                 exits, reloads>>
-----------------------------------------------------------------------------
(* A worker process: the replica watchdog's operation queue.                *)

(* What awaited the operation continues.                                    *)
Finished(w, owner) ==
  /\ open' = Closed(w, owner)
  /\ phase' = IF owner = "boot" THEN [phase EXCEPT ![w] = "synced"] ELSE phase

Running(w, type) ==
  /\ ops[w] # << >>
  /\ Head(ops[w]).type = type
  /\ ops' = Drop(ops, w)

(* applyDelta: stale, applicable, or STATE_VERSION_GAP.                     *)
Stale(delta, v) == delta.toVersion <= v

(* Mutants: a delta of another version is applied; any delta is.            *)
AppliesAcrossGap(delta, v) == ~Stale(delta, v)
AlwaysApplies(delta, v) == TRUE

Applies(delta, v) == ~Stale(delta, v) /\ delta.fromVersion = v

(* Mutant: the deletions of a delta are left out.                           *)
ApplyDeltaWithoutDeletes(w) ==
  /\ Running(w, "delta")
  /\ Applies(Head(ops[w]).body, replicaVersion[w])
  /\ replicaVersion' = [replicaVersion EXCEPT ![w] = Head(ops[w]).body.toVersion]
  /\ LET changes == Head(ops[w]).body.changes
         written == {k \in DOMAIN changes : changes[k] # Absent}
     IN replicaEntries' =
          [replicaEntries EXCEPT
             ![w] = Apply(@, [k \in written |-> changes[k]])]
  /\ Finished(w, Head(ops[w]).owner)
  /\ UNCHANGED <<version, entries, deltaLog, history, accepted, unsent, boot,
                 based, up, down, tasks, exits, reloads>>

ApplyDelta(w) ==
  /\ Running(w, "delta")
  /\ Applies(Head(ops[w]).body, replicaVersion[w])
  /\ replicaVersion' = [replicaVersion EXCEPT ![w] = Head(ops[w]).body.toVersion]
  /\ replicaEntries' =
       [replicaEntries EXCEPT ![w] = Apply(@, Head(ops[w]).body.changes)]
  /\ Finished(w, Head(ops[w]).owner)
  /\ UNCHANGED <<version, entries, deltaLog, history, accepted, unsent, boot,
                 based, up, down, tasks, exits, reloads>>

ApplySnapshot(w) ==
  /\ Running(w, "snapshot")
  /\ Head(ops[w]).body.version >= replicaVersion[w]
  /\ replicaVersion' = [replicaVersion EXCEPT ![w] = Head(ops[w]).body.version]
  /\ replicaEntries' = [replicaEntries EXCEPT ![w] = Head(ops[w]).body.state]
  /\ based' = [based EXCEPT ![w] = TRUE]
  /\ Finished(w, Head(ops[w]).owner)
  /\ UNCHANGED <<version, entries, deltaLog, history, accepted, unsent, boot,
                 up, down, tasks, exits, reloads>>

IgnoreStale(w) ==
  /\ \/ /\ Running(w, "delta")
        /\ Stale(Head(ops[w]).body, replicaVersion[w])
     \/ /\ Running(w, "snapshot")
        /\ Head(ops[w]).body.version < replicaVersion[w]
  /\ Finished(w, Head(ops[w]).owner)
  /\ UNCHANGED <<version, entries, deltaLog, history, accepted, unsent, boot,
                 replicaVersion, replicaEntries, based, up, down, tasks,
                 exits, reloads>>

Gap(w) ==
  /\ ops[w] # << >>
  /\ Head(ops[w]).type = "delta"
  /\ ~Stale(Head(ops[w]).body, replicaVersion[w])
  /\ ~Applies(Head(ops[w]).body, replicaVersion[w])

(* Only applyPrimarySyncPayload catches STATE_VERSION_GAP ...               *)
GapInPayload(w) ==
  /\ Gap(w)
  /\ Head(ops[w]).payload
  /\ ops' = Drop(ops, w)
  /\ tasks' = Send(tasks, w, Msg("gap", NoDelta, Head(ops[w]).owner))
  /\ UNCHANGED <<version, entries, deltaLog, history, accepted, unsent, phase,
                 boot, replicaVersion, replicaEntries, based, up, down, open,
                 exits, reloads>>

(* ... in a synchronisation it fails the request or is only logged.         *)
GapInSync(w) ==
  /\ Gap(w)
  /\ ~Head(ops[w]).payload
  /\ Head(ops[w]).owner # "boot"
  /\ ops' = Drop(ops, w)
  /\ open' = Closed(w, Head(ops[w]).owner)
  /\ UNCHANGED <<version, entries, deltaLog, history, accepted, unsent, phase,
                 boot, replicaVersion, replicaEntries, based, up, down, tasks,
                 exits, reloads>>
-----------------------------------------------------------------------------
(* A worker process: startup, requests, exit.                               *)

(* createWatchdog seeds an empty replica at the snapshot's version.         *)
CreateReplica(w) ==
  /\ phase[w] = "resolved"
  /\ phase' = [phase EXCEPT ![w] = "syncing"]
  /\ replicaVersion' = [replicaVersion EXCEPT ![w] = boot[w].version]
  /\ replicaEntries' = [replicaEntries EXCEPT ![w] = Empty]
  /\ based' = [based EXCEPT ![w] = FALSE]
  /\ up' = Send(up, w, Req("getDeltaSince", boot[w].version, "boot"))
  /\ UNCHANGED <<version, entries, deltaLog, history, accepted, unsent, boot,
                 down, ops, tasks, open, exits, reloads>>

(* watchdog.start() drops an initial snapshot the replica is ahead of ...   *)
StartWithoutSnapshot(w) ==
  /\ phase[w] = "synced"
  /\ boot[w].version < replicaVersion[w]
  /\ phase' = [phase EXCEPT ![w] = "listening"]
  /\ UNCHANGED <<version, entries, deltaLog, history, accepted, unsent, boot,
                 replicaVersion, replicaEntries, based, up, down, ops, tasks,
                 open, exits, reloads>>

(* ... and otherwise installs it, after it has loaded the handlers.         *)
StartLoadHandlers(w) ==
  /\ phase[w] = "synced"
  /\ boot[w].version >= replicaVersion[w]
  /\ phase' = [phase EXCEPT ![w] = "starting"]
  /\ UNCHANGED <<version, entries, deltaLog, history, accepted, unsent, boot,
                 replicaVersion, replicaEntries, based, up, down, ops, tasks,
                 open, exits, reloads>>

StartInstallSnapshot(w) ==
  /\ phase[w] = "starting"
  /\ phase' = [phase EXCEPT ![w] = "listening"]
  /\ replicaVersion' = [replicaVersion EXCEPT ![w] = boot[w].version]
  /\ replicaEntries' = [replicaEntries EXCEPT ![w] = boot[w].state]
  /\ based' = [based EXCEPT ![w] = TRUE]
  /\ UNCHANGED <<version, entries, deltaLog, history, accepted, unsent, boot,
                 up, down, ops, tasks, open, exits, reloads>>

(* A request that changes files commits them through the primary.           *)
ClientWrite(w) ==
  /\ phase[w] = "listening"
  /\ "write" \notin open[w]
  /\ open' = [open EXCEPT ![w] = @ \union {"write"}]
  /\ up' = Send(up, w, Req("commitProjectPaths", 0, "write"))
  /\ UNCHANGED <<version, entries, deltaLog, history, accepted, unsent, phase,
                 boot, replicaVersion, replicaEntries, based, down, ops, tasks,
                 exits, reloads>>

(* Mutant: it asks for what follows the client's version, not the replica's. *)
FenceFromClientVersion(w) ==
  /\ phase[w] = "listening"
  /\ "fence" \notin open[w]
  /\ replicaVersion[w] < version
  /\ open' = [open EXCEPT ![w] = @ \union {"fence"}]
  /\ up' = Send(up, w, Req("getDeltaSince", version, "fence"))
  /\ UNCHANGED <<version, entries, deltaLog, history, accepted, unsent, phase,
                 boot, replicaVersion, replicaEntries, based, down, ops, tasks,
                 exits, reloads>>

(* A request whose client has seen a version this worker has not reached.   *)
FencedRequest(w) ==
  /\ phase[w] = "listening"
  /\ "fence" \notin open[w]
  /\ replicaVersion[w] < version
  /\ open' = [open EXCEPT ![w] = @ \union {"fence"}]
  /\ up' = Send(up, w, Req("getDeltaSince", replicaVersion[w], "fence"))
  /\ UNCHANGED <<version, entries, deltaLog, history, accepted, unsent, phase,
                 boot, replicaVersion, replicaEntries, based, down, ops, tasks,
                 exits, reloads>>

(* The process is gone with its channel; the primary forks another.  Writes *)
(* it asked for still run, their answers go nowhere.                        *)
Restart(w) ==
  /\ phase' = [phase EXCEPT ![w] = "forked"]
  /\ boot' = [boot EXCEPT ![w] = NoSnapshot]
  /\ replicaVersion' = [replicaVersion EXCEPT ![w] = 0]
  /\ replicaEntries' = [replicaEntries EXCEPT ![w] = Empty]
  /\ based' = [based EXCEPT ![w] = FALSE]
  /\ up' = [up EXCEPT ![w] = << >>]
  /\ down' = [down EXCEPT ![w] = << >>]
  /\ ops' = [ops EXCEPT ![w] = << >>]
  /\ tasks' = [tasks EXCEPT ![w] = << >>]
  /\ open' = [open EXCEPT ![w] = {}]
  /\ accepted' = [i \in DOMAIN accepted |->
                    IF accepted[i] = w THEN Nobody ELSE accepted[i]]
  /\ unsent' = [i \in DOMAIN unsent |->
                  IF unsent[i].origin = w
                  THEN [origin |-> Nobody, delta |-> unsent[i].delta]
                  ELSE unsent[i]]
  /\ UNCHANGED <<version, entries, deltaLog, history, reloads>>

Exit(w) ==
  /\ phase[w] # "forked"
  /\ exits < MaxExits
  /\ exits' = exits + 1
  /\ Restart(w)

(* A gap in the startup synchronisation rejects startClusterWorker().       *)
FailedStartup(w) ==
  /\ Gap(w)
  /\ ~Head(ops[w]).payload
  /\ Head(ops[w]).owner = "boot"
  /\ Restart(w)
  /\ UNCHANGED exits
-----------------------------------------------------------------------------
Primary ==
  \/ CommitAndEmit \/ RefreshWithNewConfig \/ RunCommit \/ FinishCommit
  \/ \E w \in Workers : \/ HandleReady(w) \/ HandleGetDeltaSince(w)
                        \/ HandleGetSnapshot(w) \/ HandleCommit(w)

ReceiveMessage(w) ==
  \/ ReceiveInitialSnapshot(w) \/ DropEarlyBroadcast(w)
  \/ ReceiveBroadcast(w) \/ ReceiveResponse(w)

Resume(w) ==
  \/ ResumeWithoutDelta(w) \/ ResumeWithPayload(w) \/ ResumeUnchangedWrite(w)
  \/ ResumeAfterGap(w)

RunOperation(w) ==
  \/ ApplyDelta(w) \/ ApplySnapshot(w) \/ IgnoreStale(w)
  \/ GapInPayload(w) \/ GapInSync(w) \/ FailedStartup(w)

StartUp(w) ==
  \/ AnnounceReady(w) \/ CreateReplica(w)
  \/ StartWithoutSnapshot(w) \/ StartLoadHandlers(w) \/ StartInstallSnapshot(w)

Next ==
  \/ Primary
  \/ \E w \in Workers :
       \/ ReceiveMessage(w) \/ Resume(w) \/ RunOperation(w) \/ StartUp(w)
       \/ ClientWrite(w) \/ FencedRequest(w) \/ Exit(w)

Spec == Init /\ [][Next]_vars

(* Every process keeps running what is runnable: promises settle, messages  *)
(* are delivered, and a client that is refused at its version retries.  The *)
(* primary's event loop reads every worker's channel in turn, so one        *)
(* worker's requests are not put off for ever by another's (SF).            *)
Fairness ==
  /\ WF_vars(RunCommit) /\ WF_vars(FinishCommit)
  /\ \A w \in Workers :
       /\ SF_vars(\/ HandleReady(w) \/ HandleGetDeltaSince(w)
                  \/ HandleGetSnapshot(w) \/ HandleCommit(w))
       /\ WF_vars(ReceiveMessage(w)) /\ WF_vars(Resume(w))
       /\ WF_vars(RunOperation(w)) /\ WF_vars(StartUp(w))
       /\ WF_vars(FencedRequest(w))

FairSpec == Spec /\ Fairness
-----------------------------------------------------------------------------
(* Type correctness of the primary, the channels and the replicas.          *)
TypeOK ==
  /\ version \in Nat
  /\ entries \in State
  /\ deltaLog \in SUBSET Delta
  /\ history \in [0..version -> State]
  /\ accepted \in Seq(Workers \union {Nobody})
  /\ unsent \in Seq(Unsent(Delta))
  /\ phase \in [Workers -> Phases]
  /\ boot \in [Workers -> Snapshot]
  /\ replicaVersion \in [Workers -> Nat]
  /\ replicaEntries \in [Workers -> State]
  /\ based \in [Workers -> BOOLEAN]
  /\ up \in [Workers -> Seq(Request(Nat))]
  /\ down \in [Workers -> Seq(Message(Delta, Snapshot))]
  /\ tasks \in [Workers -> Seq(Message(Delta, Snapshot))]
  /\ ops \in [Workers -> Seq(Op(Delta, Snapshot))]
  /\ open \in [Workers -> SUBSET {"write", "fence"}]
  /\ exits \in Nat /\ reloads \in Nat

(* What a replica that has installed a snapshot holds at version v is what  *)
(* the primary held at version v: whatever broadcasts were dropped, late,   *)
(* reordered or answered twice, no worker serves a state that never was.    *)
Coherent ==
  \A w \in Workers :
    based[w] => /\ replicaVersion[w] <= version
                /\ replicaEntries[w] = history[replicaVersion[w]]

(* getDeltaSince answers null only beyond the retention, and what it        *)
(* answers takes the state of version v to the present one.                 *)
DeltaSinceIsComplete ==
  \A v \in 0..version :
    IF DeltaSince(v) = NoDelta
    THEN version - v > DeltaRetention
    ELSE /\ DeltaSince(v).toVersion = version
         /\ Apply(history[v], DeltaSince(v).changes) = entries

(* A worker that serves requests never steps back to an older version, so   *)
(* the versions its responses advertise only grow.                          *)
ServedVersionsGrow ==
  [][\A w \in Workers :
       phase[w] = "listening" /\ phase'[w] = "listening"
         => replicaVersion'[w] >= replicaVersion[w]]_vars

(* The inductive invariant behind Coherent.  A delta or snapshot anywhere   *)
(* in the system is true of the history; the log can rebuild the present    *)
(* from any version it starts at; a replica is never ahead of the primary.  *)
DeltaOK(d) ==
  /\ d.fromVersion <= d.toVersion /\ d.toVersion <= version
  /\ Apply(history[d.fromVersion], d.changes) = history[d.toVersion]

SnapshotOK(s) == s.version <= version /\ s.state = history[s.version]

TrueDelta    == {d \in Delta : DeltaOK(d)}
TrueSnapshot == {s \in Snapshot : SnapshotOK(s)}

(* The last retained delta after v that touches k left k as it is now.      *)
LastTouch(v, k) ==
  \/ /\ \A d \in Later(v) : k \notin DOMAIN d.changes
     /\ history[v][k] = entries[k]
  \/ \E d \in Later(v) :
       /\ k \in DOMAIN d.changes
       /\ d.changes[k] = entries[k]
       /\ \A e \in Later(v) : k \in DOMAIN e.changes => e.toVersion <= d.toVersion

LogOK ==
  /\ \A d \in deltaLog : DeltaOK(d) /\ d.toVersion = d.fromVersion + 1
  /\ \A d, e \in deltaLog : d.toVersion = e.toVersion => d = e
  /\ \A n \in 1..version :
       n > version - DeltaRetention => \E d \in deltaLog : d.toVersion = n
  /\ \A v \in 0..version : v < version /\ StartsAt(Later(v), v)
                             => \A k \in Keys : LastTouch(v, k)

PrimaryOK == version >= 1 /\ history[0] = Empty /\ history[version] = entries

InFlightOK ==
  /\ unsent \in Seq(Unsent(TrueDelta))
  /\ up \in [Workers -> Seq(Request(0..version))]
  /\ down \in [Workers -> Seq(Message(TrueDelta, TrueSnapshot))]
  /\ tasks \in [Workers -> Seq(Message(TrueDelta, TrueSnapshot))]
  /\ ops \in [Workers -> Seq(Op(TrueDelta, TrueSnapshot))]

ReplicasOK ==
  \A w \in Workers :
    /\ SnapshotOK(boot[w])
    /\ replicaVersion[w] <= version
    /\ based[w] => replicaEntries[w] = history[replicaVersion[w]]

IInv == TypeOK /\ PrimaryOK /\ LogOK /\ InFlightOK /\ ReplicasOK

(* When writes stop, every worker ends up listening at the primary's        *)
(* version: no lost, late or failed synchronisation leaves one behind.      *)
EventuallyCaughtUp ==
  <>[](\A w \in Workers : /\ phase[w] = "listening"
                          /\ replicaVersion[w] = version)

(* What a client may observe: the workers as readers of a log of states.    *)
Serving(w)  == phase[w] = "listening" /\ based[w]
Position(w) == IF Serving(w) THEN replicaVersion[w] ELSE 0
Contents(w) == IF Serving(w) THEN replicaEntries[w] ELSE Empty

Abstract == INSTANCE AbstractReplica
  WITH last <- version, committed <- history,
       serving <- [w \in Workers |-> Serving(w)],
       position <- [w \in Workers |-> Position(w)],
       contents <- [w \in Workers |-> Contents(w)]

(* The protocol implements the log: a serving worker shows a committed      *)
(* state, moves only forward, and only commits extend the log.              *)
ImplementsAbstract == Abstract!Spec
=============================================================================
